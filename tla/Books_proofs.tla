---------------------------- MODULE Books_proofs ----------------------------
(***************************************************************************)
(* The books whose entries have to add up: the positions a log of events   *)
(* leads to, the weight granted in a span of time, the capital reserved,   *)
(* the paper account and the strategies' sleeves.  First, what             *)
(* SumFunctionOnSet computes over a finite set: induction over a set is an *)
(* argument about a smallest counterexample, MinimalSubset.                *)
(***************************************************************************)
EXTENDS RuntimeCheckpoint, ResourceLimits, CapitalReservations, PaperBroker, StrategySleeves,
        FiniteSetTheorems, WellFoundedInduction, TLAPS

\* Of the subsets of a finite set that are bad, one stops being bad whatever is taken
\* away from it.
LEMMA MinimalSubset ==
  ASSUME NEW S, IsFiniteSet(S), NEW Bad \in SUBSET SUBSET S, Bad # {}
  PROVE  \E T \in Bad : \A x \in T : T \ {x} \notin Bad
  <1>1. IsWellFoundedOn(StrictSubsetOrdering(S), FiniteSubsetsOf(S))
    BY FS_StrictSubsetOrderingWellFounded
  <1>2. Bad \subseteq FiniteSubsetsOf(S)
    BY FS_Subset DEF FiniteSubsetsOf
  <1>3. PICK T \in Bad : \A U \in Bad : ~(<<U, T>> \in StrictSubsetOrdering(S))
    BY <1>1, <1>2, WFMin
  <1>4. ASSUME NEW x \in T, T \ {x} \in Bad PROVE FALSE
    BY <1>3, <1>4 DEF StrictSubsetOrdering
  <1> QED BY <1>3, <1>4

Some(s) == CHOOSE x \in s : TRUE

\* g sums f over the subsets of S.
Tally(f, S, g) ==
  g = [s \in SUBSET S |-> IF s = {} THEN 0 ELSE f[Some(s)] + g[s \ {Some(s)}]]

LEMMA SumIsTally ==
  ASSUME NEW f, NEW S
  PROVE  SumFunctionOnSet(f, S) = (CHOOSE g : Tally(f, S, g))[S]
  BY DEF SumFunctionOnSet, FoldFunctionOnSet, MapThenFoldSet, Tally, Some

\* A set of natural numbers that is not empty has a least element.
LEMMA LeastElement ==
  ASSUME NEW T, T \subseteq Nat, T # {}
  PROVE  \E x \in T : \A y \in T : x <= y
  <1>1. \E x \in T : \A y \in T : ~(<<y, x>> \in OpToRel(<, Nat))
    BY WFMin, NatLessThanWellFounded
  <1>2. PICK x \in T : \A y \in T : ~(<<y, x>> \in OpToRel(<, Nat))
    BY <1>1
  <1>3. ASSUME NEW y \in T PROVE x <= y
    <2>1. x \in Nat /\ y \in Nat
      OBVIOUS
    <2>2. ~(y < x)
      BY <1>2, <2>1 DEF OpToRel
    <2> QED BY <2>1, <2>2
  <1> QED BY <1>3

\* The subsets of up to n elements, and a sum over each of them.
UpTo(S, n) == {s \in SUBSET S : Cardinality(s) <= n}
PartialTally(f, S, n, g) ==
  g = [s \in UpTo(S, n) |-> IF s = {} THEN 0 ELSE f[Some(s)] + g[s \ {Some(s)}]]

LEMMA TakenAway ==
  ASSUME NEW S, IsFiniteSet(S), NEW s \in SUBSET S, s # {}
  PROVE  /\ Some(s) \in s /\ s \ {Some(s)} \in SUBSET S
         /\ Cardinality(s) \in Nat /\ Cardinality(s \ {Some(s)}) = Cardinality(s) - 1
  <1>1. Some(s) \in s
    BY DEF Some
  <1>2. IsFiniteSet(s) /\ Cardinality(s) \in Nat
    BY FS_Subset, FS_CardinalityType
  <1>3. Cardinality(s \ {Some(s)}) = Cardinality(s) - 1
    BY <1>1, <1>2, FS_RemoveElement
  <1> QED BY <1>1, <1>2, <1>3

LEMMA PartialTallyExists ==
  ASSUME NEW S, IsFiniteSet(S), NEW f, \A x \in S : f[x] \in Int, NEW n \in Nat
  PROVE  \E g \in [UpTo(S, n) -> Int] : PartialTally(f, S, n, g)
  <1> DEFINE Sums(k) == \E g \in [UpTo(S, k) -> Int] : PartialTally(f, S, k, g)
             Bad == {k \in Nat : ~Sums(k)}
  <1> SUFFICES ASSUME ~Sums(n) PROVE FALSE
    OBVIOUS
  <1>1. PICK m \in Bad : \A k \in Bad : m <= k
    <2>1. Bad \subseteq Nat /\ n \in Bad
      OBVIOUS
    <2> HIDE DEF Bad
    <2> QED BY <2>1, LeastElement
  <1>2. \A s \in UpTo(S, 0) : s = {}
    <2>1. ASSUME NEW s \in SUBSET S, Cardinality(s) <= 0 PROVE s = {}
      BY <2>1, FS_Subset, FS_CardinalityType, FS_EmptySet
    <2> QED BY <2>1 DEF UpTo
  <1>3. Sums(0)
    <2> DEFINE g == [s \in UpTo(S, 0) |-> 0]
    <2>1. g = [s \in UpTo(S, 0) |-> IF s = {} THEN 0 ELSE f[Some(s)] + g[s \ {Some(s)}]]
      BY <1>2
    <2>2. g \in [UpTo(S, 0) -> Int]
      OBVIOUS
    <2> QED BY <2>1, <2>2 DEF PartialTally
  <1>4. m # 0 /\ m \in Nat /\ m - 1 \in Nat /\ ~(m <= m - 1) /\ ~Sums(m)
    BY <1>3
  <1>5. Sums(m - 1)
    BY <1>1, <1>4
  <1>6. PICK g \in [UpTo(S, m - 1) -> Int] : PartialTally(f, S, m - 1, g)
    BY <1>5
  <1> DEFINE h == [s \in UpTo(S, m) |-> IF s = {} THEN 0 ELSE f[Some(s)] + g[s \ {Some(s)}]]
  <1>7. ASSUME NEW s \in UpTo(S, m), s # {}
        PROVE  /\ s \ {Some(s)} \in UpTo(S, m - 1) /\ s \ {Some(s)} \in UpTo(S, m)
               /\ f[Some(s)] \in Int
    BY <1>4, <1>7, TakenAway DEF UpTo
  <1>8. ASSUME NEW s \in UpTo(S, m - 1) PROVE s \in UpTo(S, m) /\ h[s] = g[s]
    <2>1. s \in UpTo(S, m)
      <3>1. Cardinality(s) \in Nat /\ Cardinality(s) <= m - 1
        BY <1>8, FS_Subset, FS_CardinalityType DEF UpTo
      <3> QED BY <1>4, <3>1 DEF UpTo
    <2>2. g[s] = IF s = {} THEN 0 ELSE f[Some(s)] + g[s \ {Some(s)}]
      BY <1>6, <1>8 DEF PartialTally
    <2> QED BY <2>1, <2>2
  <1>9. h \in [UpTo(S, m) -> Int]
    <2>1. ASSUME NEW s \in UpTo(S, m) PROVE h[s] \in Int
      BY <1>6, <1>7, <2>1
    <2> QED BY <2>1
  <1>10. h = [s \in UpTo(S, m) |-> IF s = {} THEN 0 ELSE f[Some(s)] + h[s \ {Some(s)}]]
    <2>1. ASSUME NEW s \in UpTo(S, m), s # {} PROVE h[s \ {Some(s)}] = g[s \ {Some(s)}]
      BY <1>7, <1>8, <2>1
    <2> HIDE DEF h
    <2>2. h = [s \in UpTo(S, m) |-> IF s = {} THEN 0 ELSE f[Some(s)] + g[s \ {Some(s)}]]
      BY DEF h
    <2> QED BY <2>1, <2>2
  <1>11. Sums(m)
    <2> HIDE DEF h
    <2> QED BY <1>9, <1>10 DEF PartialTally
  <1> QED BY <1>4, <1>11

LEMMA TallyExists ==
  ASSUME NEW S, IsFiniteSet(S), NEW f, \A x \in S : f[x] \in Int
  PROVE  \E g \in [SUBSET S -> Int] : Tally(f, S, g)
  <1> DEFINE n == Cardinality(S)
  <1>1. n \in Nat
    BY FS_CardinalityType
  <1>2. UpTo(S, n) = SUBSET S
    BY FS_Subset DEF UpTo
  <1>3. PICK g \in [UpTo(S, n) -> Int] : PartialTally(f, S, n, g)
    BY <1>1, PartialTallyExists
  <1> QED BY <1>2, <1>3 DEF PartialTally, Tally

\* Any two sums over the subsets of S and of a set that contains it agree on S.
LEMMA TallyIsUnique ==
  ASSUME NEW S, IsFiniteSet(S), NEW U, S \subseteq U, NEW f, NEW g, NEW h,
         Tally(f, S, g), Tally(f, U, h)
  PROVE  g[S] = h[S]
  <1> DEFINE Bad == {T \in SUBSET S : g[T] # h[T]}
  <1> SUFFICES ASSUME g[S] # h[S] PROVE FALSE
    OBVIOUS
  <1>1. PICK T \in Bad : \A x \in T : T \ {x} \notin Bad
    <2>1. Bad \in SUBSET SUBSET S /\ S \in Bad
      OBVIOUS
    <2> HIDE DEF Bad
    <2> QED BY <2>1, MinimalSubset
  <1>2. T \in SUBSET S /\ T \in SUBSET U /\ g[T] # h[T]
    OBVIOUS
  <1>3. /\ g[T] = IF T = {} THEN 0 ELSE f[Some(T)] + g[T \ {Some(T)}]
        /\ h[T] = IF T = {} THEN 0 ELSE f[Some(T)] + h[T \ {Some(T)}]
    BY <1>2 DEF Tally
  <1>4. T # {}
    BY <1>2, <1>3
  <1>5. Some(T) \in T
    BY <1>4 DEF Some
  <1>6. g[T \ {Some(T)}] = h[T \ {Some(T)}]
    BY <1>1, <1>2, <1>5
  <1> QED BY <1>2, <1>3, <1>4, <1>6

-----------------------------------------------------------------------------
(* What the rest of the project uses.                                      *)

\* A sum of integers is an integer; the sum over nothing is 0, and CHOOSE's element
\* may be taken out first.
LEMMA SumOfSome ==
  ASSUME NEW S, IsFiniteSet(S), NEW f, \A x \in S : f[x] \in Int
  PROVE  /\ SumFunctionOnSet(f, S) \in Int
         /\ S = {} => SumFunctionOnSet(f, S) = 0
         /\ S # {} => SumFunctionOnSet(f, S) = f[Some(S)] + SumFunctionOnSet(f, S \ {Some(S)})
  <1> DEFINE R == S \ {Some(S)}
  <1>1. PICK g : g = (CHOOSE k : Tally(f, S, k)) /\ Tally(f, S, g)
    BY TallyExists
  <1>2. SumFunctionOnSet(f, S) = g[S]
    BY <1>1, SumIsTally
  <1>3. PICK k \in [SUBSET S -> Int] : Tally(f, S, k)
    BY TallyExists
  <1>4. g[S] \in Int
    BY <1>1, <1>3, TallyIsUnique
  <1>5. g[S] = IF S = {} THEN 0 ELSE f[Some(S)] + g[R]
    BY <1>1 DEF Tally
  <1>6. IsFiniteSet(R) /\ R \subseteq S
    BY FS_RemoveElement
  <1>7. SumFunctionOnSet(f, R) = g[R]
    <2> HIDE DEF R
    <2>1. \E h : Tally(f, R, h)
      BY <1>6, TallyExists
    <2>2. PICK h : h = (CHOOSE j : Tally(f, R, j)) /\ Tally(f, R, h)
      BY <2>1
    <2>3. h[R] = g[R]
      BY <1>1, <1>6, <2>2, TallyIsUnique
    <2> QED BY <2>2, <2>3, SumIsTally
  <1> QED BY <1>2, <1>4, <1>5, <1>7

\* Any element may be taken out first.
LEMMA SumRemove ==
  ASSUME NEW S, IsFiniteSet(S), NEW f, \A x \in S : f[x] \in Int, NEW e \in S
  PROVE  SumFunctionOnSet(f, S) = f[e] + SumFunctionOnSet(f, S \ {e})
  <1> DEFINE Good(T) == \A x \in T : SumFunctionOnSet(f, T) = f[x] + SumFunctionOnSet(f, T \ {x})
             Bad == {T \in SUBSET S : ~Good(T)}
  <1> SUFFICES ASSUME ~Good(S) PROVE FALSE
    OBVIOUS
  <1>1. PICK T \in Bad : \A x \in T : T \ {x} \notin Bad
    <2>1. Bad \in SUBSET SUBSET S /\ S \in Bad
      OBVIOUS
    <2> HIDE DEF Bad
    <2> QED BY <2>1, MinimalSubset
  <1>2. T \in SUBSET S /\ ~Good(T) /\ \A x \in T : Good(T \ {x})
    BY <1>1
  <1>3. PICK x \in T : SumFunctionOnSet(f, T) # f[x] + SumFunctionOnSet(f, T \ {x})
    BY <1>2
  <1> DEFINE c == Some(T)
             R == (T \ {x}) \ {c}
  <1>4. c \in T
    BY DEF Some
  <1>5. IsFiniteSet(T) /\ IsFiniteSet(R)
    BY <1>2, FS_Subset, FS_RemoveElement
  <1>6. SumFunctionOnSet(f, T) = f[c] + SumFunctionOnSet(f, T \ {c})
    BY <1>2, <1>4, <1>5, SumOfSome
  <1>7. c # x
    BY <1>3, <1>6
  <1>8. (T \ {c}) \ {x} = R
    OBVIOUS
  <1>9. SumFunctionOnSet(f, T \ {x}) = f[c] + SumFunctionOnSet(f, R)
    BY <1>2, <1>4, <1>7
  <1>10. SumFunctionOnSet(f, T \ {c}) = f[x] + SumFunctionOnSet(f, R)
    BY <1>2, <1>4, <1>7, <1>8
  <1>11. f[x] \in Int /\ f[c] \in Int /\ SumFunctionOnSet(f, R) \in Int
    BY <1>2, <1>4, <1>5, SumOfSome
  <1> HIDE DEF c, R
  <1> QED BY <1>3, <1>6, <1>9, <1>10, <1>11

\* One element more.
LEMMA SumAdd ==
  ASSUME NEW S, IsFiniteSet(S), NEW f, \A x \in S : f[x] \in Int, NEW e, e \notin S, f[e] \in Int
  PROVE  SumFunctionOnSet(f, S \cup {e}) = SumFunctionOnSet(f, S) + f[e]
  <1>1. IsFiniteSet(S \cup {e}) /\ (S \cup {e}) \ {e} = S
    BY FS_AddElement
  <1>2. SumFunctionOnSet(f, S \cup {e}) = f[e] + SumFunctionOnSet(f, S)
    BY <1>1, SumRemove
  <1>3. SumFunctionOnSet(f, S) \in Int
    BY SumOfSome
  <1> QED BY <1>2, <1>3

\* Functions that agree on the set have the same sum.
LEMMA SumAgrees ==
  ASSUME NEW S, IsFiniteSet(S), NEW f, NEW g, \A x \in S : f[x] \in Int /\ g[x] = f[x]
  PROVE  SumFunctionOnSet(g, S) = SumFunctionOnSet(f, S)
  <1> DEFINE Bad == {T \in SUBSET S : SumFunctionOnSet(g, T) # SumFunctionOnSet(f, T)}
  <1> SUFFICES ASSUME SumFunctionOnSet(g, S) # SumFunctionOnSet(f, S) PROVE FALSE
    OBVIOUS
  <1>1. PICK T \in Bad : \A x \in T : T \ {x} \notin Bad
    <2>1. Bad \in SUBSET SUBSET S /\ S \in Bad
      OBVIOUS
    <2> HIDE DEF Bad
    <2> QED BY <2>1, MinimalSubset
  <1>2. T \in SUBSET S /\ IsFiniteSet(T)
    BY FS_Subset
  <1>3. (\A x \in T : f[x] \in Int) /\ (\A x \in T : g[x] \in Int)
    BY <1>2
  <1>4. T # {}
    BY <1>1, <1>2, <1>3, SumOfSome
  <1>5. PICK x \in T : TRUE
    BY <1>4
  <1>6. SumFunctionOnSet(g, T \ {x}) = SumFunctionOnSet(f, T \ {x})
    BY <1>1, <1>2
  <1>7. SumFunctionOnSet(f, T) = f[x] + SumFunctionOnSet(f, T \ {x})
    BY <1>2, <1>3, SumRemove
  <1>8. SumFunctionOnSet(g, T) = g[x] + SumFunctionOnSet(g, T \ {x})
    BY <1>2, <1>3, SumRemove
  <1> QED BY <1>1, <1>2, <1>6, <1>7, <1>8

\* The sum over two disjoint sets.
LEMMA SumUnion ==
  ASSUME NEW S, IsFiniteSet(S), NEW U, IsFiniteSet(U), S \cap U = {},
         NEW f, \A x \in S \cup U : f[x] \in Int
  PROVE  SumFunctionOnSet(f, S \cup U) = SumFunctionOnSet(f, S) + SumFunctionOnSet(f, U)
  <1> DEFINE Good(T) == SumFunctionOnSet(f, T \cup U) = SumFunctionOnSet(f, T) + SumFunctionOnSet(f, U)
             Bad == {T \in SUBSET S : ~Good(T)}
  <1> SUFFICES ASSUME ~Good(S) PROVE FALSE
    OBVIOUS
  <1>1. PICK T \in Bad : \A x \in T : T \ {x} \notin Bad
    <2>1. Bad \in SUBSET SUBSET S /\ S \in Bad
      OBVIOUS
    <2> HIDE DEF Bad
    <2> QED BY <2>1, MinimalSubset
  <1>2. T \in SUBSET S /\ IsFiniteSet(T) /\ ~Good(T)
    BY FS_Subset
  <1>3. SumFunctionOnSet(f, U) \in Int
    BY SumOfSome
  <1>4. T # {}
    <2>1. ASSUME T = {} PROVE FALSE
      <3>1. SumFunctionOnSet(f, T) = 0
        BY <2>1, <1>2, SumOfSome
      <3>2. SumFunctionOnSet(f, T \cup U) = SumFunctionOnSet(f, U)
        <4>1. T \cup U = U
          BY <2>1
        <4> QED BY <4>1
      <3> QED BY <1>2, <1>3, <3>1, <3>2
    <2> QED BY <2>1
  <1>5. PICK x \in T : TRUE
    BY <1>4
  <1> DEFINE R == T \ {x}
  <1>6. IsFiniteSet(R) /\ IsFiniteSet(T \cup U) /\ (T \cup U) \ {x} = R \cup U
    <2>1. IsFiniteSet(R)
      BY <1>2, FS_RemoveElement
    <2>2. IsFiniteSet(T \cup U)
      BY <1>2, FS_Union
    <2>3. x \notin U
      BY <1>2
    <2> QED BY <2>1, <2>2, <2>3
  <1>7. Good(R)
    BY <1>1, <1>2
  <1>8. SumFunctionOnSet(f, T \cup U) = f[x] + SumFunctionOnSet(f, R \cup U)
    BY <1>2, <1>6, SumRemove
  <1>9. SumFunctionOnSet(f, T) = f[x] + SumFunctionOnSet(f, R)
    BY <1>2, SumRemove
  <1>10. f[x] \in Int /\ SumFunctionOnSet(f, R) \in Int
    BY <1>2, <1>6, SumOfSome
  <1> HIDE DEF R
  <1> QED BY <1>2, <1>3, <1>7, <1>8, <1>9, <1>10

\* A sum of natural numbers is one, and grows with the set.
LEMMA SumOfNaturals ==
  ASSUME NEW S, IsFiniteSet(S), NEW f, \A x \in S : f[x] \in Nat
  PROVE  SumFunctionOnSet(f, S) \in Nat
  <1> DEFINE Bad == {T \in SUBSET S : SumFunctionOnSet(f, T) \notin Nat}
  <1> SUFFICES ASSUME SumFunctionOnSet(f, S) \notin Nat PROVE FALSE
    OBVIOUS
  <1>1. PICK T \in Bad : \A x \in T : T \ {x} \notin Bad
    <2>1. Bad \in SUBSET SUBSET S /\ S \in Bad
      OBVIOUS
    <2> HIDE DEF Bad
    <2> QED BY <2>1, MinimalSubset
  <1>2. T \in SUBSET S /\ IsFiniteSet(T) /\ \A x \in T : f[x] \in Int
    BY FS_Subset
  <1>3. T # {}
    <2>1. ASSUME T = {} PROVE SumFunctionOnSet(f, T) = 0
      BY <1>2, <2>1, SumOfSome
    <2> QED BY <1>1, <2>1
  <1>4. PICK x \in T : TRUE
    BY <1>3
  <1>5. SumFunctionOnSet(f, T \ {x}) \in Nat /\ f[x] \in Nat
    BY <1>1, <1>2
  <1>6. SumFunctionOnSet(f, T) = f[x] + SumFunctionOnSet(f, T \ {x})
    BY <1>2, SumRemove
  <1> QED BY <1>1, <1>5, <1>6

LEMMA SumOfPart ==
  ASSUME NEW S, IsFiniteSet(S), NEW f, \A x \in S : f[x] \in Nat, NEW T \in SUBSET S
  PROVE  SumFunctionOnSet(f, T) <= SumFunctionOnSet(f, S)
  <1> DEFINE R == S \ T
  <1>1. IsFiniteSet(T) /\ IsFiniteSet(R) /\ T \cap R = {} /\ T \cup R = S
    BY FS_Subset
  <1>2. SumFunctionOnSet(f, T) \in Nat /\ SumFunctionOnSet(f, R) \in Nat
    BY <1>1, SumOfNaturals
  <1>3. SumFunctionOnSet(f, T \cup R) = SumFunctionOnSet(f, T) + SumFunctionOnSet(f, R)
    <2> HIDE DEF R
    <2> QED BY <1>1, SumUnion
  <1>4. SumFunctionOnSet(f, T \cup R) = SumFunctionOnSet(f, S)
    BY <1>1
  <1> HIDE DEF R
  <1> QED BY <1>2, <1>3, <1>4
-----------------------------------------------------------------------------
(* The runtime checkpoint.                                                 *)

\* Replaying one event more adds its change.
LEMMA ReplayedAppend ==
  ASSUME NEW log \in Seq(Changes), NEW change \in Changes
  PROVE  Replayed(Append(log, change)) = Replayed(log) + change
  <1> DEFINE n == Len(log) + 1
             longer == Append(log, change)
  <1>1. /\ Len(log) \in Nat /\ DOMAIN log = 1..Len(log) /\ DOMAIN longer = (DOMAIN log) \cup {n}
        /\ n \notin DOMAIN log /\ longer[n] = change /\ change \in Int
        /\ \A i \in DOMAIN log : log[i] \in Int /\ longer[i] = log[i]
    BY DEF Changes
  <1>2. IsFiniteSet(DOMAIN log)
    BY <1>1, FS_Interval
  <1> HIDE DEF longer, n
  <1>3. SumFunctionOnSet(longer, (DOMAIN log) \cup {n}) = SumFunctionOnSet(longer, DOMAIN log) + longer[n]
    BY <1>1, <1>2, SumAdd
  <1>4. SumFunctionOnSet(longer, DOMAIN log) = SumFunctionOnSet(log, DOMAIN log)
    BY <1>1, <1>2, SumAgrees
  <1> QED BY <1>1, <1>3, <1>4 DEF Replayed, SumFunction, longer

LEMMA ReplayedEmpty == Replayed(<<>>) = 0
  <1>1. DOMAIN <<>> = {}
    OBVIOUS
  <1>2. SumFunctionOnSet(<<>>, {}) = 0
    BY FS_EmptySet, SumOfSome
  <1> QED BY <1>1, <1>2 DEF Replayed, SumFunction

CheckpointPayloads ==
  [created : Int, config : Configs, sequence : Nat, positions : Int, chain : Seq(Changes)]

\* What was signed is what the log it was signed over leads to.
CheckpointInv ==
  /\ eventLog \in Seq(Changes) /\ config \in Configs /\ checkpointNow \in Int
  /\ runtime \in {"running", "crashed"}
  /\ holding \in Int
  /\ checkpoint # <<>> =>
       /\ checkpoint \in [payload : CheckpointPayloads, signed : CheckpointPayloads]
       /\ checkpoint.signed.positions = Replayed(checkpoint.signed.chain)
  /\ RestoredIsReplayed

LEMMA ReplayedType ==
  ASSUME NEW log \in Seq(Changes) PROVE Replayed(log) \in Int
  <1>1. DOMAIN log = 1..Len(log) /\ Len(log) \in Nat /\ \A i \in DOMAIN log : log[i] \in Int
    BY DEF Changes
  <1>2. IsFiniteSet(DOMAIN log)
    BY <1>1, FS_Interval
  <1> QED BY <1>1, <1>2, SumOfSome DEF Replayed, SumFunction

LEMMA CheckpointNextInv == CheckpointInv /\ [CheckpointNext]_checkpointVars => CheckpointInv'
  <1> SUFFICES ASSUME CheckpointInv, [CheckpointNext]_checkpointVars PROVE CheckpointInv'
    OBVIOUS
  <1>1. CASE CheckpointTick
    BY <1>1 DEF CheckpointTick, CheckpointInv, RestoredIsReplayed
  <1>2. CASE CreateRuntimeCheckpoint
    <2> DEFINE payload == [created |-> checkpointNow, config |-> config, sequence |-> Len(eventLog),
                           positions |-> holding, chain |-> eventLog]
               made == [payload |-> payload, signed |-> payload]
    <2>1. checkpoint' = made /\ runtime = "running"
          /\ UNCHANGED <<eventLog, holding, config, runtime, checkpointNow, checkpointFaults>>
      BY <1>2 DEF CreateRuntimeCheckpoint
    <2>2. payload \in CheckpointPayloads /\ payload.positions = Replayed(payload.chain)
      BY <2>1 DEF CheckpointInv, CheckpointPayloads, RestoredIsReplayed
    <2> HIDE DEF payload
    <2>3. made \in [payload : CheckpointPayloads, signed : CheckpointPayloads] /\ made.signed = payload
      BY <2>2
    <2> HIDE DEF made
    <2> QED BY <2>1, <2>2, <2>3 DEF CheckpointInv, RestoredIsReplayed
  <1>3. CASE CrashRuntime
    BY <1>3 DEF CrashRuntime, CheckpointInv, RestoredIsReplayed
  <1>4. CASE RestartRuntime
    <2> DEFINE usable == checkpoint # <<>> /\ RestoreAllowed
    <2>1. /\ runtime' = "running" /\ UNCHANGED <<eventLog, config, checkpoint, checkpointNow, checkpointFaults>>
          /\ holding' = IF usable THEN checkpoint.payload.positions ELSE Replayed(eventLog)
      BY <1>4 DEF RestartRuntime
    <2>2. ASSUME usable PROVE checkpoint.payload.positions = Replayed(eventLog)
      BY <2>2 DEF RestoreAllowed, VerifyRuntimeCheckpoint, CheckpointInv
    <2>3. Replayed(eventLog) \in Int
      BY ReplayedType DEF CheckpointInv
    <2> QED BY <2>1, <2>2, <2>3 DEF CheckpointInv, RestoredIsReplayed
  <1>5. ASSUME NEW change \in Changes, ApplyEvent(change) PROVE CheckpointInv'
    <2>1. /\ eventLog' = Append(eventLog, change) /\ holding' = holding + change /\ runtime = "running"
          /\ UNCHANGED <<config, checkpoint, runtime, checkpointNow, checkpointFaults>>
      BY <1>5 DEF ApplyEvent
    <2>2. Replayed(eventLog') = Replayed(eventLog) + change
      BY <2>1, ReplayedAppend DEF CheckpointInv
    <2>3. eventLog' \in Seq(Changes) /\ holding' \in Int
      BY <2>1 DEF CheckpointInv, Changes
    <2> QED BY <2>1, <2>2, <2>3 DEF CheckpointInv, RestoredIsReplayed
  <1>6. ASSUME NEW c \in Configs, ChangeConfig(c) PROVE CheckpointInv'
    BY <1>6 DEF ChangeConfig, CheckpointInv, RestoredIsReplayed
  <1>7. ASSUME NEW n \in 0..MaxCheckpointEvents, DamageCheckpoint(n) PROVE CheckpointInv'
    <2> DEFINE damaged == [checkpoint EXCEPT !.payload.positions = n]
    <2>1. /\ checkpoint # <<>> /\ checkpoint' = damaged
          /\ UNCHANGED <<eventLog, holding, config, runtime, checkpointNow>>
      BY <1>7 DEF DamageCheckpoint
    <2>2. n \in Int
      BY CheckpointAssumption
    <2>3. damaged \in [payload : CheckpointPayloads, signed : CheckpointPayloads]
          /\ damaged.signed = checkpoint.signed
      BY <2>1, <2>2 DEF CheckpointInv, CheckpointPayloads
    <2> HIDE DEF damaged
    <2> QED BY <2>1, <2>3 DEF CheckpointInv, RestoredIsReplayed
  <1>8. ASSUME NEW n \in 0..MaxCheckpointEvents, RestoreDatabase(n) PROVE CheckpointInv'
    <2>1. /\ runtime = "crashed" /\ n < Len(eventLog) /\ eventLog' = SubSeq(eventLog, 1, n)
          /\ UNCHANGED <<holding, config, checkpoint, runtime, checkpointNow>>
      BY <1>8 DEF RestoreDatabase
    <2>2. SubSeq(eventLog, 1, n) \in Seq(Changes)
      BY <2>1, CheckpointAssumption DEF CheckpointInv
    <2> QED BY <2>1, <2>2 DEF CheckpointInv, RestoredIsReplayed
  <1>9. CASE UNCHANGED checkpointVars
    BY <1>9 DEF checkpointVars, CheckpointInv, RestoredIsReplayed
  <1> QED BY <1>1, <1>2, <1>3, <1>4, <1>5, <1>6, <1>7, <1>8, <1>9 DEF CheckpointNext

\* evaluate_restore: for any configurations, ages and events, whatever is damaged, put back
\* or rewritten in between, a process that runs holds what the event log leads to.
THEOREM RestartHoldsTheReplay == CheckpointSpec => []RestoredIsReplayed
  <1>1. CheckpointInit => CheckpointInv
    BY ReplayedEmpty DEF CheckpointInit, CheckpointInv, RestoredIsReplayed
  <1>2. CheckpointInv => RestoredIsReplayed
    BY DEF CheckpointInv
  <1> QED BY <1>1, <1>2, CheckpointNextInv, PTL DEF CheckpointSpec
-----------------------------------------------------------------------------
(* The rate budget.                                                        *)

\* A sum of zeros.
LEMMA SumOfZeros ==
  ASSUME NEW S, IsFiniteSet(S), NEW f, \A x \in S : f[x] = 0
  PROVE  SumFunctionOnSet(f, S) = 0
  <1> DEFINE Bad == {T \in SUBSET S : SumFunctionOnSet(f, T) # 0}
  <1> SUFFICES ASSUME SumFunctionOnSet(f, S) # 0 PROVE FALSE
    OBVIOUS
  <1>1. PICK T \in Bad : \A x \in T : T \ {x} \notin Bad
    <2>1. Bad \in SUBSET SUBSET S /\ S \in Bad
      OBVIOUS
    <2> HIDE DEF Bad
    <2> QED BY <2>1, MinimalSubset
  <1>2. T \in SUBSET S /\ IsFiniteSet(T) /\ (\A x \in T : f[x] \in Int) /\ SumFunctionOnSet(f, T) # 0
    BY FS_Subset
  <1>3. T # {}
    <2>1. ASSUME T = {} PROVE SumFunctionOnSet(f, T) = 0
      BY <1>2, <2>1, SumOfSome
    <2> QED BY <1>2, <2>1
  <1>4. PICK x \in T : TRUE
    BY <1>3
  <1>5. SumFunctionOnSet(f, T \ {x}) = 0 /\ f[x] = 0
    BY <1>1, <1>2
  <1>6. SumFunctionOnSet(f, T) = f[x] + SumFunctionOnSet(f, T \ {x})
    BY <1>2, SumRemove
  <1> QED BY <1>2, <1>5, <1>6

\* Adding w to one element of the set adds w to the sum, elsewhere it adds nothing.
LEMMA SumChanged ==
  ASSUME NEW S, IsFiniteSet(S), NEW f, \A x \in S : f[x] \in Int, NEW w \in Int, NEW e, NEW g,
         \A x \in S \ {e} : g[x] = f[x], e \in S => g[e] = f[e] + w
  PROVE  /\ e \in S => SumFunctionOnSet(g, S) = SumFunctionOnSet(f, S) + w
         /\ e \notin S => SumFunctionOnSet(g, S) = SumFunctionOnSet(f, S)
  <1> DEFINE R == S \ {e}
  <1>1. IsFiniteSet(R) /\ \A x \in R : f[x] \in Int /\ g[x] = f[x]
    BY FS_RemoveElement
  <1> HIDE DEF R
  <1>2. SumFunctionOnSet(g, R) = SumFunctionOnSet(f, R) /\ SumFunctionOnSet(f, R) \in Int
    BY <1>1, SumAgrees, SumOfSome
  <1>3. CASE e \in S
    <2>1. \A x \in S : g[x] \in Int
      BY <1>3
    <2>2. SumFunctionOnSet(g, S) = g[e] + SumFunctionOnSet(g, R)
      BY <1>3, <2>1, SumRemove DEF R
    <2>3. SumFunctionOnSet(f, S) = f[e] + SumFunctionOnSet(f, R)
      BY <1>3, SumRemove DEF R
    <2>4. f[e] \in Int /\ g[e] = f[e] + w
      BY <1>3
    <2> QED BY <1>2, <1>3, <2>2, <2>3, <2>4
  <1>4. CASE e \notin S
    <2>1. R = S
      BY <1>4 DEF R
    <2> QED BY <1>2, <1>4, <2>1
  <1> QED BY <1>3, <1>4
\* How often budget k was configured again in a..b, and what was granted since a.
Renewals(k, again, a, b) == Cardinality({u \in a..b : <<k, u>> \in again})
Since(weights, a) == SumFunctionOnSet(weights, a..MaxRateTime)

\* Since the start of its window a budget has granted what it has used; a span that
\* began before that also holds what was left of one window, and a limit for each
\* time the budget was configured again.
GrantedSince(k, b, weights, again, a) ==
  /\ a > b.started => Since(weights, a) <= b.used
  /\ a <= b.started /\ b.started - a < Interval =>
       Since(weights, a) <= b.used + (1 + Renewals(k, again, a, b.started)) * Limit

SpanHolds(k, weights, again, t) ==
  SumFunctionOnSet(weights, (t..(t + Interval - 1)) \cap 0..MaxRateTime)
    <= (2 + Renewals(k, again, t, t + Interval - 1)) * Limit

\* What holds of one budget, its grants and its renewals.
BudgetOK(k, b, weights, now, again) ==
  /\ b \in [used : 0..Limit, started : 0..MaxRateTime] /\ weights \in [0..MaxRateTime -> Nat]
  /\ b.started <= now /\ now \in 0..MaxRateTime
  /\ \A t \in now+1..MaxRateTime : weights[t] = 0
  /\ \A a \in 0..MaxRateTime :
       GrantedSince(k, b, weights, again, a) /\ SpanHolds(k, weights, again, a)

\* The number of renewals grows with the span and with the renewals.
LEMMA RenewalsGrow ==
  ASSUME NEW k, NEW a \in Int, NEW b \in Int, NEW c \in Int, b <= c, NEW again, NEW more,
         again \subseteq more
  PROVE  /\ Renewals(k, again, a, b) \in Nat /\ Renewals(k, more, a, c) \in Nat
         /\ Renewals(k, again, a, b) <= Renewals(k, more, a, c)
  <1> DEFINE B == {u \in a..b : <<k, u>> \in again}
             C == {u \in a..c : <<k, u>> \in more}
  <1>1. IsFiniteSet(a..c) /\ C \in SUBSET (a..c) /\ B \in SUBSET C
    BY FS_Interval
  <1> HIDE DEF B, C
  <1>2. IsFiniteSet(C)
    BY <1>1, FS_Subset
  <1>3. IsFiniteSet(B) /\ Cardinality(B) <= Cardinality(C)
    BY <1>1, <1>2, FS_Subset
  <1>4. Cardinality(B) \in Nat /\ Cardinality(C) \in Nat
    BY <1>2, <1>3, FS_CardinalityType
  <1> QED BY <1>3, <1>4 DEF B, C, Renewals

LEMMA LimitsGrow ==
  ASSUME NEW m \in Nat, NEW n \in Nat, m <= n PROVE m * Limit <= n * Limit /\ m * Limit \in Nat
  BY BudgetAssumption

\* One renewal more, at the end of a span that holds it.
LEMMA RenewalsAdd ==
  ASSUME NEW k, NEW a \in Int, NEW b \in Int, a <= b, NEW again, <<k, b>> \notin again
  PROVE  Renewals(k, again \cup {<<k, b>>}, a, b) = Renewals(k, again, a, b) + 1
  <1> DEFINE B == {u \in a..b : <<k, u>> \in again}
             C == {u \in a..b : <<k, u>> \in again \cup {<<k, b>>}}
  <1>1. B \in SUBSET (a..b) /\ b \notin B
    OBVIOUS
  <1>0. C = B \cup {b}
    <2>1. ASSUME NEW u \in C PROVE u \in B \cup {b}
      OBVIOUS
    <2>2. ASSUME NEW u \in B \cup {b} PROVE u \in C
      OBVIOUS
    <2> HIDE DEF B, C
    <2> QED BY <2>1, <2>2
  <1>4. IsFiniteSet(a..b)
    BY FS_Interval
  <1> HIDE DEF B, C
  <1>2. IsFiniteSet(B)
    BY <1>1, <1>4, FS_Subset
  <1>3. Cardinality(C) = Cardinality(B) + 1
    BY <1>0, <1>1, <1>2, FS_AddElement
  <1> QED BY <1>3 DEF B, C, Renewals

\* Nothing was granted after now.
LEMMA NothingSince ==
  ASSUME NEW k, NEW b, NEW weights, NEW now, NEW again, BudgetOK(k, b, weights, now, again),
         NEW a \in 0..MaxRateTime, a > now
  PROVE  Since(weights, a) = 0
  <1>1. IsFiniteSet(a..MaxRateTime)
    BY BudgetAssumption, FS_Interval
  <1>2. \A t \in a..MaxRateTime : weights[t] = 0
    BY BudgetAssumption DEF BudgetOK
  <1> QED BY <1>1, <1>2, SumOfZeros DEF Since

LEMMA SinceType ==
  ASSUME NEW weights \in [0..MaxRateTime -> Nat], NEW a \in 0..MaxRateTime
  PROVE  Since(weights, a) \in Nat
  <1>1. IsFiniteSet(a..MaxRateTime)
    BY BudgetAssumption, FS_Interval
  <1>2. \A t \in a..MaxRateTime : weights[t] \in Nat
    BY BudgetAssumption
  <1> QED BY <1>1, <1>2, SumOfNaturals DEF Since

\* A window that is over: what a span before it still holds fits one limit.
LEMMA WindowRestarts ==
  ASSUME NEW k, NEW b, NEW weights, NEW now, NEW again, BudgetOK(k, b, weights, now, again),
         now - b.started >= Interval
  PROVE  BudgetOK(k, [used |-> 0, started |-> now], weights, now, again)
  <1> DEFINE fresh == [used |-> 0, started |-> now]
  <1>1. /\ now \in 0..MaxRateTime /\ b.started \in 0..MaxRateTime /\ b.used \in 0..Limit
        /\ weights \in [0..MaxRateTime -> Nat]
        /\ MaxRateTime \in Nat /\ Limit \in Nat /\ Interval \in Nat
    BY BudgetAssumption DEF BudgetOK
  <1>2. fresh \in [used : 0..Limit, started : 0..MaxRateTime] /\ fresh.used = 0 /\ fresh.started = now
    BY <1>1
  <1> HIDE DEF fresh
  <1>3. ASSUME NEW a \in 0..MaxRateTime PROVE GrantedSince(k, fresh, weights, again, a)
    <2>1. CASE a > now
      BY <1>1, <1>2, <2>1, NothingSince DEF GrantedSince
    <2>2. CASE a <= now /\ now - a < Interval
      <3>1. a > b.started
        BY <1>1, <2>2
      <3>2. Since(weights, a) <= b.used /\ Since(weights, a) \in Nat
        BY <1>1, <3>1, SinceType DEF BudgetOK, GrantedSince
      <3> DEFINE n == Renewals(k, again, a, now)
      <3>3. n \in Nat
        BY <1>1, RenewalsGrow
      <3> HIDE DEF n
      <3>4. Limit <= (1 + n) * Limit /\ (1 + n) * Limit \in Nat
        BY <1>1, <3>3
      <3>5. Since(weights, a) <= (1 + n) * Limit
        BY <1>1, <3>2, <3>4
      <3> QED BY <1>1, <1>2, <2>2, <3>4, <3>5 DEF GrantedSince, n
    <2>3. CASE a <= now /\ ~(now - a < Interval)
      BY <1>2, <1>1, <2>3 DEF GrantedSince
    <2> QED BY <1>1, <2>1, <2>2, <2>3
  <1> QED BY <1>1, <1>2, <1>3 DEF BudgetOK, fresh

\* A budget that is configured again: its window so far becomes one limit more, which
\* the new renewal pays for.
LEMMA BudgetRenewed ==
  ASSUME NEW k, NEW b, NEW weights, NEW now, NEW again, BudgetOK(k, b, weights, now, again),
         <<k, now>> \notin again
  PROVE  BudgetOK(k, [used |-> 0, started |-> now], weights, now, again \cup {<<k, now>>})
  <1> DEFINE fresh == [used |-> 0, started |-> now]
             more == again \cup {<<k, now>>}
  <1>1. /\ now \in 0..MaxRateTime /\ b.started \in 0..now /\ b.used \in 0..Limit
        /\ weights \in [0..MaxRateTime -> Nat]
        /\ MaxRateTime \in Nat /\ Limit \in Nat /\ Interval \in Nat
    BY BudgetAssumption DEF BudgetOK
  <1>2. fresh \in [used : 0..Limit, started : 0..MaxRateTime] /\ fresh.used = 0 /\ fresh.started = now
    BY <1>1
  <1>3. again \subseteq more
    OBVIOUS
  <1> HIDE DEF fresh
  <1>4. ASSUME NEW a \in 0..MaxRateTime PROVE GrantedSince(k, fresh, weights, more, a)
    <2>1. CASE a > now
      <3>1. Since(weights, a) = 0
        BY <2>1, NothingSince
      <3> QED BY <1>1, <1>2, <2>1, <3>1 DEF GrantedSince
    <2>2. CASE a <= now /\ now - a < Interval
      <3> DEFINE n == Renewals(k, again, a, now)
      <3>1. Renewals(k, more, a, now) = n + 1 /\ n \in Nat
        <4>1. Renewals(k, more, a, now) = n + 1
          BY <1>1, <2>2, RenewalsAdd
        <4>2. n \in Nat
          BY <1>1, RenewalsGrow
        <4> QED BY <4>1, <4>2
      <3>2. Since(weights, a) \in Nat
        BY <1>1, SinceType
      <3>3. Since(weights, a) <= Limit + (1 + n) * Limit
        <4>1. CASE a > b.started
          <5>1. Since(weights, a) <= b.used
            BY <4>1 DEF BudgetOK, GrantedSince
          <5>2. (1 + n) * Limit \in Nat
            BY <1>1, <3>1
          <5> QED BY <1>1, <3>2, <5>1, <5>2
        <4>2. CASE a <= b.started
          <5> DEFINE m == Renewals(k, again, a, b.started)
          <5>1. m \in Nat /\ m <= n
            BY <1>1, RenewalsGrow
          <5>2. Since(weights, a) <= b.used + (1 + m) * Limit
            BY <1>1, <2>2, <4>2 DEF BudgetOK, GrantedSince
          <5> HIDE DEF m, n
          <5>3. (1 + m) * Limit <= (1 + n) * Limit /\ (1 + m) * Limit \in Nat /\ (1 + n) * Limit \in Nat
            BY <1>1, <3>1, <5>1, LimitsGrow
          <5> QED BY <1>1, <3>2, <5>2, <5>3
        <4> QED BY <1>1, <4>1, <4>2
      <3> HIDE DEF n
      <3>4. Limit + (1 + n) * Limit = (1 + (n + 1)) * Limit /\ (1 + (n + 1)) * Limit \in Nat
        BY <1>1, <3>1
      <3> QED BY <1>2, <2>2, <3>1, <3>2, <3>3, <3>4 DEF GrantedSince
    <2>3. CASE a <= now /\ ~(now - a < Interval)
      BY <1>2, <1>1, <2>3 DEF GrantedSince
    <2> QED BY <1>1, <2>1, <2>2, <2>3
  <1>5. ASSUME NEW a \in 0..MaxRateTime PROVE SpanHolds(k, weights, more, a)
    <2> DEFINE m == Renewals(k, again, a, a + Interval - 1)
               n == Renewals(k, more, a, a + Interval - 1)
               sum == SumFunctionOnSet(weights, (a..(a + Interval - 1)) \cap 0..MaxRateTime)
    <2>1. m \in Nat /\ n \in Nat /\ m <= n
      BY <1>1, <1>3, RenewalsGrow
    <2>2. sum <= (2 + m) * Limit
      BY DEF BudgetOK, SpanHolds
    <2>3. sum \in Int
      <3> DEFINE T == (a..(a + Interval - 1)) \cap 0..MaxRateTime
      <3>1. IsFiniteSet(0..MaxRateTime) /\ T \in SUBSET (0..MaxRateTime)
        BY <1>1, FS_Interval
      <3> HIDE DEF T
      <3>2. IsFiniteSet(T)
        BY <3>1, FS_Subset
      <3>3. \A t \in T : weights[t] \in Int
        BY <1>1, <3>1
      <3> QED BY <3>2, <3>3, SumOfSome DEF T
    <2> HIDE DEF m, n, sum
    <2>4. (2 + m) * Limit <= (2 + n) * Limit /\ (2 + m) * Limit \in Nat /\ (2 + n) * Limit \in Nat
      BY <1>1, <2>1, LimitsGrow
    <2>5. sum <= (2 + n) * Limit
      BY <2>2, <2>3, <2>4
    <2> QED BY <2>5 DEF SpanHolds, n, sum
  <1> HIDE DEF more
  <1>6. BudgetOK(k, fresh, weights, now, more)
    BY <1>1, <1>2, <1>4, <1>5 DEF BudgetOK
  <1> QED BY <1>6 DEF fresh, more

\* A weight that is granted: a span that holds now began in the window, or before it and
\* less than an interval ago.
LEMMA WeightGranted ==
  ASSUME NEW k, NEW b, NEW weights, NEW now, NEW again, BudgetOK(k, b, weights, now, again),
         now - b.started < Interval, NEW w \in Nat, b.used + w <= Limit
  PROVE  BudgetOK(k, [b EXCEPT !.used = @ + w], [weights EXCEPT ![now] = @ + w], now, again)
  <1> DEFINE c == [b EXCEPT !.used = @ + w]
             heavier == [weights EXCEPT ![now] = @ + w]
  <1>1. /\ now \in 0..MaxRateTime /\ b.started \in 0..now /\ b.used \in 0..Limit
        /\ b \in [used : 0..Limit, started : 0..MaxRateTime]
        /\ weights \in [0..MaxRateTime -> Nat]
        /\ MaxRateTime \in Nat /\ Limit \in Nat /\ Interval \in Nat /\ Interval > 0
    BY BudgetAssumption DEF BudgetOK
  <1>2. /\ c \in [used : 0..Limit, started : 0..MaxRateTime]
        /\ c.used = b.used + w /\ c.started = b.started
    BY <1>1
  <1>3. /\ heavier \in [0..MaxRateTime -> Nat] /\ heavier[now] = weights[now] + w
        /\ \A t \in 0..MaxRateTime : t # now => heavier[t] = weights[t]
    BY <1>1
  <1> HIDE DEF c, heavier
  <1>9. b.used \in Nat /\ c.used \in Nat /\ c.used <= Limit /\ c.used = b.used + w
    BY <1>1, <1>2
  <1>4. ASSUME NEW a \in 0..MaxRateTime
        PROVE  /\ Since(weights, a) \in Nat /\ Since(heavier, a) \in Nat
               /\ Since(heavier, a) <= Since(weights, a) + w
    <2> DEFINE T == a..MaxRateTime
    <2>1. T \in SUBSET (0..MaxRateTime)
      BY <1>1
    <2>2. IsFiniteSet(T)
      BY <1>1, FS_Interval
    <2> HIDE DEF T
    <2>3. /\ \A t \in T : weights[t] \in Int
          /\ \A t \in T \ {now} : heavier[t] = weights[t]
          /\ now \in T => heavier[now] = weights[now] + w
          /\ w \in Int
      BY <1>1, <1>3, <2>1
    <2>4. \/ SumFunctionOnSet(heavier, T) = SumFunctionOnSet(weights, T) + w
          \/ SumFunctionOnSet(heavier, T) = SumFunctionOnSet(weights, T)
      BY <2>2, <2>3, SumChanged
    <2>5. Since(weights, a) \in Nat /\ Since(heavier, a) \in Nat
      BY <1>1, <1>3, SinceType
    <2> QED BY <2>4, <2>5 DEF Since, T
  <1>5. ASSUME NEW a \in 0..MaxRateTime PROVE GrantedSince(k, c, heavier, again, a)
    <2>0. Since(weights, a) \in Nat /\ Since(heavier, a) \in Nat
          /\ Since(heavier, a) <= Since(weights, a) + w
      BY <1>4
    <2>1. CASE a > b.started
      <3>1. Since(weights, a) <= b.used
        BY <2>1 DEF BudgetOK, GrantedSince
      <3>2. Since(heavier, a) <= c.used
        BY <1>1, <1>2, <2>0, <3>1
      <3> QED BY <1>1, <1>2, <2>1, <3>2 DEF GrantedSince
    <2>2. CASE a <= b.started /\ b.started - a < Interval
      <3> DEFINE n == (1 + Renewals(k, again, a, b.started)) * Limit
      <3>1. Since(weights, a) <= b.used + n
        BY <2>2 DEF BudgetOK, GrantedSince
      <3>2. n \in Nat
        <4>1. Renewals(k, again, a, b.started) \in Nat
          BY <1>1, RenewalsGrow
        <4> QED BY <1>1, <4>1
      <3> HIDE DEF n
      <3>3. Since(heavier, a) <= c.used + n
        BY <1>9, <2>0, <3>1, <3>2
      <3> QED BY <1>1, <1>2, <2>2, <3>3 DEF GrantedSince, n
    <2>3. CASE a <= b.started /\ ~(b.started - a < Interval)
      BY <1>1, <1>2, <2>3 DEF GrantedSince
    <2> QED BY <1>1, <2>1, <2>2, <2>3
  <1>6. ASSUME NEW a \in 0..MaxRateTime PROVE SpanHolds(k, heavier, again, a)
    <2> DEFINE T == (a..(a + Interval - 1)) \cap 0..MaxRateTime
               U == a..MaxRateTime
               n == Renewals(k, again, a, a + Interval - 1)
    <2>0. Since(heavier, a) \in Nat /\ GrantedSince(k, c, heavier, again, a)
      BY <1>4, <1>5
    <2>1. U \in SUBSET (0..MaxRateTime) /\ T \in SUBSET U /\ (now \in T <=> a <= now /\ now - a < Interval)
      BY <1>1
    <2>2. IsFiniteSet(U)
      BY <1>1, FS_Interval
    <2>3. n \in Nat
      BY <1>1, RenewalsGrow
    <2> HIDE DEF T, U
    <2>4. IsFiniteSet(T)
      BY <2>1, <2>2, FS_Subset
    <2>5. CASE now \notin T
      <3>1. \A t \in T : weights[t] \in Int /\ heavier[t] = weights[t]
        BY <1>1, <1>3, <2>1, <2>5
      <3>2. SumFunctionOnSet(heavier, T) = SumFunctionOnSet(weights, T)
        BY <2>4, <3>1, SumAgrees
      <3>3. SpanHolds(k, weights, again, a)
        BY DEF BudgetOK
      <3> QED BY <3>2, <3>3 DEF SpanHolds, T
    <2>6. CASE now \in T
      <3>1. SumFunctionOnSet(heavier, T) <= Since(heavier, a)
        <4>1. \A t \in U : heavier[t] \in Nat
          BY <1>3, <2>1
        <4> QED BY <2>1, <2>2, <4>1, SumOfPart DEF Since, U
      <3>2. SumFunctionOnSet(heavier, T) \in Int
        <4>1. \A t \in T : heavier[t] \in Int
          BY <1>3, <2>1
        <4> QED BY <2>4, <4>1, SumOfSome
      <3>3. Since(heavier, a) <= (2 + n) * Limit
        <4>1. CASE a > b.started
          <5>1. Since(heavier, a) <= Limit
            BY <1>1, <1>2, <2>0, <4>1 DEF GrantedSince
          <5> HIDE DEF n
          <5>2. Limit <= (2 + n) * Limit /\ (2 + n) * Limit \in Nat
            BY <1>1, <2>3
          <5> QED BY <1>1, <2>0, <5>1, <5>2
        <4>2. CASE a <= b.started
          <5> DEFINE m == Renewals(k, again, a, b.started)
          <5>1. b.started - a < Interval /\ b.started <= a + Interval - 1
            BY <1>1, <2>1, <2>6
          <5>2. m \in Nat /\ m <= n
            BY <1>1, <5>1, RenewalsGrow
          <5>3. Since(heavier, a) <= c.used + (1 + m) * Limit
            BY <1>2, <2>0, <4>2, <5>1 DEF GrantedSince
          <5> HIDE DEF m, n
          <5>4. (1 + m) * Limit <= (1 + n) * Limit /\ (1 + m) * Limit \in Nat /\ (1 + n) * Limit \in Nat
            BY <1>1, <2>3, <5>2, LimitsGrow
          <5>5. Limit + (1 + n) * Limit = (2 + n) * Limit
            BY <1>1, <2>3
          <5> DEFINE x == (1 + m) * Limit
                     y == (1 + n) * Limit
                     z == (2 + n) * Limit
          <5>6. x <= y /\ x \in Nat /\ y \in Nat /\ Limit + y = z /\ Since(heavier, a) <= c.used + x
            BY <5>3, <5>4, <5>5
          <5> HIDE DEF x, y, z
          <5>7. Since(heavier, a) <= z
            <6>1. Since(heavier, a) \in Nat /\ Limit \in Nat /\ c.used \in Nat /\ c.used <= Limit
              BY <1>1, <1>9, <2>0
            <6> QED BY <5>6, <6>1
          <5> QED BY <5>7 DEF z
        <4> QED BY <1>1, <4>1, <4>2
      <3>4. (2 + n) * Limit \in Nat
        <4> HIDE DEF n
        <4> QED BY <1>1, <2>3
      <3>5. SumFunctionOnSet(heavier, T) <= (2 + n) * Limit
        <4> HIDE DEF n
        <4> QED BY <2>0, <3>1, <3>2, <3>3, <3>4
      <3> QED BY <3>5 DEF SpanHolds, T
    <2> QED BY <2>5, <2>6
  <1>7. \A t \in now+1..MaxRateTime : heavier[t] = 0
    BY <1>1, <1>3 DEF BudgetOK
  <1>8. BudgetOK(k, c, heavier, now, again)
    BY <1>1, <1>2, <1>3, <1>5, <1>6, <1>7 DEF BudgetOK
  <1> QED BY <1>8 DEF c, heavier

RateInv ==
  /\ rateNow \in 0..MaxRateTime
  /\ DOMAIN budgets \in {BudgetKeys, {"primary"}} /\ budgets = [k \in DOMAIN budgets |-> budgets[k]]
  /\ spent \in [BudgetKeys -> [0..MaxRateTime -> Nat]]
  /\ \A k \in DOMAIN budgets : BudgetOK(k, budgets[k], spent[k], rateNow, renewed)

\* allow finds a budget whose window holds now, and leaves it so.
LEMMA WindowOK ==
  ASSUME RateInv, NEW k \in DOMAIN budgets
  PROVE  /\ BudgetOK(k, Window(k), spent[k], rateNow, renewed)
         /\ rateNow - Window(k).started < Interval
  <1>1. /\ BudgetOK(k, budgets[k], spent[k], rateNow, renewed)
        /\ rateNow \in Nat /\ Interval \in Nat /\ Interval > 0
        /\ budgets[k].started \in Nat
    BY BudgetAssumption DEF RateInv, BudgetOK
  <1>2. CASE rateNow - budgets[k].started >= Interval
    <2>1. Window(k) = [used |-> 0, started |-> rateNow]
      BY <1>2 DEF Window
    <2>2. Window(k).started = rateNow
      BY <2>1
    <2> QED BY <1>1, <1>2, <2>1, <2>2, WindowRestarts
  <1>3. CASE ~(rateNow - budgets[k].started >= Interval)
    BY <1>1, <1>3 DEF Window
  <1> QED BY <1>2, <1>3

LEMMA AfterOK ==
  ASSUME RateInv, NEW k \in DOMAIN budgets, NEW w \in Weights, NEW p \in {"normal", "low"}
  PROVE  /\ Granted(k, w, p) => BudgetOK(k, After(k, w, p), Charged(k, w)[k], rateNow, renewed)
         /\ ~Granted(k, w, p) => BudgetOK(k, After(k, w, p), spent[k], rateNow, renewed)
         /\ Charged(k, w) \in [BudgetKeys -> [0..MaxRateTime -> Nat]]
         /\ \A j \in BudgetKeys \ {k} : Charged(k, w)[j] = spent[j]
  <1> DEFINE b == Window(k)
  <1>1. BudgetOK(k, b, spent[k], rateNow, renewed) /\ rateNow - b.started < Interval
    BY WindowOK
  <1>2. /\ k \in BudgetKeys /\ w \in Nat /\ spent \in [BudgetKeys -> [0..MaxRateTime -> Nat]]
        /\ rateNow \in 0..MaxRateTime /\ b.used \in Nat
    <2>1. k \in BudgetKeys /\ spent \in [BudgetKeys -> [0..MaxRateTime -> Nat]]
          /\ rateNow \in 0..MaxRateTime
      BY DEF RateInv, BudgetKeys
    <2>2. w \in Nat
      BY BudgetAssumption
    <2> HIDE DEF b
    <2>3. b.used \in Nat
      BY <1>1, BudgetAssumption DEF BudgetOK
    <2> QED BY <2>1, <2>2, <2>3
  <1>3. /\ Charged(k, w)[k] = [spent[k] EXCEPT ![rateNow] = @ + w]
        /\ Charged(k, w) \in [BudgetKeys -> [0..MaxRateTime -> Nat]]
        /\ \A j \in BudgetKeys \ {k} : Charged(k, w)[j] = spent[j]
    <2>1. spent[k] \in [0..MaxRateTime -> Nat] /\ spent[k][rateNow] \in Nat
      BY <1>2
    <2> DEFINE heavier == [spent[k] EXCEPT ![rateNow] = spent[k][rateNow] + w]
    <2>2. heavier \in [0..MaxRateTime -> Nat]
      BY <1>2, <2>1
    <2>3. Charged(k, w) = [spent EXCEPT ![k] = heavier]
      BY DEF Charged
    <2> QED BY <1>2, <2>2, <2>3
  <1>4. ASSUME Granted(k, w, p)
        PROVE  BudgetOK(k, After(k, w, p), Charged(k, w)[k], rateNow, renewed)
    <2>1. After(k, w, p) = [b EXCEPT !.used = @ + w]
      BY <1>4 DEF After
    <2>2. b.used + w <= Limit
      BY <1>2, <1>4, BudgetAssumption DEF Granted
    <2> HIDE DEF b
    <2>3. BudgetOK(k, [b EXCEPT !.used = @ + w], [spent[k] EXCEPT ![rateNow] = @ + w], rateNow, renewed)
      BY <1>1, <1>2, <2>2, WeightGranted
    <2> QED BY <1>3, <2>1, <2>3
  <1>5. ASSUME ~Granted(k, w, p) PROVE BudgetOK(k, After(k, w, p), spent[k], rateNow, renewed)
    BY <1>1, <1>5 DEF After
  <1> QED BY <1>3, <1>4, <1>5

LEMMA RateNextInv == RateInv /\ [RateNext]_rateVars => RateInv'
  <1> SUFFICES ASSUME RateInv, [RateNext]_rateVars PROVE RateInv'
    OBVIOUS
  <1>0. "primary" \in DOMAIN budgets /\ DOMAIN budgets \subseteq BudgetKeys
    BY DEF RateInv, BudgetKeys
  <1>1. CASE RateTick
    <2>1. rateNow < MaxRateTime /\ rateNow' = rateNow + 1 /\ UNCHANGED <<budgets, spent, renewed>>
      BY <1>1 DEF RateTick
    <2>2. rateNow' \in 0..MaxRateTime /\ rateNow \in Nat /\ MaxRateTime \in Nat
      BY <2>1, BudgetAssumption DEF RateInv
    <2>3. ASSUME NEW k \in DOMAIN budgets
          PROVE  BudgetOK(k, budgets[k], spent[k], rateNow', renewed)
      <3>1. BudgetOK(k, budgets[k], spent[k], rateNow, renewed)
        BY DEF RateInv
      <3>2. budgets[k].started <= rateNow' /\ \A t \in rateNow'+1..MaxRateTime : spent[k][t] = 0
        BY <2>1, <2>2, <3>1 DEF BudgetOK
      <3> QED BY <2>2, <3>1, <3>2 DEF BudgetOK
    <2> QED BY <2>1, <2>2, <2>3 DEF RateInv
  <1>2. ASSUME NEW k \in DOMAIN budgets, Configure(k) PROVE RateInv'
    <2> DEFINE fresh == [used |-> 0, started |-> rateNow]
    <2>1. /\ <<k, rateNow>> \notin renewed /\ budgets' = [budgets EXCEPT ![k] = fresh]
          /\ renewed' = renewed \cup {<<k, rateNow>>} /\ UNCHANGED <<rateNow, spent>>
      BY <1>2 DEF Configure
    <2>2. BudgetOK(k, fresh, spent[k], rateNow, renewed')
      BY <2>1, BudgetRenewed DEF RateInv
    <2>3. ASSUME NEW j \in DOMAIN budgets, j # k
          PROVE  BudgetOK(j, budgets[j], spent[j], rateNow, renewed')
      <3>1. BudgetOK(j, budgets[j], spent[j], rateNow, renewed)
        BY DEF RateInv
      <3>2. \A a, b : Renewals(j, renewed', a, b) = Renewals(j, renewed, a, b)
        <4> TAKE a, b
        <4>1. \A u \in a..b : <<j, u>> \in renewed' <=> <<j, u>> \in renewed
          BY <2>1, <2>3
        <4>2. {u \in a..b : <<j, u>> \in renewed'} = {u \in a..b : <<j, u>> \in renewed}
          BY <4>1
        <4> QED BY <4>2 DEF Renewals
      <3> QED BY <3>1, <3>2 DEF BudgetOK, GrantedSince, SpanHolds
    <2> HIDE DEF fresh
    <2>4. DOMAIN budgets' = DOMAIN budgets /\ budgets' = [j \in DOMAIN budgets' |-> budgets'[j]]
          /\ budgets'[k] = fresh /\ \A j \in DOMAIN budgets : j # k => budgets'[j] = budgets[j]
      BY <2>1 DEF RateInv
    <2>5. \A j \in DOMAIN budgets' : BudgetOK(j, budgets'[j], spent'[j], rateNow', renewed')
      BY <2>1, <2>2, <2>3, <2>4
    <2> QED BY <2>1, <2>4, <2>5 DEF RateInv
  <1>3. ASSUME NEW w \in Weights, NEW p \in {"normal", "low"}, Allow(w, p) PROVE RateInv'
    <2>1. /\ budgets' = [budgets EXCEPT !["primary"] = After("primary", w, p)]
          /\ spent' = IF Granted("primary", w, p) THEN Charged("primary", w) ELSE spent
          /\ UNCHANGED <<rateNow, renewed>>
      BY <1>3 DEF Allow
    <2>2. /\ DOMAIN budgets' = DOMAIN budgets /\ budgets' = [j \in DOMAIN budgets' |-> budgets'[j]]
          /\ budgets'["primary"] = After("primary", w, p)
          /\ \A j \in DOMAIN budgets : j # "primary" => budgets'[j] = budgets[j]
      BY <1>0, <2>1 DEF RateInv
    <2>3. /\ BudgetOK("primary", budgets'["primary"], spent'["primary"], rateNow, renewed)
          /\ spent' \in [BudgetKeys -> [0..MaxRateTime -> Nat]]
          /\ \A j \in BudgetKeys \ {"primary"} : spent'[j] = spent[j]
      BY <1>0, <2>1, <2>2, AfterOK DEF RateInv
    <2>4. \A j \in DOMAIN budgets' : BudgetOK(j, budgets'[j], spent'[j], rateNow', renewed')
      BY <1>0, <2>1, <2>2, <2>3 DEF RateInv
    <2> QED BY <2>1, <2>2, <2>3, <2>4 DEF RateInv
  <1>4. ASSUME NEW w \in Weights, AllowWithFallback(w) PROVE RateInv'
    <2> DEFINE refused == ~Granted("primary", w, "normal")
               second == refused /\ "fallback" \in DOMAIN budgets
    <2>1. /\ budgets' = [k \in DOMAIN budgets |->
                           IF k = "primary" \/ second THEN After(k, w, "normal") ELSE budgets[k]]
          /\ spent' = IF ~refused THEN Charged("primary", w)
                      ELSE IF second /\ Granted("fallback", w, "normal")
                           THEN Charged("fallback", w) ELSE spent
          /\ UNCHANGED <<rateNow, renewed>>
      BY <1>4 DEF AllowWithFallback
    <2>2. DOMAIN budgets' = DOMAIN budgets /\ budgets' = [j \in DOMAIN budgets' |-> budgets'[j]]
      BY <2>1
    <2>3. spent' \in [BudgetKeys -> [0..MaxRateTime -> Nat]]
      BY <1>0, <2>1, AfterOK DEF RateInv
    <2>4. BudgetOK("primary", budgets'["primary"], spent'["primary"], rateNow, renewed)
      <3>1. budgets'["primary"] = After("primary", w, "normal")
        BY <1>0, <2>1
      <3>2. CASE ~refused
        BY <1>0, <2>1, <3>1, <3>2, AfterOK
      <3>3. CASE refused
        <4>1. spent'["primary"] = spent["primary"]
          <5>1. "primary" \in BudgetKeys \ {"fallback"}
            BY DEF BudgetKeys
          <5> QED BY <2>1, <3>3, <5>1, AfterOK
        <4> QED BY <1>0, <3>1, <3>3, <4>1, AfterOK
      <3> QED BY <3>2, <3>3
    <2>5. ASSUME "fallback" \in DOMAIN budgets
          PROVE  BudgetOK("fallback", budgets'["fallback"], spent'["fallback"], rateNow, renewed)
      <3>1. CASE ~refused
        <4>1. budgets'["fallback"] = budgets["fallback"] /\ spent' = Charged("primary", w)
          BY <2>1, <2>5, <3>1
        <4>2. spent'["fallback"] = spent["fallback"]
          <5>1. "fallback" \in BudgetKeys \ {"primary"}
            BY DEF BudgetKeys
          <5> QED BY <1>0, <4>1, <5>1, AfterOK
        <4> QED BY <2>5, <4>1, <4>2 DEF RateInv
      <3>2. CASE refused
        <4>1. budgets'["fallback"] = After("fallback", w, "normal")
          BY <2>1, <2>5, <3>2
        <4>2. spent' = IF Granted("fallback", w, "normal") THEN Charged("fallback", w) ELSE spent
          BY <2>1, <2>5, <3>2
        <4> QED BY <2>5, <4>1, <4>2, AfterOK
      <3> QED BY <3>1, <3>2
    <2>6. \A j \in DOMAIN budgets' : BudgetOK(j, budgets'[j], spent'[j], rateNow', renewed')
      BY <1>0, <2>1, <2>2, <2>4, <2>5 DEF BudgetKeys
    <2> QED BY <2>1, <2>2, <2>3, <2>6 DEF RateInv
  <1>5. CASE UNCHANGED rateVars
    BY <1>5 DEF rateVars, RateInv
  <1> QED BY <1>1, <1>2, <1>3, <1>4, <1>5 DEF RateNext

LEMMA RateInitInv == RateInit => RateInv
  <1> SUFFICES ASSUME RateInit PROVE RateInv
    OBVIOUS
  <1> DEFINE none == [t \in 0..MaxRateTime |-> 0]
             first == [used |-> 0, started |-> 0]
  <1>1. PICK K \in {BudgetKeys, {"primary"}} : budgets = [k \in K |-> first]
    BY DEF RateInit
  <1>2. /\ DOMAIN budgets = K /\ budgets = [k \in DOMAIN budgets |-> budgets[k]]
        /\ \A k \in DOMAIN budgets : budgets[k] = first
    BY <1>1
  <1>3. /\ rateNow = 0 /\ renewed = {} /\ spent = [k \in BudgetKeys |-> none]
        /\ MaxRateTime \in Nat /\ Limit \in Nat /\ Interval \in Nat
    BY BudgetAssumption DEF RateInit
  <1>4. /\ first \in [used : 0..Limit, started : 0..MaxRateTime] /\ first.used = 0 /\ first.started = 0
        /\ none \in [0..MaxRateTime -> Nat] /\ \A t \in 0..MaxRateTime : none[t] = 0
    BY <1>3
  <1> HIDE DEF none, first
  <1>5. ASSUME NEW T \in SUBSET (0..MaxRateTime) PROVE SumFunctionOnSet(none, T) = 0
    <2>1. IsFiniteSet(T)
      <3>1. IsFiniteSet(0..MaxRateTime)
        BY <1>3, FS_Interval
      <3> QED BY <3>1, FS_Subset
    <2> QED BY <1>4, <2>1, SumOfZeros
  <1>6. ASSUME NEW k, NEW a \in 0..MaxRateTime
        PROVE  GrantedSince(k, first, none, {}, a) /\ SpanHolds(k, none, {}, a)
    <2>1. Since(none, a) = 0
      <3>1. a..MaxRateTime \in SUBSET (0..MaxRateTime)
        OBVIOUS
      <3> QED BY <1>5, <3>1 DEF Since
    <2>2. SumFunctionOnSet(none, (a..(a + Interval - 1)) \cap 0..MaxRateTime) = 0
      <3>1. (a..(a + Interval - 1)) \cap 0..MaxRateTime \in SUBSET (0..MaxRateTime)
        OBVIOUS
      <3> QED BY <1>5, <3>1
    <2> DEFINE m == Renewals(k, {}, a, 0)
               n == Renewals(k, {}, a, a + Interval - 1)
    <2>3. m \in Nat
      BY <1>3, RenewalsGrow
    <2>4. n \in Nat
      BY <1>3, RenewalsGrow
    <2> HIDE DEF m, n
    <2>5. (1 + m) * Limit \in Nat /\ (2 + n) * Limit \in Nat
      BY <1>3, <2>3, <2>4
    <2> QED BY <1>4, <2>1, <2>2, <2>5 DEF GrantedSince, SpanHolds, m, n
  <1>7. \A k : BudgetOK(k, first, none, 0, {})
    BY <1>3, <1>4, <1>6 DEF BudgetOK
  <1>8. spent \in [BudgetKeys -> [0..MaxRateTime -> Nat]] /\ \A k \in DOMAIN budgets : spent[k] = none
    BY <1>1, <1>2, <1>3, <1>4 DEF BudgetKeys
  <1> QED BY <1>1, <1>2, <1>3, <1>7, <1>8 DEF RateInv

\* RateLimitBudget: for any limit, interval and weights, wherever the windows fall and whenever
\* a budget is configured again, a span of one interval sees at most two limits and one more
\* for each configuration in it.
THEOREM SpansStayWithinTwiceLimit == RateSpec => []SpanWithinTwiceLimit
  <1>1. RateInv => SpanWithinTwiceLimit
    <2> SUFFICES ASSUME RateInv, NEW k \in DOMAIN budgets, NEW t \in 0..MaxRateTime
                 PROVE  SpanHolds(k, spent[k], renewed, t)
      BY DEF SpanWithinTwiceLimit, SpanHolds, Renewals
    <2> QED BY DEF RateInv, BudgetOK
  <1> QED BY <1>1, RateInitInv, RateNextInv, PTL DEF RateSpec
-----------------------------------------------------------------------------
(* The capital reservations.                                               *)

\* What a row counts for.
Counts(row) == IF row.state = "active" THEN row.amount ELSE 0

\* A row that changes changes what is used by the difference of what it counts for.
LEMMA UsedChanges ==
  ASSUME rows \in [Intents -> Rows], NEW i \in Intents, NEW row \in Rows,
         rows' = [rows EXCEPT ![i] = row]
  PROVE  /\ rows' \in [Intents -> Rows] /\ Used \in Nat /\ Used' \in Nat
         /\ Counts(rows[i]) \in Nat /\ Counts(row) \in Nat
         /\ Used' + Counts(rows[i]) = Used + Counts(row)
  <1> DEFINE f == [k \in Intents |-> rows[k].amount]
             g == [k \in Intents |-> rows'[k].amount]
             R == Active \ {i}
             total == SumFunctionOnSet(f, R)
  <1>1. /\ rows' \in [Intents -> Rows] /\ rows'[i] = row
        /\ \A k \in Intents \ {i} : rows'[k] = rows[k]
    OBVIOUS
  <1>2. \A r \in Rows : r.amount \in Nat /\ r.state \in States
    <2>1. \A x \in Amounts \cup {0} : x \in Nat
      BY CapitalAssumption
    <2> QED BY <2>1 DEF Rows
  <1>3. \A k \in Intents : f[k] \in Nat /\ g[k] \in Nat /\ f[k] = rows[k].amount /\ g[k] = rows'[k].amount
    BY <1>1, <1>2
  <1>4. /\ Active \in SUBSET Intents /\ Active' \in SUBSET Intents /\ R \in SUBSET Intents
        /\ i \notin R
        /\ Active = IF rows[i].state = "active" THEN R \cup {i} ELSE R
        /\ Active' = IF row.state = "active" THEN R \cup {i} ELSE R
    BY <1>1 DEF Active
  <1>5. Used = SumFunctionOnSet(f, Active) /\ Used' = SumFunctionOnSet(g, Active')
    BY DEF Used
  <1>6. IsFiniteSet(R)
    BY <1>4, FS_Subset, CapitalAssumption
  <1> HIDE DEF f, g, R
  <1>7. SumFunctionOnSet(g, R) = total
    <2>1. \A k \in R : f[k] \in Int /\ g[k] = f[k]
      BY <1>1, <1>3, <1>4
    <2> QED BY <1>6, <2>1, SumAgrees
  <1>8. total \in Nat
    <2>1. \A k \in R : f[k] \in Nat
      BY <1>3, <1>4
    <2> QED BY <1>6, <2>1, SumOfNaturals
  <1>9. \A k \in R : f[k] \in Int /\ g[k] \in Int
    BY <1>3, <1>4
  <1>10. SumFunctionOnSet(f, R \cup {i}) = total + f[i]
    <2>1. f[i] \in Int
      BY <1>3
    <2> QED BY <1>4, <1>6, <1>9, <2>1, SumAdd
  <1>11. SumFunctionOnSet(g, R \cup {i}) = total + g[i]
    <2>1. g[i] \in Int
      BY <1>3
    <2>2. SumFunctionOnSet(g, R \cup {i}) = SumFunctionOnSet(g, R) + g[i]
      BY <1>4, <1>6, <1>9, <2>1, SumAdd
    <2> QED BY <1>7, <2>2
  <1> HIDE DEF total
  <1>12. Counts(rows[i]) \in Nat /\ Used = total + Counts(rows[i])
    <2>1. CASE rows[i].state = "active"
      BY <1>3, <1>4, <1>5, <1>10, <2>1 DEF Counts
    <2>2. CASE rows[i].state # "active"
      BY <1>4, <1>5, <1>8, <2>2 DEF Counts, total
    <2> QED BY <2>1, <2>2
  <1>13. Counts(row) \in Nat /\ Used' = total + Counts(row)
    <2>1. CASE row.state = "active"
      BY <1>1, <1>3, <1>4, <1>5, <1>11, <2>1 DEF Counts
    <2>2. CASE row.state # "active"
      BY <1>4, <1>5, <1>7, <1>8, <2>2 DEF Counts
    <2> QED BY <2>1, <2>2
  <1> QED BY <1>1, <1>8, <1>12, <1>13

\* The most a row may count for once the reserve j of its intent is through: the amount the row
\* has by then if j leaves it alone, the amount of j if that is written.
Peak(row, j) ==
  IF j.seen.amount = j.amount THEN row.amount
  ELSE IF j.amount <= Counts(row) THEN Counts(row) ELSE j.amount

\* With `used` promised, the reserve j of that row ends within e amounts of the balance.
Latest(used, row, j, e) == used + Peak(row, j) <= Available + e * Largest + Counts(row)

\* The row still has the amount that j read.
Fresh(row, j) == row.amount = j.seen.amount

Pending == {p \in Processes : job[p].summed}
Others == Cardinality(Processes \ Pending)
RowOf(p) == rows[job[p].intent]

\* Every process between its check and its commit may add one amount; the one that checked
\* last has its own in the balance.
Settled == Used + Largest <= Available + Others * Largest
SettlesWith(p) == p \in Pending /\ Latest(Used, RowOf(p), job[p], Others)

\* While every process is inside reserve nothing is committed: the one that entered last saw
\* its row as it is.
LastIsFresh(p) ==
  Fresh(RowOf(p), job[p]) /\ (job[p].summed => Latest(Used, RowOf(p), job[p], 0))

ReservedInv ==
  /\ CapitalTypeOK /\ Used \in Nat
  /\ \A p \in Processes : job[p] # NoJob => Database /\ job[p].intent \in Intents /\ job[p].amount \in Amounts
  /\ ~Database => Used <= Available
  /\ Database => Settled \/ \E p \in Processes : SettlesWith(p)
  /\ (\A p \in Processes : job[p] # NoJob) => \E p \in Processes : LastIsFresh(p)

\* One amount more or less.
LEMMA OneMore ==
  ASSUME NEW e \in Nat
  PROVE  /\ e * Largest \in Nat /\ (e + 1) * Largest = e * Largest + Largest
         /\ e >= 1 => e * Largest >= Largest
         /\ 0 * Largest = 0
  <1>1. Largest \in Nat
    BY CapitalAssumption
  <1>2. /\ e * Largest \in Nat /\ (e + 1) * Largest = e * Largest + Largest
        /\ 0 * Largest = 0
    BY <1>1
  <1>3. ASSUME e >= 1 PROVE e * Largest >= Largest
    <2>1. PICK d \in Nat : e = d + 1
      <3>1. e - 1 \in Nat /\ e = (e - 1) + 1
        BY <1>3
      <3> QED BY <3>1
    <2>2. d * Largest \in Nat /\ e * Largest = d * Largest + Largest
      BY <1>1, <2>1
    <2> QED BY <1>1, <2>2
  <1> QED BY <1>2, <1>3

LEMMA PeakBounds ==
  ASSUME NEW row \in Rows, NEW j \in Jobs, j.amount \in Amounts
  PROVE  /\ Peak(row, j) \in Nat /\ Counts(row) \in Nat /\ j.amount \in Nat /\ row.amount \in Nat
         /\ Counts(row) <= Peak(row, j) /\ Peak(row, j) <= Largest /\ Largest \in Nat
         /\ Available \in Nat /\ Counts(row) <= row.amount
  <1>1. Largest \in Nat /\ Available \in Nat /\ \A a \in Amounts \cup {0} : a \in Nat /\ a <= Largest
    BY CapitalAssumption
  <1>2. row.amount \in Amounts \cup {0}
    BY DEF Rows
  <1> QED BY <1>1, <1>2 DEF Peak, Counts

\* Who is pending is finite, and so is who is not.
LEMMA OthersCount ==
  ASSUME job \in [Processes -> Jobs]
  PROVE  /\ Others \in Nat /\ Cardinality(Processes) \in Nat /\ Others <= Cardinality(Processes)
         /\ Others = 0 => \A p \in Processes : job[p].summed
         /\ (\E p \in Processes : job[p].summed) => Others + 1 <= Cardinality(Processes)
         /\ \A p, q \in Processes :
              Others = 1 /\ ~job[p].summed /\ p # q => job[q].summed
         /\ Cardinality(Processes) >= 1
  <1> DEFINE S == Processes \ Pending
  <1>1. IsFiniteSet(Processes) /\ Processes # {} /\ IsFiniteSet(S) /\ S \subseteq Processes
    BY CapitalAssumption, FS_Subset
  <1>2. Others \in Nat /\ Cardinality(Processes) \in Nat /\ Others <= Cardinality(Processes)
    BY <1>1, FS_CardinalityType, FS_Subset DEF Others
  <1>3. Cardinality(Processes) >= 1
    <2>1. Cardinality(Processes) # 0
      BY <1>1, FS_EmptySet
    <2> QED BY <1>2, <2>1
  <1>4. ASSUME Others = 0 PROVE \A p \in Processes : job[p].summed
    <2>1. S = {}
      BY <1>1, <1>4, FS_EmptySet DEF Others
    <2> QED BY <2>1 DEF Pending
  <1>5. ASSUME NEW p \in Processes, job[p].summed PROVE Others + 1 <= Cardinality(Processes)
    <2>1. S # Processes
      BY <1>5 DEF Pending
    <2>2. Cardinality(S) # Cardinality(Processes)
      BY <1>1, <2>1, FS_Subset
    <2> QED BY <1>2, <2>2 DEF Others
  <1>6. ASSUME NEW p \in Processes, NEW q \in Processes, Others = 1, ~job[p].summed, p # q
        PROVE  job[q].summed
    <2>1. p \in S
      BY <1>6 DEF Pending
    <2>2. IsFiniteSet(S \ {p}) /\ Cardinality(S \ {p}) = Cardinality(S) - 1
      BY <1>1, <2>1, FS_RemoveElement
    <2>3. Cardinality(S \ {p}) = 0
      BY <1>6, <2>2 DEF Others
    <2>4. S \ {p} = {}
      BY <2>2, <2>3, FS_EmptySet
    <2> QED BY <1>6, <2>4 DEF Pending
  <1> QED BY <1>2, <1>3, <1>4, <1>5, <1>6

\* A process that becomes pending, or stops being so.
LEMMA OthersStep ==
  ASSUME job \in [Processes -> Jobs], NEW p \in Processes, NEW j \in Jobs,
         job' = [job EXCEPT ![p] = j]
  PROVE  /\ job' \in [Processes -> Jobs] /\ job'[p] = j /\ \A q \in Processes \ {p} : job'[q] = job[q]
         /\ (j.summed <=> job[p].summed) => Others' = Others
         /\ j.summed /\ ~job[p].summed => Others = Others' + 1
         /\ ~j.summed /\ job[p].summed => Others' = Others + 1
  <1> DEFINE S == Processes \ Pending
             T == Processes \ Pending'
  <1>1. IsFiniteSet(S) /\ IsFiniteSet(T) /\ Others = Cardinality(S) /\ Others' = Cardinality(T)
    BY CapitalAssumption, FS_Subset DEF Others
  <1>2. job' \in [Processes -> Jobs] /\ job'[p] = j /\ \A q \in Processes \ {p} : job'[q] = job[q]
    OBVIOUS
  <1>3. ASSUME j.summed <=> job[p].summed PROVE Others' = Others
    <2>1. S = T
      BY <1>2, <1>3 DEF Pending
    <2> QED BY <1>1, <2>1
  <1>4. ASSUME j.summed, ~job[p].summed PROVE Others = Others' + 1
    <2>1. S = T \cup {p} /\ p \notin T
      BY <1>2, <1>4 DEF Pending
    <2>2. Cardinality(T \cup {p}) = Cardinality(T) + 1
      BY <1>1, <2>1, FS_AddElement
    <2> QED BY <1>1, <2>1, <2>2
  <1>5. ASSUME ~j.summed, job[p].summed PROVE Others' = Others + 1
    <2>1. T = S \cup {p} /\ p \notin S
      BY <1>2, <1>5 DEF Pending
    <2>2. Cardinality(S \cup {p}) = Cardinality(S) + 1
      BY <1>1, <2>1, FS_AddElement
    <2> QED BY <1>1, <2>1, <2>2
  <1> QED BY <1>2, <1>3, <1>4, <1>5


LEMMA ReservedInitInv == CapitalInit => ReservedInv
  <1> SUFFICES ASSUME CapitalInit PROVE ReservedInv
    OBVIOUS
  <1>1. NoRow \in Rows
    BY DEF NoRow, Rows, States
  <1>2. NoJob \in Jobs /\ ~NoJob.summed
    BY <1>1 DEF NoJob, Jobs
  <1>3. CapitalTypeOK /\ \A p \in Processes : job[p] = NoJob
    BY <1>1, <1>2 DEF CapitalInit, CapitalTypeOK
  <1>4. Active = {}
    BY DEF CapitalInit, Active, NoRow
  <1>5. Used = 0
    BY <1>4, FS_EmptySet, SumOfSome DEF Used
  <1>6. Available \in Nat /\ Largest \in Nat /\ Processes # {}
    BY CapitalAssumption
  <1>7. Settled
    <2>1. Others \in Nat /\ Others >= 1
      <3>1. ~(\A p \in Processes : job[p].summed)
        BY <1>2, <1>3, <1>6
      <3> QED BY <1>3, <3>1, OthersCount DEF CapitalTypeOK
    <2>2. Others * Largest \in Nat /\ Others * Largest >= Largest
      BY <2>1, OneMore
    <2> QED BY <1>5, <1>6, <2>2 DEF Settled
  <1> QED BY <1>3, <1>5, <1>6, <1>7 DEF ReservedInv

\* Nothing of rows and ledger changes, nor of the jobs that are pending.
LEMMA EnterInv ==
  ASSUME ReservedInv, NEW p \in Processes, NEW i \in Intents, NEW amount \in Amounts,
         ReadRow(p, i, amount)
  PROVE  ReservedInv'
  <1> DEFINE j == [intent |-> i, amount |-> amount, seen |-> rows[i], summed |-> FALSE]
  <1>1. /\ Database /\ job[p] = NoJob /\ job' = [job EXCEPT ![p] = j] /\ UNCHANGED <<ledger, rows>>
    BY DEF ReadRow
  <1>2. /\ j \in Jobs /\ ~j.summed /\ j.intent = i /\ j.amount = amount /\ j.seen = rows[i]
        /\ job \in [Processes -> Jobs] /\ ~job[p].summed
    BY <1>1 DEF ReservedInv, CapitalTypeOK, Jobs, NoJob
  <1> HIDE DEF j
  <1>3. /\ job' \in [Processes -> Jobs] /\ job'[p] = j /\ \A q \in Processes \ {p} : job'[q] = job[q]
        /\ Others' = Others
    BY <1>1, <1>2, OthersStep
  <1>4. Used' = Used /\ CapitalTypeOK' /\ (Database' <=> Database)
    BY <1>1, <1>3 DEF ReservedInv, CapitalTypeOK, Used, Active, Database
  <1>5. \A q \in Processes : job'[q] # NoJob => Database' /\ job'[q].intent \in Intents /\ job'[q].amount \in Amounts
    BY <1>1, <1>2, <1>3, <1>4 DEF ReservedInv
  <1>6. Settled' \/ \E q \in Processes : SettlesWith(q)'
    <2>1. CASE Settled
      BY <1>3, <1>4, <2>1 DEF Settled
    <2>2. ASSUME NEW q \in Processes, SettlesWith(q) PROVE SettlesWith(q)'
      <3>1. q # p
        BY <1>2, <2>2 DEF SettlesWith, Pending
      <3> QED BY <1>1, <1>3, <1>4, <2>2, <3>1 DEF SettlesWith, Pending, Latest, Peak, Counts, RowOf
    <2> QED BY <1>1, <2>1, <2>2 DEF ReservedInv
  <1>7. LastIsFresh(p)'
    BY <1>1, <1>2, <1>3 DEF LastIsFresh, Fresh, RowOf
  <1> QED BY <1>1, <1>4, <1>5, <1>6, <1>7 DEF ReservedInv

LEMMA CheckInv ==
  ASSUME ReservedInv, NEW p \in Processes, Check(p)
  PROVE  ReservedInv'
  <1> DEFINE j == IF Fits(job[p].amount) THEN [job[p] EXCEPT !.summed = TRUE] ELSE NoJob
             a == job[p].amount
  <1>0. NoJob \in Jobs /\ ~NoJob.summed
    BY DEF NoJob, Jobs, NoRow, Rows, States
  <1>1. /\ job[p] # NoJob /\ ~job[p].summed /\ job' = [job EXCEPT ![p] = j] /\ UNCHANGED <<ledger, rows>>
        /\ Database /\ job[p].intent \in Intents /\ a \in Amounts
    BY DEF Check, ReservedInv
  <1>2. /\ job \in [Processes -> Jobs] /\ job[p] \in Jobs /\ j \in Jobs /\ rows \in [Intents -> Rows]
    BY <1>0 DEF ReservedInv, CapitalTypeOK, Jobs
  <1>3. /\ job' \in [Processes -> Jobs] /\ job'[p] = j /\ \A q \in Processes \ {p} : job'[q] = job[q]
        /\ ~j.summed => Others' = Others
        /\ j.summed => Others = Others' + 1
    <2> HIDE DEF j
    <2> QED BY <1>1, <1>2, OthersStep
  <1>4. Used' = Used /\ CapitalTypeOK' /\ (Database' <=> Database)
    BY <1>1, <1>3 DEF ReservedInv, CapitalTypeOK, Used, Active, Database
  <1>5. CASE ~Fits(a)
    <2>1. j = NoJob
      BY <1>5
    <2> HIDE DEF j
    <2>2. Settled' \/ \E q \in Processes : SettlesWith(q)'
      <3>1. CASE Settled
        BY <1>0, <1>3, <1>4, <2>1, <3>1 DEF Settled
      <3>2. ASSUME NEW q \in Processes, SettlesWith(q) PROVE SettlesWith(q)'
        <4>1. q # p
          BY <1>1, <3>2 DEF SettlesWith, Pending
        <4> QED BY <1>0, <1>1, <1>3, <1>4, <2>1, <3>2, <4>1 DEF SettlesWith, Pending, Latest, Peak, Counts, RowOf
      <3> QED BY <1>1, <3>1, <3>2 DEF ReservedInv
    <2>3. \A q \in Processes : job'[q] # NoJob => Database' /\ job'[q].intent \in Intents /\ job'[q].amount \in Amounts
      BY <1>1, <1>3, <1>4, <2>1 DEF ReservedInv
    <2>4. job'[p] = NoJob
      BY <1>3, <2>1
    <2> QED BY <1>1, <1>4, <2>2, <2>3, <2>4 DEF ReservedInv
  <1>6. CASE Fits(a)
    <2>1. /\ j.summed /\ j # NoJob /\ j.intent = job[p].intent /\ j.amount = a /\ j.seen = job[p].seen
      BY <1>0, <1>2, <1>6 DEF Jobs
    <2> HIDE DEF j
    <2>2. Used \in Nat /\ Used + a <= Available
      BY <1>6 DEF Fits, ReservedInv
    <2>3. Peak(RowOf(p), j) = Peak(RowOf(p), job[p]) /\ RowOf(p) \in Rows /\ RowOf(p)' = RowOf(p)
      BY <1>1, <1>2, <1>3, <2>1 DEF Peak, RowOf
    <2>4. /\ Peak(RowOf(p), job[p]) \in Nat /\ Counts(RowOf(p)) \in Nat /\ a \in Nat
          /\ Largest \in Nat /\ Available \in Nat /\ a <= Largest
      <3>1. a \in Nat /\ a <= Largest
        <4>1. \A x \in Amounts : x \in Nat /\ x <= Largest
          BY CapitalAssumption
        <4> QED BY <1>1, <4>1
      <3> QED BY <1>1, <1>2, <2>3, <3>1, PeakBounds
    <2>5. Fresh(RowOf(p), job[p]) => LastIsFresh(p)' /\ Latest(Used, RowOf(p), j, 0)
      <3>1. SUFFICES ASSUME Fresh(RowOf(p), job[p]) PROVE LastIsFresh(p)' /\ Latest(Used, RowOf(p), j, 0)
        OBVIOUS
      <3>2. 0 * Largest = 0
        BY OneMore
      <3>3. Used + Peak(RowOf(p), j) <= Available + Counts(RowOf(p))
        BY <2>2, <2>3, <2>4, <3>1 DEF Fresh, Peak
      <3>4. Latest(Used, RowOf(p), j, 0)
        BY <2>4, <3>2, <3>3 DEF Latest
      <3>5. Fresh(RowOf(p), j)
        BY <2>1, <3>1 DEF Fresh
      <3> QED BY <1>3, <1>4, <2>3, <3>4, <3>5 DEF LastIsFresh, Latest, Peak, Counts, Fresh
    <2>6. (\A q \in Processes : job'[q] # NoJob) => \E c \in Processes : LastIsFresh(c)'
      <3> SUFFICES ASSUME \A q \in Processes : job'[q] # NoJob PROVE \E c \in Processes : LastIsFresh(c)'
        OBVIOUS
      <3>1. PICK c \in Processes : LastIsFresh(c)
        BY <1>1, <1>3 DEF ReservedInv
      <3>2. CASE c = p
        BY <2>5, <3>1, <3>2 DEF LastIsFresh
      <3>3. CASE c # p
        BY <1>1, <1>3, <1>4, <3>1, <3>3 DEF LastIsFresh, Latest, Peak, Counts, RowOf, Fresh
      <3> QED BY <3>2, <3>3
    <2>7. Settled' \/ \E q \in Processes : SettlesWith(q)'
      <3>1. Others' \in Nat
        <4>1. IsFiniteSet(Processes \ Pending')
          BY CapitalAssumption, FS_Subset
        <4> QED BY <4>1, FS_CardinalityType DEF Others
      <3>2. CASE Others' >= 1
        <4>1. Others' * Largest \in Nat /\ Others' * Largest >= Largest
          BY <3>1, <3>2, OneMore
        <4> QED BY <1>4, <2>2, <2>4, <4>1 DEF Settled
      <3>3. CASE Others' = 0
        <4>1. Others = 1
          BY <1>3, <2>1, <3>3
        <4>2. \A q \in Processes \ {p} : job[q].summed
          BY <1>1, <1>2, <4>1, OthersCount
        <4>3. \A q \in Processes : job[q] # NoJob
          BY <1>0, <1>1, <4>2
        <4>4. PICK c \in Processes : LastIsFresh(c)
          BY <4>3 DEF ReservedInv
        <4>5. CASE c = p
          <5>1. Latest(Used, RowOf(p), j, Others')
            BY <2>5, <3>3, <4>4, <4>5 DEF LastIsFresh
          <5> QED BY <1>3, <1>4, <2>1, <2>3, <5>1 DEF SettlesWith, Pending, Latest, Peak, Counts
        <4>6. CASE c # p
          <5>1. Latest(Used, RowOf(c), job[c], Others') /\ job[c].summed
            BY <3>3, <4>2, <4>4, <4>6 DEF LastIsFresh
          <5> QED BY <1>1, <1>3, <1>4, <4>6, <5>1 DEF SettlesWith, Pending, Latest, Peak, Counts, RowOf
        <4> QED BY <4>5, <4>6
      <3> QED BY <3>1, <3>2, <3>3
    <2>8. \A q \in Processes : job'[q] # NoJob => Database' /\ job'[q].intent \in Intents /\ job'[q].amount \in Amounts
      BY <1>1, <1>3, <1>4, <2>1 DEF ReservedInv
    <2> QED BY <1>1, <1>4, <2>6, <2>7, <2>8 DEF ReservedInv
  <1> QED BY <1>5, <1>6

\* The largest amount, and the row of a pending reserve.
LEMMA PendingRow ==
  ASSUME ReservedInv, NEW p \in Processes, job[p] # NoJob
  PROVE  /\ job[p] \in Jobs /\ job[p].intent \in Intents /\ job[p].amount \in Amounts
         /\ RowOf(p) \in Rows /\ Database
BY DEF ReservedInv, CapitalTypeOK, RowOf

\* One row's part of the sum goes from c to d, of at most k, in a balance with room r beside it.
LEMMA LessFits ==
  ASSUME NEW u \in Nat, NEW v \in Nat, NEW r \in Nat, v <= u, Largest \in Nat, Available \in Nat,
         u + Largest <= Available + r
  PROVE  v + Largest <= Available + r
OBVIOUS

\* A commit: its row counts for no more than the reserve allowed for.
LEMMA CommitInv ==
  ASSUME ReservedInv, NEW p \in Processes, CommitRow(p)
  PROVE  ReservedInv'
  <1> DEFINE i == job[p].intent
             amount == job[p].amount
             kept == job[p].seen = NoRow /\ rows[i] # NoRow
             row == IF kept THEN rows[i]
                    ELSE IF job[p].seen = NoRow THEN [state |-> "active", amount |-> amount]
                    ELSE Updated(rows[i], job[p].seen, amount)
  <1>0. NoJob \in Jobs /\ ~NoJob.summed
    BY DEF NoJob, Jobs, NoRow, Rows, States
  <1>1. /\ job[p].summed /\ job[p] # NoJob /\ job' = [job EXCEPT ![p] = NoJob] /\ ledger' = ledger
    BY <1>0 DEF CommitRow
  <1>2. /\ job[p] \in Jobs /\ i \in Intents /\ amount \in Amounts /\ rows[i] \in Rows /\ Database
        /\ rows \in [Intents -> Rows] /\ job \in [Processes -> Jobs] /\ Used \in Nat
    BY <1>1, PendingRow DEF ReservedInv, CapitalTypeOK, RowOf
  <1>3. rows' = [rows EXCEPT ![i] = row]
    <2>1. CASE kept
      <3>1. rows' = rows
        BY <2>1 DEF CommitRow
      <3> QED BY <1>2, <2>1, <3>1
    <2>2. CASE ~kept
      BY <2>2 DEF CommitRow
    <2> QED BY <2>1, <2>2
  <1>4. row \in Rows
    BY <1>2 DEF Rows, States, Updated
  <1>5. Counts(row) <= Peak(rows[i], job[p])
    <2>1. /\ amount \in Nat /\ rows[i].amount \in Nat /\ Counts(rows[i]) \in Nat
          /\ Counts(rows[i]) <= Peak(rows[i], job[p])
      BY <1>2, PeakBounds
    <2>2. CASE kept
      BY <2>1, <2>2
    <2>3. CASE ~kept /\ job[p].seen = NoRow
      <3>1. job[p].seen.amount = 0 /\ amount # 0
        BY <1>2, <2>3, CapitalAssumption DEF NoRow
      <3>2. row = [state |-> "active", amount |-> amount]
        BY <2>3
      <3>3. Counts(row) = amount
        BY <3>2 DEF Counts
      <3> QED BY <2>1, <3>1, <3>3 DEF Peak
    <2>4. CASE ~kept /\ job[p].seen # NoRow
      <3>1. row = Updated(rows[i], job[p].seen, amount)
        BY <2>4
      <3>2. row.amount = IF job[p].seen.amount = amount THEN rows[i].amount ELSE amount
        BY <3>1 DEF Updated
      <3>3. Counts(row) = 0 \/ Counts(row) = row.amount
        BY DEF Counts
      <3> HIDE DEF row
      <3> QED BY <2>1, <3>2, <3>3 DEF Peak
    <2> QED BY <2>2, <2>3, <2>4
  <1> HIDE DEF row, kept
  <1>6. /\ job' \in [Processes -> Jobs] /\ job'[p] = NoJob /\ \A q \in Processes \ {p} : job'[q] = job[q]
        /\ Others' = Others + 1
    BY <1>0, <1>1, <1>2, OthersStep
  <1>7. /\ Used' \in Nat /\ Used' + Counts(rows[i]) = Used + Counts(row) /\ rows' \in [Intents -> Rows]
        /\ rows'[i] = row /\ \A k \in Intents \ {i} : rows'[k] = rows[k]
    BY <1>2, <1>3, <1>4, UsedChanges
  <1>8. CapitalTypeOK' /\ (Database' <=> Database)
    BY <1>1, <1>6, <1>7 DEF ReservedInv, CapitalTypeOK, Database
  <1>9. /\ Peak(rows[i], job[p]) <= Largest /\ Counts(rows[i]) \in Nat /\ Counts(row) \in Nat
        /\ Peak(rows[i], job[p]) \in Nat /\ Largest \in Nat /\ Available \in Nat
    BY <1>2, <1>3, <1>4, PeakBounds, UsedChanges
  <1> DEFINE room == Others * Largest
  <1>10. Others \in Nat /\ room \in Nat /\ Others' * Largest = room + Largest
    <2>1. Others \in Nat
      BY <1>2, OthersCount
    <2> QED BY <1>6, <2>1, OneMore
  <1> DEFINE was == Counts(rows[i])
             new == Counts(row)
             peak == Peak(rows[i], job[p])
  <1> HIDE DEF i, room
  <1>11. PICK used \in Nat : used = Used'
    BY <1>7
  <1>12. /\ Used \in Nat /\ was \in Nat /\ new \in Nat /\ peak \in Nat
         /\ room \in Nat /\ Largest \in Nat /\ Available \in Nat
         /\ used + was = Used + new /\ new <= peak /\ peak <= Largest
    BY <1>2, <1>5, <1>7, <1>9, <1>10, <1>11
  <1> HIDE DEF was, new, peak
  <1>13. Settled' \/ \E q \in Processes : SettlesWith(q)'
    <2>1. ASSUME Used + Largest <= Available + room \/ Used + peak <= Available + room + was
          PROVE  Settled'
      <3>1. used + Largest <= Available + (room + Largest)
        BY <1>12, <2>1
      <3> QED BY <1>10, <1>11, <3>1 DEF Settled
    <2>2. CASE Settled \/ SettlesWith(p)
      <3>1. Used + Largest <= Available + room \/ Used + peak <= Available + room + was
        BY <2>2 DEF Settled, SettlesWith, Latest, RowOf, i, room, was, peak
      <3> QED BY <2>1, <3>1
    <2>3. ASSUME NEW q \in Processes \ {p}, SettlesWith(q) PROVE SettlesWith(q)'
      <3> DEFINE k == job[q].intent
      <3>1. /\ job[q].summed /\ job'[q] = job[q]
            /\ Used + Peak(rows[k], job[q]) <= Available + room + Counts(rows[k])
        BY <1>6, <2>3 DEF SettlesWith, Pending, Latest, RowOf, room
      <3>2. job[q] # NoJob
        BY <1>0, <3>1
      <3>3. /\ job[q] \in Jobs /\ k \in Intents /\ job[q].amount \in Amounts /\ rows[k] \in Rows
            /\ rows'[k] \in Rows
        BY <1>7, <2>3, <3>2, PendingRow DEF RowOf
      <3> HIDE DEF k
      <3>4. /\ Peak(rows[k], job[q]) \in Nat /\ Counts(rows[k]) \in Nat
            /\ Peak(rows'[k], job[q]) \in Nat /\ Counts(rows'[k]) \in Nat
            /\ Peak(rows'[k], job[q]) <= Largest /\ Counts(rows[k]) <= Peak(rows[k], job[q])
        BY <3>3, PeakBounds
      <3>5. /\ Peak(rows'[k], job[q]) \in Nat /\ Counts(rows'[k]) \in Nat
            /\ used + Peak(rows'[k], job[q]) <= Available + (room + Largest) + Counts(rows'[k])
        <4>1. PICK top \in Nat : top = Peak(rows'[k], job[q])
          BY <3>4
        <4>2. PICK now \in Nat : now = Counts(rows'[k])
          BY <3>4
        <4>3. top <= Largest
          BY <3>4, <4>1
        <4>4. used + top <= Available + (room + Largest) + now
          <5>1. CASE k = i
            <6>1. now = new /\ Counts(rows[k]) = was
              BY <1>7, <4>2, <5>1 DEF new, was
            <6> QED BY <1>12, <3>1, <3>4, <4>3, <6>1
          <5>2. CASE k # i
            <6>1. now = Counts(rows[k]) /\ top = Peak(rows[k], job[q])
              BY <1>7, <3>3, <4>1, <4>2, <5>2
            <6> QED BY <1>12, <3>1, <6>1
          <5> QED BY <5>1, <5>2
        <4> QED BY <4>1, <4>2, <4>4
      <3>6. Latest(Used', rows'[k], job[q], Others')
        BY <1>10, <1>11, <3>5 DEF Latest
      <3> QED BY <2>3, <3>1, <3>6 DEF SettlesWith, Pending, RowOf, Latest, Peak, Counts, k
    <2> QED BY <1>2, <2>2, <2>3 DEF ReservedInv
  <1>14. \A q \in Processes : job'[q] # NoJob => Database' /\ job'[q].intent \in Intents /\ job'[q].amount \in Amounts
    BY <1>6, <1>8 DEF ReservedInv
  <1> QED BY <1>2, <1>6, <1>7, <1>8, <1>13, <1>14 DEF ReservedInv

\* A release or an expiry: the row keeps its amount or is gone, and stops counting.
LEMMA GivesBackInv ==
  ASSUME ReservedInv, NEW i \in Intents, NEW row \in Rows,
         rows' = [rows EXCEPT ![i] = row], UNCHANGED <<ledger, job>>,
         row.state # "active", Database => row.amount = rows[i].amount
  PROVE  ReservedInv'
  <1>1. /\ rows \in [Intents -> Rows] /\ Available \in Nat /\ Used \in Nat /\ rows[i] \in Rows
        /\ job \in [Processes -> Jobs]
    BY CapitalAssumption DEF ReservedInv, CapitalTypeOK
  <1>2. /\ Used' + Counts(rows[i]) = Used /\ Counts(row) = 0 /\ Counts(rows[i]) \in Nat /\ Used' \in Nat
        /\ rows' \in [Intents -> Rows] /\ rows'[i] = row /\ \A k \in Intents \ {i} : rows'[k] = rows[k]
    <2>1. Used' + Counts(rows[i]) = Used + Counts(row) /\ Counts(row) = 0 /\ Counts(rows[i]) \in Nat
          /\ Used' \in Nat
      BY <1>1, UsedChanges DEF Counts
    <2> QED BY <1>1, <2>1
  <1>3. CapitalTypeOK' /\ (Database' <=> Database) /\ Others' = Others
    BY <1>2 DEF ReservedInv, CapitalTypeOK, Database, Others, Pending
  <1>4. ASSUME NEW q \in Processes, job[q] # NoJob, NEW e \in Nat, Latest(Used, RowOf(q), job[q], e)
        PROVE  Latest(Used', RowOf(q)', job[q], e)
    <2> DEFINE room == e * Largest
               k == job[q].intent
    <2>1. /\ job[q] \in Jobs /\ k \in Intents /\ job[q].amount \in Amounts /\ Database
      BY <1>4, PendingRow
    <2>2. /\ Used + Peak(rows[k], job[q]) <= Available + room + Counts(rows[k])
          /\ RowOf(q) = rows[k] /\ RowOf(q)' = rows'[k]
      BY <1>4 DEF Latest, RowOf
    <2> HIDE DEF k
    <2>3. /\ Peak(rows[k], job[q]) \in Nat /\ Counts(rows[k]) \in Nat /\ job[q].amount \in Nat
          /\ Peak(rows'[k], job[q]) \in Nat /\ Counts(rows'[k]) \in Nat
          /\ Counts(rows[k]) <= Peak(rows[k], job[q])
      BY <1>1, <1>2, <2>1, PeakBounds
    <2>4. room \in Nat
      BY OneMore
    <2>5. Used' + Peak(rows'[k], job[q]) <= Available + room + Counts(rows'[k])
      <3>1. CASE k = i
        <4>1. rows'[k].amount = rows[k].amount /\ Counts(rows'[k]) = 0
          BY <1>2, <2>1, <3>1
        <4>2. Peak(rows'[k], job[q]) <= Peak(rows[k], job[q])
          BY <2>3, <4>1 DEF Peak
        <4>3. Counts(rows[k]) = Counts(rows[i])
          BY <3>1
        <4> HIDE DEF room
        <4> QED BY <1>1, <1>2, <2>2, <2>3, <2>4, <4>1, <4>2, <4>3
      <3>2. CASE k # i
        <4>1. rows'[k] = rows[k]
          BY <1>2, <2>1, <3>2
        <4> HIDE DEF room
        <4> QED BY <1>1, <1>2, <2>2, <2>3, <2>4, <4>1
      <3> QED BY <3>1, <3>2
    <2> QED BY <2>2, <2>5 DEF Latest
  <1>5. ~Database' => Used' <= Available
    BY <1>1, <1>2, <1>3 DEF ReservedInv
  <1>6. Database' => Settled' \/ \E q \in Processes : SettlesWith(q)'
    <2> SUFFICES ASSUME Database' PROVE Settled' \/ \E q \in Processes : SettlesWith(q)'
      OBVIOUS
    <2>0. Others \in Nat /\ Others * Largest \in Nat /\ Largest \in Nat
      BY <1>1, OthersCount, OneMore, CapitalAssumption
    <2>1. CASE Settled
      <3> DEFINE room == Others * Largest
      <3>1. Used + Largest <= Available + room /\ room \in Nat
        BY <2>0, <2>1 DEF Settled
      <3>2. Used' <= Used /\ Used \in Nat /\ Used' \in Nat
        BY <1>1, <1>2
      <3>3. Used' + Largest <= Available + room
        <4>1. Available \in Nat /\ Largest \in Nat /\ room \in Nat
          BY <1>1, <2>0
        <4> HIDE DEF room
        <4> QED BY <3>1, <3>2, <4>1, LessFits
      <3> QED BY <1>3, <3>3 DEF Settled
    <2>2. ASSUME NEW q \in Processes, SettlesWith(q) PROVE SettlesWith(q)'
      <3>1. job[q].summed /\ job[q] # NoJob /\ Latest(Used, RowOf(q), job[q], Others)
        BY <2>2 DEF SettlesWith, Pending, NoJob
      <3>2. Latest(Used', RowOf(q)', job[q], Others)
        BY <1>4, <2>0, <3>1
      <3> QED BY <1>3, <2>2, <3>2 DEF SettlesWith, Pending, Latest, Peak, Counts
    <2> QED BY <1>3, <2>1, <2>2 DEF ReservedInv
  <1>7. (\A p \in Processes : job'[p] # NoJob) => \E p \in Processes : LastIsFresh(p)'
    <2> SUFFICES ASSUME \A p \in Processes : job[p] # NoJob PROVE \E p \in Processes : LastIsFresh(p)'
      OBVIOUS
    <2>1. PICK p \in Processes : LastIsFresh(p)
      BY DEF ReservedInv
    <2>2. job[p].intent \in Intents /\ Database
      BY PendingRow
    <2>3. Fresh(RowOf(p)', job[p])
      BY <1>2, <2>1, <2>2 DEF LastIsFresh, Fresh, RowOf
    <2>4. job[p].summed => Latest(Used', RowOf(p)', job[p], 0)
      BY <1>4, <2>1 DEF LastIsFresh
    <2> QED BY <2>3, <2>4 DEF LastIsFresh, Fresh, Latest, Peak, Counts
  <1> QED BY <1>2, <1>3, <1>5, <1>6, <1>7 DEF ReservedInv

LEMMA ReservedNextInv == ReservedInv /\ [CapitalNext]_capitalVars => ReservedInv'
  <1> SUFFICES ASSUME ReservedInv, [CapitalNext]_capitalVars PROVE ReservedInv'
    OBVIOUS
  <1>0. rows \in [Intents -> Rows] /\ CapitalTypeOK /\ NoRow \in Rows
    BY DEF ReservedInv, CapitalTypeOK, NoRow, Rows, States
  <1>1. ASSUME NEW i \in Intents, NEW amount \in Amounts, ReserveLocked(i, amount) PROVE ReservedInv'
    <2> DEFINE row == [state |-> "active", amount |-> amount]
    <2>1. /\ ~Database /\ rows[i].state # "active" /\ Used + amount <= Available
          /\ rows' = [rows EXCEPT ![i] = row] /\ UNCHANGED <<ledger, job>>
      BY <1>1 DEF ReserveLocked, Fits
    <2>2. row \in Rows /\ Counts(row) = amount
      BY DEF Rows, States, Counts
    <2> HIDE DEF row
    <2>3. /\ Used' \in Nat /\ rows' \in [Intents -> Rows] /\ Used' + Counts(rows[i]) = Used + Counts(row)
          /\ Counts(rows[i]) = 0
      BY <1>0, <2>1, <2>2, UsedChanges DEF Counts
    <2>4. Used' = Used + amount
      BY <2>2, <2>3, CapitalAssumption DEF ReservedInv
    <2>5. Processes # {} /\ \A p \in Processes : job[p] = NoJob
      BY <2>1, CapitalAssumption DEF ReservedInv
    <2>6. CapitalTypeOK' /\ ~Database'
      BY <1>0, <2>1, <2>3 DEF CapitalTypeOK, Database
    <2> QED BY <2>1, <2>3, <2>4, <2>5, <2>6 DEF ReservedInv
  <1>2. ASSUME NEW i \in Intents, NEW amount \in Amounts, NEW p \in Processes, ReadRow(p, i, amount)
        PROVE  ReservedInv'
    BY <1>2, EnterInv
  <1>3. ASSUME NEW p \in Processes, Check(p) \/ CommitRow(p) PROVE ReservedInv'
    BY <1>3, CheckInv, CommitInv
  <1>4. ASSUME NEW i \in Intents, Release(i) \/ Expire(i) PROVE ReservedInv'
    <2> DEFINE state == IF Release(i) THEN "released" ELSE "expired"
               row == IF Database THEN [rows[i] EXCEPT !.state = state] ELSE NoRow
    <2>1. rows' = [rows EXCEPT ![i] = row] /\ UNCHANGED <<ledger, job>>
      BY <1>4 DEF Release, Expire
    <2>2. row \in Rows /\ row.state # "active" /\ (Database => row.amount = rows[i].amount)
      BY <1>0 DEF Rows, States, NoRow
    <2> HIDE DEF row
    <2> QED BY <2>1, <2>2, GivesBackInv
  <1>5. CASE UNCHANGED capitalVars
    BY <1>5 DEF capitalVars, ReservedInv, CapitalTypeOK, Used, Active, Database, Settled, SettlesWith,
                LastIsFresh, Latest, Fresh, Peak, Counts, RowOf, Others, Pending
  <1> QED BY <1>1, <1>2, <1>3, <1>4, <1>5 DEF CapitalNext

\* What the invariant says of the sum of the reservations.
LEMMA ReservedIsBounded == ReservedInv => CapitalInv
  <1> SUFFICES ASSUME ReservedInv PROVE CapitalInv
    OBVIOUS
  <1> DEFINE n == Cardinality(Processes)
             room == Others * Largest
  <1>1. /\ job \in [Processes -> Jobs] /\ Used \in Nat /\ Available \in Nat /\ Largest \in Nat
    BY CapitalAssumption DEF ReservedInv, CapitalTypeOK
  <1>2. /\ Others \in Nat /\ n \in Nat /\ Others <= n /\ n >= 1
        /\ (\E p \in Processes : job[p].summed) => Others + 1 <= n
    BY <1>1, OthersCount
  <1>3. \A d, e \in Nat : d <= e => d * Largest <= e * Largest /\ d * Largest \in Nat
    BY <1>1
  <1>4. n - 1 \in Nat /\ room \in Nat /\ n * Largest = (n - 1) * Largest + Largest
    <2>1. n - 1 \in Nat /\ n = (n - 1) + 1
      BY <1>2
    <2> HIDE DEF n
    <2> QED BY <1>2, <2>1, OneMore
  <1>5. CASE ~Database
    <2>1. Unseen = 0 /\ 0 * Largest = 0
      BY <1>5, OneMore DEF Unseen
    <2> QED BY <1>1, <1>5, <2>1 DEF ReservedInv, CapitalInv, OvercommitIsBounded
  <1>6. CASE Database
    <2>1. Used <= Available + (n - 1) * Largest
      <3>1. CASE Settled
        <4>1. Used + Largest <= Available + room /\ room <= n * Largest
          BY <1>2, <1>3, <3>1 DEF Settled
        <4>2. (n - 1) * Largest \in Nat
          BY <1>3, <1>4
        <4> HIDE DEF room, n
        <4> QED BY <1>1, <1>4, <4>1, <4>2
      <3>2. ASSUME NEW p \in Processes, SettlesWith(p) PROVE Used <= Available + (n - 1) * Largest
        <4>1. /\ job[p].summed /\ job[p] # NoJob
              /\ Used + Peak(RowOf(p), job[p]) <= Available + room + Counts(RowOf(p))
          BY <3>2 DEF SettlesWith, Pending, Latest, NoJob
        <4>2. /\ Peak(RowOf(p), job[p]) \in Nat /\ Counts(RowOf(p)) \in Nat
              /\ Counts(RowOf(p)) <= Peak(RowOf(p), job[p])
          BY <4>1, PendingRow, PeakBounds
        <4>3. Others <= n - 1
          BY <1>2, <4>1
        <4>4. room <= (n - 1) * Largest /\ (n - 1) * Largest \in Nat
          BY <1>2, <1>3, <1>4, <4>3
        <4> HIDE DEF room, n
        <4> QED BY <1>1, <1>4, <4>1, <4>2, <4>4
      <3> QED BY <1>6, <3>1, <3>2 DEF ReservedInv
    <2>2. Unseen = n - 1
      BY <1>6 DEF Unseen
    <2> QED BY <2>1, <2>2 DEF ReservedInv, CapitalInv, OvercommitIsBounded
  <1> QED BY <1>5, <1>6

\* CapitalReservations and DatabaseCapitalReservations: whatever reads, checks, commits,
\* releases and expiries overlap, and however many processes reserve, what is promised beyond
\* the free balance is at most one amount for every process but one; the locked ledger promises
\* no more than the balance.
THEOREM OvercommitStaysBounded == CapitalSpec => []CapitalInv
  <1> QED BY ReservedInitInv, ReservedNextInv, ReservedIsBounded, PTL DEF CapitalSpec

\* The promise of the ledgers as they are documented: with one process, or the locked ledger,
\* capital is never overcommitted.
THEOREM CapitalIsNeverOvercommitted ==
  ASSUME "database" \in Ledgers => \A p, q \in Processes : p = q
  PROVE  CapitalSpec => []NoOvercommit
  <1>1. CapitalInv => NoOvercommit
    <2> SUFFICES ASSUME CapitalInv PROVE NoOvercommit
      OBVIOUS
    <2>1. Unseen = 0
      <3>1. CASE Database
        <4>1. PICK p \in Processes : Processes = {p}
          BY <3>1, CapitalAssumption DEF CapitalInv, CapitalTypeOK, Database
        <4>2. Cardinality(Processes) = 1
          BY <4>1, FS_Singleton
        <4> QED BY <3>1, <4>2 DEF Unseen
      <3> QED BY <3>1 DEF Unseen
    <2>2. Unseen * Largest = 0 /\ Available \in Nat
      BY <2>1, OneMore, CapitalAssumption
    <2> QED BY <2>2 DEF CapitalInv, OvercommitIsBounded, NoOvercommit
  <1> QED BY <1>1, OvercommitStaysBounded, PTL

-----------------------------------------------------------------------------
(* The paper broker.                                                       *)

LEMMA MinOfTwo ==
  ASSUME NEW a \in Int, NEW b \in Int
  PROVE  Min({a, b}) = IF a <= b THEN a ELSE b
  <1>1. \E x \in {a, b} : \A y \in {a, b} : x <= y
    OBVIOUS
  <1>2. Min({a, b}) \in {a, b} /\ \A y \in {a, b} : Min({a, b}) <= y
    BY <1>1 DEF Min
  <1> QED BY <1>2

Positions == [qty : Nat, remaining : Int, closed : BOOLEAN, triggered : SUBSET (0..2)]
Share(position) == (position.qty * 3) \div 10

\* The first n levels of the ladder were sold: two shares, and the third takes the rest.
Climbed(position, n) ==
  /\ position \in Positions /\ position.qty > 0 /\ position.qty % 10 = 0
  /\ position.triggered = 0..(n - 1)
  /\ position.remaining = IF n = 3 THEN 0 ELSE position.qty - n * Share(position)

LEMMA ShareIsLess ==
  ASSUME NEW position \in Positions, position.qty > 0, position.qty % 10 = 0
  PROVE  Share(position) \in Nat /\ 0 < Share(position) /\ 2 * Share(position) < position.qty
         /\ Share(position) < position.qty
  <1> DEFINE q == position.qty
  <1>1. q \in Nat /\ q > 0 /\ q % 10 = 0
    BY DEF Positions
  <1> HIDE DEF q
  <1>2. PICK m \in Int : q = 10 * m
    <2>1. q = 10 * (q \div 10) + (q % 10) /\ q \div 10 \in Int
      BY <1>1
    <2> QED BY <1>1, <2>1
  <1>3. (q * 3) \div 10 = 3 * m /\ m > 0
    BY <1>1, <1>2
  <1> QED BY <1>1, <1>2, <1>3 DEF Share, q

\* One level: sold if it is the next and the price is there.
LEMMA TakeProfitClimbs ==
  ASSUME NEW position, NEW n \in 0..3, Climbed(position, n), NEW index \in 0..2, NEW band \in 0..4,
         n >= index \/ band < n + 2
  PROVE  \E m \in 0..3 : /\ Climbed(TakeProfit(position, index, band), m)
                         /\ m >= index + 1 \/ band < m + 2
  <1> DEFINE s == Share(position)
             after == TakeProfit(position, index, band)
  <1>1. position \in Positions /\ s \in Nat /\ 0 < s /\ 2 * s < position.qty /\ s < position.qty
        /\ position.qty \in Nat
    BY ShareIsLess DEF Climbed, Positions
  <1>2. CASE index \in position.triggered \/ band < index + 2 \/ position.remaining <= 0
    <2>1. after = position
      BY <1>2 DEF TakeProfit
    <2>2. n >= index + 1 \/ band < n + 2
      <3>1. CASE index \in position.triggered
        BY <3>1 DEF Climbed
      <3>2. CASE band < index + 2
        BY <3>2
      <3>3. CASE position.remaining <= 0
        <4>1. n = 3
          <5>1. n \in 0..2 => position.remaining > 0
            BY <1>1 DEF Climbed
          <5> QED BY <1>1, <3>3, <5>1 DEF Positions
        <4> QED BY <4>1
      <3> QED BY <1>2, <3>1, <3>2, <3>3
    <2> QED BY <2>1, <2>2
  <1>3. CASE ~(index \in position.triggered \/ band < index + 2 \/ position.remaining <= 0)
    <2>1. n = index
      BY <1>3 DEF Climbed
    <2> DEFINE sold == LadderQty(position, index)
    <2>2. after = [[position EXCEPT !.remaining = @ - sold] EXCEPT !.triggered = @ \cup {index}]
      BY <1>3 DEF TakeProfit, CloseQty
    <2>3. sold = IF index = 2 THEN position.remaining ELSE s
      <3>1. position.remaining = position.qty - index * s /\ position.remaining \in Int
        BY <1>1, <2>1 DEF Climbed, Positions
      <3>2. CASE index = 2
        <4>1. sold = Min({position.remaining, position.remaining})
          BY <3>2 DEF LadderQty
        <4> QED BY <3>1, <3>2, <4>1, MinOfTwo
      <3>3. CASE index # 2
        <4>1. sold = Min({position.remaining, s})
          BY <3>3 DEF LadderQty, Share
        <4>2. s <= position.remaining
          BY <1>1, <3>1, <3>3
        <4> QED BY <1>1, <3>1, <3>3, <4>1, <4>2, MinOfTwo
      <3> QED BY <3>2, <3>3
    <2> HIDE DEF sold
    <2>4. position.remaining \in Int /\ sold \in Int
      BY <1>1, <2>3 DEF Positions
    <2>5. /\ after \in Positions /\ after.qty = position.qty
          /\ after.remaining = position.remaining - sold
          /\ after.triggered = position.triggered \cup {index}
      <3> DEFINE mid == [position EXCEPT !.remaining = position.remaining - sold]
      <3>1. /\ mid \in Positions /\ mid.qty = position.qty
            /\ mid.remaining = position.remaining - sold /\ mid.triggered = position.triggered
        BY <1>1, <2>4 DEF Positions
      <3>2. after = [mid EXCEPT !.triggered = mid.triggered \cup {index}]
        BY <2>2
      <3> HIDE DEF mid, after
      <3> QED BY <3>1, <3>2 DEF Positions
    <2> HIDE DEF after
    <2>6. after.triggered = 0..(index + 1 - 1)
      BY <2>1, <2>5 DEF Climbed
    <2>7. Share(after) = s
      BY <2>5 DEF Share
    <2>8. after.remaining = IF index + 1 = 3 THEN 0 ELSE after.qty - (index + 1) * Share(after)
      BY <1>1, <2>1, <2>3, <2>4, <2>5, <2>7 DEF Climbed
    <2>9. Climbed(after, index + 1)
      BY <2>5, <2>6, <2>8 DEF Climbed
    <2> QED BY <2>9 DEF after
  <1> QED BY <1>2, <1>3

\* The loop of on_quote is its three turns.
LEMMA LadderIsThreeTurns ==
  ASSUME NEW position, NEW band
  PROVE  Ladder(position, band) =
           TakeProfit(TakeProfit(TakeProfit(position, 0, band), 1, band), 2, band)
  <1> DEFINE Turns(f) == f = [k \in 0..3 |-> IF k = 0 THEN position ELSE TakeProfit(f[k - 1], k - 1, band)]
             one == TakeProfit(position, 0, band)
             two == TakeProfit(one, 1, band)
             three == TakeProfit(two, 2, band)
             g == [k \in 0..3 |-> IF k = 0 THEN position ELSE IF k = 1 THEN one
                                  ELSE IF k = 2 THEN two ELSE three]
  <1>1. Turns(g)
    <2>1. ASSUME NEW k \in 0..3
          PROVE  g[k] = IF k = 0 THEN position ELSE TakeProfit(g[k - 1], k - 1, band)
      <3>1. k \in {0, 1, 2, 3}
        OBVIOUS
      <3>2. g[0] = position /\ g[1] = one /\ g[2] = two /\ g[3] = three
        OBVIOUS
      <3> HIDE DEF g, one, two, three
      <3>3. CASE k = 0
        BY <3>2, <3>3
      <3>4. CASE k = 1
        BY <3>2, <3>4 DEF one
      <3>5. CASE k = 2
        BY <3>2, <3>5 DEF two
      <3>6. CASE k = 3
        BY <3>2, <3>6 DEF three
      <3> QED BY <3>1, <3>3, <3>4, <3>5, <3>6
    <2> QED BY <2>1
  <1>2. PICK f : f = (CHOOSE h : Turns(h)) /\ Turns(f)
    BY <1>1
  <1>3. Ladder(position, band) = f[3]
    BY <1>2 DEF Ladder
  <1>4. f[0] = position /\ f[1] = TakeProfit(f[0], 0, band) /\ f[2] = TakeProfit(f[1], 1, band)
        /\ f[3] = TakeProfit(f[2], 2, band)
    BY <1>2
  <1> QED BY <1>3, <1>4

LEMMA LadderClimbs ==
  ASSUME NEW position, NEW n \in 0..3, Climbed(position, n), NEW band \in 0..4
  PROVE  \E m \in 0..3 : Climbed(Ladder(position, band), m)
  <1> DEFINE one == TakeProfit(position, 0, band)
             two == TakeProfit(one, 1, band)
             three == TakeProfit(two, 2, band)
  <1>1. PICK a \in 0..3 : Climbed(one, a) /\ (a >= 1 \/ band < a + 2)
    <2>1. 0 \in 0..2 /\ (n >= 0 \/ band < n + 2)
      OBVIOUS
    <2>2. \E m \in 0..3 : Climbed(one, m) /\ (m >= 0 + 1 \/ band < m + 2)
      BY <2>1, TakeProfitClimbs
    <2> QED BY <2>2
  <1> HIDE DEF one
  <1>2. PICK b \in 0..3 : Climbed(two, b) /\ (b >= 2 \/ band < b + 2)
    <2>1. \E m \in 0..3 : Climbed(two, m) /\ (m >= 1 + 1 \/ band < m + 2)
      BY <1>1, TakeProfitClimbs
    <2> QED BY <2>1
  <1> HIDE DEF two
  <1>3. \E m \in 0..3 : Climbed(three, m)
    BY <1>2, TakeProfitClimbs
  <1> QED BY <1>3, LadderIsThreeTurns DEF one, two, three

PaperOK(position, fills) ==
  /\ position \in Positions /\ fills \in [buy : Int, sell : Int]
  /\ fills.buy - fills.sell = position.remaining
  /\ position.closed => position.remaining = 0
  /\ ~position.closed => \E n \in 0..2 : Climbed(position, n)

PaperInv ==
  /\ positions \in [PaperSymbols -> Positions]
  /\ paperFills \in [PaperSymbols -> [buy : Int, sell : Int]]
  /\ \A s \in PaperSymbols : PaperOK(positions[s], paperFills[s])

\* A step replaces one position and its fills.
LEMMA OnePaperSymbol ==
  ASSUME PaperInv, NEW s \in PaperSymbols, NEW position, NEW fills, PaperOK(position, fills),
         positions' = [positions EXCEPT ![s] = position],
         paperFills' = [paperFills EXCEPT ![s] = fills]
  PROVE  PaperInv'
  <1>1. position \in Positions /\ fills \in [buy : Int, sell : Int]
    BY DEF PaperOK
  <1>2. /\ positions' \in [PaperSymbols -> Positions]
        /\ paperFills' \in [PaperSymbols -> [buy : Int, sell : Int]]
    BY <1>1 DEF PaperInv
  <1>3. ASSUME NEW r \in PaperSymbols PROVE PaperOK(positions'[r], paperFills'[r])
    BY DEF PaperInv
  <1> QED BY <1>2, <1>3 DEF PaperInv

LEMMA PaperNextInv == PaperInv /\ [PaperNext]_paperVars => PaperInv'
  <1> SUFFICES ASSUME PaperInv, [PaperNext]_paperVars PROVE PaperInv'
    OBVIOUS
  <1>1. ASSUME NEW s \in PaperSymbols, NEW qty \in PaperQuantities, NEW available \in PaperQuantities,
               OpenLong(s, qty, available)
        PROVE  PaperInv'
    <2> DEFINE actual == Min({qty, available})
               opened == [qty |-> actual, remaining |-> actual, closed |-> FALSE, triggered |-> {}]
               fills == [paperFills[s] EXCEPT !.buy = @ + actual]
    <2>1. /\ positions[s].closed /\ positions' = [positions EXCEPT ![s] = opened]
          /\ paperFills' = [paperFills EXCEPT ![s] = fills]
      BY <1>1 DEF OpenLong
    <2>2. actual \in PaperQuantities
      <3>1. qty \in Int /\ available \in Int
        BY PaperAssumption
      <3> QED BY <3>1, MinOfTwo
    <2> HIDE DEF actual
    <2>3. actual \in Nat /\ actual > 0 /\ actual % 10 = 0
      BY <2>2, PaperAssumption
    <2>4. opened \in Positions /\ opened.qty = actual /\ opened.remaining = actual
          /\ opened.triggered = {} /\ ~opened.closed
      BY <2>3 DEF Positions
    <2>5. paperFills[s] \in [buy : Int, sell : Int] /\ paperFills[s].buy - paperFills[s].sell = 0
      BY <2>1 DEF PaperInv, PaperOK
    <2>6. fills \in [buy : Int, sell : Int] /\ fills.buy = paperFills[s].buy + actual
          /\ fills.sell = paperFills[s].sell
      BY <2>3, <2>5
    <2> HIDE DEF opened, fills
    <2>7. fills.buy - fills.sell = opened.remaining
      BY <2>3, <2>4, <2>5, <2>6
    <2>8. Climbed(opened, 0)
      <3>1. Share(opened) \in Int
        BY <2>3, <2>4 DEF Share
      <3> QED BY <2>3, <2>4, <3>1 DEF Climbed
    <2>9. PaperOK(opened, fills)
      BY <2>4, <2>6, <2>7, <2>8 DEF PaperOK
    <2> QED BY <2>1, <2>9, OnePaperSymbol
  <1>2. ASSUME NEW s \in PaperSymbols, NEW band \in 0..4, OnQuote(s, band) PROVE PaperInv'
    <2> DEFINE before == positions[s]
               climbed == Ladder(before, band)
               after == IF band = 0 THEN StopOut(before)
                        ELSE [climbed EXCEPT !.closed = (climbed.remaining <= 0)]
               fills == [paperFills[s] EXCEPT !.sell = @ + before.remaining - after.remaining]
    <2>1. /\ ~before.closed /\ positions' = [positions EXCEPT ![s] = after]
          /\ paperFills' = [paperFills EXCEPT ![s] = fills]
      BY <1>2 DEF OnQuote
    <2>2. /\ before \in Positions /\ paperFills[s] \in [buy : Int, sell : Int]
          /\ paperFills[s].buy - paperFills[s].sell = before.remaining
      BY DEF PaperInv, PaperOK
    <2>3. PICK n \in 0..2 : Climbed(before, n)
      BY <2>1 DEF PaperInv, PaperOK
    <2> HIDE DEF before
    <2>4. /\ after \in Positions
          /\ after.closed => after.remaining = 0
          /\ ~after.closed => \E m \in 0..2 : Climbed(after, m)
      <3>1. CASE band = 0
        <4>1. after = [[before EXCEPT !.remaining = before.remaining - before.remaining]
                         EXCEPT !.closed = TRUE]
          BY <3>1 DEF StopOut, CloseQty
        <4>2. before.remaining \in Int /\ before.remaining - before.remaining = 0
          BY <2>2 DEF Positions
        <4>3. after = [[before EXCEPT !.remaining = 0] EXCEPT !.closed = TRUE]
          BY <4>1, <4>2
        <4> HIDE DEF after
        <4> DEFINE mid == [before EXCEPT !.remaining = 0]
        <4>4. mid \in Positions /\ mid.remaining = 0
          BY <2>2 DEF Positions
        <4>5. after = [mid EXCEPT !.closed = TRUE]
          BY <4>3
        <4> HIDE DEF mid
        <4>6. after \in Positions /\ after.closed = TRUE /\ after.remaining = 0
          BY <4>4, <4>5 DEF Positions
        <4> QED BY <4>6
      <3>2. CASE band # 0
        <4>1. PICK m \in 0..3 : Climbed(climbed, m)
          BY <2>3, LadderClimbs
        <4> HIDE DEF climbed
        <4>2. after = [climbed EXCEPT !.closed = (climbed.remaining <= 0)]
          BY <3>2
        <4> HIDE DEF after
        <4>3. climbed \in Positions /\ (climbed.remaining <= 0) \in BOOLEAN /\ climbed.remaining \in Int
          BY <4>1 DEF Climbed, Positions
        <4>4. /\ after \in Positions /\ after.closed = (climbed.remaining <= 0)
              /\ after.qty = climbed.qty /\ after.remaining = climbed.remaining
              /\ after.triggered = climbed.triggered
          BY <4>2, <4>3 DEF Positions
        <4>5. Climbed(after, m)
          BY <4>1, <4>4 DEF Climbed, Share
        <4>6. m = 3 => after.remaining = 0
          BY <4>5 DEF Climbed
        <4>7. m # 3 => after.remaining > 0
          <5>1. Share(after) \in Nat /\ 2 * Share(after) < after.qty /\ Share(after) < after.qty
                /\ after.qty \in Nat /\ after.qty > 0
            BY <4>4, <4>5, ShareIsLess DEF Climbed, Positions
          <5> QED BY <4>5, <5>1 DEF Climbed
        <4>8. climbed.remaining <= 0 <=> m = 3
          BY <4>3, <4>4, <4>6, <4>7
        <4>9. after.closed <=> m = 3
          BY <4>4, <4>8, Zenon
        <4>10. after.closed => after.remaining = 0
          BY <4>6, <4>9
        <4>11. ~after.closed => m \in 0..2
          BY <4>9
        <4> QED BY <4>4, <4>5, <4>10, <4>11
      <3> QED BY <3>1, <3>2
    <2> HIDE DEF after
    <2>5. before.remaining \in Int /\ after.remaining \in Int
      BY <2>2, <2>4 DEF Positions
    <2>6. fills \in [buy : Int, sell : Int] /\ fills.buy = paperFills[s].buy
          /\ fills.sell = paperFills[s].sell + before.remaining - after.remaining
      BY <2>2, <2>5
    <2> HIDE DEF fills
    <2>7. fills.buy - fills.sell = after.remaining
      BY <2>2, <2>5, <2>6
    <2>8. PaperOK(after, fills)
      BY <2>4, <2>6, <2>7 DEF PaperOK
    <2> QED BY <2>1, <2>8, OnePaperSymbol
  <1>3. CASE UNCHANGED paperVars
    BY <1>3 DEF paperVars, PaperInv
  <1> QED BY <1>1, <1>2, <1>3 DEF PaperNext

\* PaperBroker: for any symbols, quantities that the ladder divides and paths of quotes, what
\* was bought and not sold is what the position holds, each level sells its share once, and a
\* closed position holds nothing.
THEOREM PaperBooksStayBalanced == PaperSpec => []PaperBooksBalance
  <1>1. PaperInit => PaperInv
    <2> SUFFICES ASSUME PaperInit PROVE PaperInv
      OBVIOUS
    <2> DEFINE none == [buy |-> 0, sell |-> 0]
    <2>1. NoPosition \in Positions /\ NoPosition.closed /\ NoPosition.remaining = 0
      BY DEF NoPosition, Positions
    <2>2. none \in [buy : Int, sell : Int] /\ none.buy - none.sell = 0
      OBVIOUS
    <2> HIDE DEF none
    <2>3. PaperOK(NoPosition, none)
      BY <2>1, <2>2 DEF PaperOK
    <2>4. positions = [s \in PaperSymbols |-> NoPosition] /\ paperFills = [s \in PaperSymbols |-> none]
      BY DEF PaperInit, none
    <2> QED BY <2>1, <2>2, <2>3, <2>4 DEF PaperInv
  <1>2. PaperInv => PaperBooksBalance
    <2> SUFFICES ASSUME PaperInv, NEW s \in PaperSymbols
                 PROVE  /\ paperFills[s].buy - paperFills[s].sell = positions[s].remaining
                        /\ positions[s].closed <=> positions[s].remaining = 0
                        /\ ~positions[s].closed =>
                             /\ 2 \notin positions[s].triggered
                             /\ positions[s].remaining =
                                  positions[s].qty - Cardinality(positions[s].triggered)
                                                       * ((positions[s].qty * 3) \div 10)
      BY DEF PaperBooksBalance, PaperFillsBalance, LadderSharesSold
    <2> DEFINE position == positions[s]
    <2>1. PaperOK(position, paperFills[s])
      BY DEF PaperInv
    <2> HIDE DEF position
    <2>2. ASSUME ~position.closed
          PROVE  /\ position.remaining # 0 /\ 2 \notin position.triggered
                 /\ position.remaining =
                      position.qty - Cardinality(position.triggered) * ((position.qty * 3) \div 10)
      <3>1. PICK n \in 0..2 : Climbed(position, n)
        BY <2>1, <2>2 DEF PaperOK
      <3>2. Share(position) \in Nat /\ 2 * Share(position) < position.qty
            /\ Share(position) < position.qty /\ position.qty \in Nat /\ position.qty > 0
        BY <3>1, ShareIsLess DEF Climbed, Positions
      <3>3. position.triggered = 0..(n - 1) /\ position.remaining = position.qty - n * Share(position)
        BY <3>1 DEF Climbed
      <3>4. Cardinality(position.triggered) = n
        BY <3>3, FS_Interval
      <3> QED BY <3>2, <3>3, <3>4 DEF Share
    <2> QED BY <2>1, <2>2 DEF PaperOK, position
  <1> QED BY <1>1, <1>2, PaperNextInv, PTL DEF PaperSpec
-----------------------------------------------------------------------------
(* The strategy sleeves.                                                   *)

\* The sum of differences is the difference of the sums.
LEMMA SumMinus ==
  ASSUME NEW S, IsFiniteSet(S), NEW f, NEW g, NEW h,
         \A x \in S : f[x] \in Int /\ h[x] \in Int /\ g[x] = f[x] - h[x]
  PROVE  SumFunctionOnSet(g, S) = SumFunctionOnSet(f, S) - SumFunctionOnSet(h, S)
  <1> DEFINE Good(T) == SumFunctionOnSet(g, T) = SumFunctionOnSet(f, T) - SumFunctionOnSet(h, T)
             Bad == {T \in SUBSET S : ~Good(T)}
  <1> SUFFICES ASSUME ~Good(S) PROVE FALSE
    OBVIOUS
  <1>1. PICK T \in Bad : \A x \in T : T \ {x} \notin Bad
    <2>1. Bad \in SUBSET SUBSET S /\ S \in Bad
      OBVIOUS
    <2> HIDE DEF Bad
    <2> QED BY <2>1, MinimalSubset
  <1>2. T \in SUBSET S /\ IsFiniteSet(T) /\ ~Good(T)
    BY FS_Subset
  <1>3. (\A x \in T : f[x] \in Int) /\ (\A x \in T : g[x] \in Int) /\ (\A x \in T : h[x] \in Int)
    BY <1>2
  <1>4. T # {}
    <2>1. ASSUME T = {}
          PROVE  SumFunctionOnSet(f, T) = 0 /\ SumFunctionOnSet(g, T) = 0 /\ SumFunctionOnSet(h, T) = 0
      BY <1>2, <1>3, <2>1, SumOfSome
    <2> QED BY <1>2, <2>1
  <1>5. PICK x \in T : TRUE
    BY <1>4
  <1> DEFINE R == T \ {x}
  <1>6. IsFiniteSet(R) /\ R \in SUBSET T
    BY <1>2, FS_RemoveElement
  <1>7. Good(R)
    BY <1>1, <1>2
  <1>8. SumFunctionOnSet(f, T) = f[x] + SumFunctionOnSet(f, R)
    BY <1>2, <1>3, SumRemove
  <1>9. SumFunctionOnSet(g, T) = g[x] + SumFunctionOnSet(g, R)
    BY <1>2, <1>3, SumRemove
  <1>10. SumFunctionOnSet(h, T) = h[x] + SumFunctionOnSet(h, R)
    BY <1>2, <1>3, SumRemove
  <1> HIDE DEF R
  <1>11. SumFunctionOnSet(f, R) \in Int
    BY <1>3, <1>6, SumOfSome
  <1>12. SumFunctionOnSet(h, R) \in Int
    BY <1>3, <1>6, SumOfSome
  <1>13. f[x] \in Int /\ h[x] \in Int /\ g[x] = f[x] - h[x]
    BY <1>2
  <1> QED BY <1>2, <1>7, <1>8, <1>9, <1>10, <1>11, <1>12, <1>13

\* Subtracting h on a part of the set.
LEMMA SumLess ==
  ASSUME NEW S, IsFiniteSet(S), NEW C \in SUBSET S, NEW f, NEW g, NEW h,
         \A x \in S : f[x] \in Int, \A x \in C : h[x] \in Int /\ g[x] = f[x] - h[x],
         \A x \in S \ C : g[x] = f[x]
  PROVE  SumFunctionOnSet(g, S) = SumFunctionOnSet(f, S) - SumFunctionOnSet(h, C)
  <1> DEFINE R == S \ C
  <1>1. IsFiniteSet(C) /\ IsFiniteSet(R) /\ C \cap R = {} /\ C \cup R = S
    BY FS_Subset
  <1>2. (\A x \in C : f[x] \in Int) /\ (\A x \in R : f[x] \in Int) /\ (\A x \in C : g[x] \in Int)
        /\ (\A x \in R : g[x] = f[x]) /\ (\A x \in C : h[x] \in Int)
    OBVIOUS
  <1> HIDE DEF R
  <1>3. SumFunctionOnSet(f, S) = SumFunctionOnSet(f, C) + SumFunctionOnSet(f, R)
    <2>1. SumFunctionOnSet(f, C \cup R) = SumFunctionOnSet(f, C) + SumFunctionOnSet(f, R)
      BY <1>1, <1>2, SumUnion
    <2> QED BY <1>1, <2>1
  <1>4. SumFunctionOnSet(g, S) = SumFunctionOnSet(g, C) + SumFunctionOnSet(g, R)
    <2>1. SumFunctionOnSet(g, C \cup R) = SumFunctionOnSet(g, C) + SumFunctionOnSet(g, R)
      BY <1>1, <1>2, SumUnion
    <2> QED BY <1>1, <2>1
  <1>5. SumFunctionOnSet(g, R) = SumFunctionOnSet(f, R)
    BY <1>1, <1>2, SumAgrees
  <1>6. SumFunctionOnSet(g, C) = SumFunctionOnSet(f, C) - SumFunctionOnSet(h, C)
    BY <1>1, <1>2, SumMinus
  <1>7. SumFunctionOnSet(f, C) \in Int
    BY <1>1, <1>2, SumOfSome
  <1>8. SumFunctionOnSet(f, R) \in Int
    BY <1>1, <1>2, SumOfSome
  <1>9. SumFunctionOnSet(h, C) \in Int
    BY <1>1, <1>2, SumOfSome
  <1> QED BY <1>3, <1>4, <1>5, <1>6, <1>7, <1>8, <1>9

LEMMA MaxOfTwo ==
  ASSUME NEW a \in Int, NEW b \in Int
  PROVE  Max({a, b}) = IF a <= b THEN b ELSE a
  <1>1. \E x \in {a, b} : \A y \in {a, b} : x >= y
    OBVIOUS
  <1>2. Max({a, b}) \in {a, b} /\ \A y \in {a, b} : Max({a, b}) >= y
    BY <1>1 DEF Max
  <1> QED BY <1>2

Lots == [strategy : Strategies, symbol : Markets, side : PositionSide, quantity : Nat, size : Nat]

SignedLots(L) == [i \in DOMAIN L |-> Signed(L[i].side, L[i].quantity)]
LotsOf(L, s, m) == {i \in DOMAIN L : L[i].strategy = s /\ L[i].symbol = m}
LotsIn(L, m) == {i \in DOMAIN L : L[i].symbol = m}
Sleeve(L, s, m) == SumFunctionOnSet(SignedLots(L), LotsOf(L, s, m))
Account(L, m) == SumFunctionOnSet(SignedLots(L), LotsIn(L, m))

LEMMA LotsAreFinite ==
  ASSUME NEW L \in Seq(Lots)
  PROVE  /\ DOMAIN L = 1..Len(L) /\ Len(L) \in Nat /\ IsFiniteSet(DOMAIN L)
         /\ \A T \in SUBSET DOMAIN L : IsFiniteSet(T)
         /\ \A i \in DOMAIN L : L[i] \in Lots /\ SignedLots(L)[i] \in Int
  <1>1. DOMAIN L = 1..Len(L) /\ Len(L) \in Nat /\ \A i \in DOMAIN L : L[i] \in Lots
    OBVIOUS
  <1>2. IsFiniteSet(DOMAIN L)
    BY <1>1, FS_Interval
  <1>3. \A T \in SUBSET DOMAIN L : IsFiniteSet(T)
    BY <1>2, FS_Subset
  <1>4. \A i \in DOMAIN L : SignedLots(L)[i] \in Int
    BY <1>1 DEF SignedLots, Signed, Lots
  <1> QED BY <1>1, <1>2, <1>3, <1>4

\* A lot that is appended counts where it belongs.
LEMMA NetAppended ==
  ASSUME NEW L \in Seq(Lots), NEW lot \in Lots, NEW S \in SUBSET DOMAIN L, NEW T,
         T = S \/ T = S \cup {Len(L) + 1}
  PROVE  /\ T = S => SumFunctionOnSet(SignedLots(Append(L, lot)), T) = SumFunctionOnSet(SignedLots(L), S)
         /\ T # S => SumFunctionOnSet(SignedLots(Append(L, lot)), T)
                       = SumFunctionOnSet(SignedLots(L), S) + Signed(lot.side, lot.quantity)
  <1> DEFINE f == SignedLots(L)
             g == SignedLots(Append(L, lot))
             n == Len(L) + 1
             x == Signed(lot.side, lot.quantity)
  <1>1. /\ IsFiniteSet(S) /\ n \notin S
        /\ \A i \in S : f[i] \in Int /\ g[i] = f[i]
        /\ g[n] = x /\ x \in Int
    <2>1. Len(L) \in Nat /\ DOMAIN L = 1..Len(L) /\ IsFiniteSet(S) /\ \A i \in S : f[i] \in Int
      BY LotsAreFinite
    <2>2. /\ DOMAIN Append(L, lot) = 1..n /\ Append(L, lot)[n] = lot
          /\ \A i \in 1..Len(L) : Append(L, lot)[i] = L[i]
      OBVIOUS
    <2>3. g[n] = x /\ \A i \in S : g[i] = f[i]
      BY <2>1, <2>2 DEF SignedLots
    <2>4. x \in Int
      BY DEF Signed, Lots
    <2> QED BY <2>1, <2>3, <2>4
  <1> HIDE DEF f, g, n, x
  <1>2. SumFunctionOnSet(g, S) = SumFunctionOnSet(f, S)
    BY <1>1, SumAgrees
  <1>3. SumFunctionOnSet(g, S \cup {n}) = SumFunctionOnSet(g, S) + g[n]
    <2>1. \A i \in S : g[i] \in Int
      BY <1>1
    <2> QED BY <1>1, <2>1, SumAdd
  <1> QED BY <1>1, <1>2, <1>3 DEF f, g, n, x

\* The lots of a sleeve, and of a symbol, after a lot is appended.
LEMMA SleeveAppended ==
  ASSUME NEW L \in Seq(Lots), NEW lot \in Lots, NEW s, NEW m
  PROVE  /\ lot.strategy = s /\ lot.symbol = m =>
              Sleeve(Append(L, lot), s, m) = Sleeve(L, s, m) + Signed(lot.side, lot.quantity)
         /\ ~(lot.strategy = s /\ lot.symbol = m) => Sleeve(Append(L, lot), s, m) = Sleeve(L, s, m)
         /\ lot.symbol = m => Account(Append(L, lot), m) = Account(L, m) + Signed(lot.side, lot.quantity)
         /\ lot.symbol # m => Account(Append(L, lot), m) = Account(L, m)
  <1> DEFINE n == Len(L) + 1
             K == Append(L, lot)
  <1>1. Len(L) \in Nat /\ DOMAIN L = 1..Len(L) /\ n \notin DOMAIN L
    BY LotsAreFinite
  <1>2. DOMAIN K = DOMAIN L \cup {n} /\ K[n] = lot /\ \A i \in DOMAIN L : K[i] = L[i]
    <2>1. DOMAIN K = 1..n /\ K[n] = lot /\ \A i \in 1..Len(L) : K[i] = L[i]
      OBVIOUS
    <2> QED BY <1>1, <2>1
  <1>3. LotsOf(L, s, m) \in SUBSET DOMAIN L /\ LotsIn(L, m) \in SUBSET DOMAIN L
    BY DEF LotsOf, LotsIn
  <1> HIDE DEF n, K
  <1>4. ASSUME lot.strategy = s /\ lot.symbol = m
        PROVE  LotsOf(K, s, m) = LotsOf(L, s, m) \cup {n}
    BY <1>1, <1>2, <1>4 DEF LotsOf
  <1>5. ASSUME ~(lot.strategy = s /\ lot.symbol = m)
        PROVE  LotsOf(K, s, m) = LotsOf(L, s, m)
    BY <1>1, <1>2, <1>5 DEF LotsOf
  <1>6. ASSUME lot.symbol = m PROVE LotsIn(K, m) = LotsIn(L, m) \cup {n}
    BY <1>1, <1>2, <1>6 DEF LotsIn
  <1>7. ASSUME lot.symbol # m PROVE LotsIn(K, m) = LotsIn(L, m)
    BY <1>1, <1>2, <1>7 DEF LotsIn
  <1>8. ASSUME NEW S \in SUBSET DOMAIN L
        PROVE  /\ SumFunctionOnSet(SignedLots(K), S) = SumFunctionOnSet(SignedLots(L), S)
               /\ SumFunctionOnSet(SignedLots(K), S \cup {n})
                    = SumFunctionOnSet(SignedLots(L), S) + Signed(lot.side, lot.quantity)
    <2>1. SumFunctionOnSet(SignedLots(K), S) = SumFunctionOnSet(SignedLots(L), S)
      BY NetAppended DEF K
    <2>2. S \cup {n} # S
      BY <1>1
    <2>3. SumFunctionOnSet(SignedLots(K), S \cup {n})
            = SumFunctionOnSet(SignedLots(L), S) + Signed(lot.side, lot.quantity)
      BY <2>2, NetAppended DEF K, n
    <2> QED BY <2>1, <2>3
  <1>9. /\ SumFunctionOnSet(SignedLots(K), LotsOf(L, s, m)) = Sleeve(L, s, m)
        /\ SumFunctionOnSet(SignedLots(K), LotsOf(L, s, m) \cup {n})
             = Sleeve(L, s, m) + Signed(lot.side, lot.quantity)
        /\ SumFunctionOnSet(SignedLots(K), LotsIn(L, m)) = Account(L, m)
        /\ SumFunctionOnSet(SignedLots(K), LotsIn(L, m) \cup {n})
             = Account(L, m) + Signed(lot.side, lot.quantity)
    BY <1>3, <1>8 DEF Sleeve, Account
  <1>10. /\ Sleeve(K, s, m) = SumFunctionOnSet(SignedLots(K), LotsOf(K, s, m))
         /\ Account(K, m) = SumFunctionOnSet(SignedLots(K), LotsIn(K, m))
    BY DEF Sleeve, Account
  <1>11. Append(L, lot) = K
    BY DEF K
  <1> QED BY <1>4, <1>5, <1>6, <1>7, <1>9, <1>10, <1>11

Quantities == [i \in DOMAIN lots |-> lots[i].quantity]
Before(C, k) == {j \in C : j < k}

LEMMA QuantitiesAdd ==
  ASSUME lots \in Seq(Lots), NEW C \in SUBSET DOMAIN lots
  PROVE  /\ QuantityOf(C) = SumFunctionOnSet(Quantities, C) /\ QuantityOf(C) \in Nat
         /\ IsFiniteSet(C) /\ \A i \in C : Quantities[i] = lots[i].quantity /\ Quantities[i] \in Nat
  <1>1. IsFiniteSet(C) /\ \A i \in C : Quantities[i] = lots[i].quantity /\ Quantities[i] \in Nat
    BY LotsAreFinite DEF Quantities, Lots
  <1>2. SumFunctionOnSet(Quantities, C) \in Nat
    BY <1>1, SumOfNaturals
  <1> QED BY <1>1, <1>2 DEF QuantityOf, Quantities

\* What one lot gives to an exit.
LEMMA ClosedOfLot ==
  ASSUME lots \in Seq(Lots), NEW C \in SUBSET DOMAIN lots, NEW q \in Nat, NEW i \in DOMAIN lots
  PROVE  /\ Closed(C, q, i) \in 0..lots[i].quantity /\ lots[i].quantity \in Nat
         /\ QuantityOf(Before(C, i)) \in Nat
         /\ q <= QuantityOf(Before(C, i)) => Closed(C, q, i) = 0
         /\ q > QuantityOf(Before(C, i)) /\ q <= QuantityOf(Before(C, i)) + lots[i].quantity =>
              Closed(C, q, i) = q - QuantityOf(Before(C, i))
         /\ q >= QuantityOf(Before(C, i)) + lots[i].quantity => Closed(C, q, i) = lots[i].quantity
  <1> DEFINE b == QuantityOf(Before(C, i))
             x == lots[i].quantity
             y == Max({0, q - b})
  <1>1. b \in Nat /\ x \in Nat
    <2>1. Before(C, i) \in SUBSET DOMAIN lots
      BY DEF Before
    <2>2. lots[i] \in Lots
      BY LotsAreFinite
    <2> QED BY <2>1, <2>2, QuantitiesAdd DEF Lots
  <1>2. Closed(C, q, i) = Min({x, y})
    BY DEF Closed, Before
  <1> HIDE DEF b, x
  <1>3. y = IF 0 <= q - b THEN q - b ELSE 0
    BY <1>1, MaxOfTwo
  <1> HIDE DEF y
  <1>4. y \in Nat
    BY <1>1, <1>3
  <1>5. Min({x, y}) = IF x <= y THEN x ELSE y
    BY <1>1, <1>4, MinOfTwo
  <1> QED BY <1>1, <1>2, <1>3, <1>4, <1>5 DEF b, x

\* What the loop of close takes from its candidates is the quantity of the exit.
LEMMA ClosedTotal ==
  ASSUME lots \in Seq(Lots), NEW C \in SUBSET DOMAIN lots, NEW q \in Nat, q <= QuantityOf(C),
         NEW h, \A i \in C : h[i] = Closed(C, q, i)
  PROVE  SumFunctionOnSet(h, C) = q
  <1> DEFINE Q(k) == QuantityOf(Before(C, k))
             H(k) == SumFunctionOnSet(h, Before(C, k))
             Good(k) == H(k) = IF q <= Q(k) THEN q ELSE Q(k)
             Bad == {k \in Nat : ~Good(k)}
             n == Len(lots) + 1
  <1>1. ASSUME NEW k \in Nat
        PROVE  /\ Before(C, k) \in SUBSET DOMAIN lots /\ Before(C, k) \in SUBSET C
               /\ IsFiniteSet(Before(C, k)) /\ Q(k) \in Nat
               /\ Q(k) = SumFunctionOnSet(Quantities, Before(C, k))
               /\ \A i \in Before(C, k) : Quantities[i] = lots[i].quantity /\ Quantities[i] \in Nat
    <2>1. Before(C, k) \in SUBSET DOMAIN lots /\ Before(C, k) \in SUBSET C
      BY DEF Before
    <2> QED BY <2>1, QuantitiesAdd
  <1>2. \A i \in C : h[i] \in Nat /\ i \in Nat /\ i > 0 /\ i < n
    <2>1. ASSUME NEW i \in C PROVE h[i] \in Nat /\ i \in 1..Len(lots)
      BY ClosedOfLot, LotsAreFinite
    <2>2. Len(lots) \in Nat
      BY LotsAreFinite
    <2> QED BY <2>1, <2>2
  <1>3. Good(0)
    <2>1. Before(C, 0) = {}
      BY <1>2 DEF Before
    <2>2. H(0) = 0
      BY <2>1, FS_EmptySet, SumOfZeros
    <2>3. Q(0) = 0
      BY <1>1, <2>1, FS_EmptySet, SumOfZeros
    <2> QED BY <2>2, <2>3
  <1>4. ASSUME NEW k \in Nat, Good(k) PROVE Good(k + 1)
    <2>1. CASE k \notin C
      <3>1. Before(C, k + 1) = Before(C, k)
        BY <1>2, <2>1 DEF Before
      <3> QED BY <1>4, <3>1
    <2>2. CASE k \in C
      <3>1. Before(C, k + 1) = Before(C, k) \cup {k} /\ k \notin Before(C, k)
        BY <1>2, <2>2 DEF Before
      <3>2. H(k + 1) = H(k) + h[k]
        <4>1. (\A i \in Before(C, k) : h[i] \in Int) /\ h[k] \in Int
          <5>1. \A i \in C : h[i] \in Int
            BY <1>2
          <5> QED BY <2>2, <5>1 DEF Before
        <4>2. IsFiniteSet(Before(C, k))
          BY <1>1
        <4>3. SumFunctionOnSet(h, Before(C, k) \cup {k}) = SumFunctionOnSet(h, Before(C, k)) + h[k]
          BY <3>1, <4>1, <4>2, SumAdd
        <4> QED BY <3>1, <4>3
      <3>3. Q(k + 1) = Q(k) + lots[k].quantity
        <4>1. (\A i \in Before(C, k) : Quantities[i] \in Int) /\ Quantities[k] \in Int
              /\ Quantities[k] = lots[k].quantity
          <5>1. \A i \in C : Quantities[i] = lots[i].quantity /\ Quantities[i] \in Int
            BY QuantitiesAdd
          <5> QED BY <2>2, <5>1 DEF Before
        <4>2. k + 1 \in Nat /\ IsFiniteSet(Before(C, k))
          BY <1>1
        <4>3. Q(k + 1) = SumFunctionOnSet(Quantities, Before(C, k) \cup {k})
          BY <1>1, <3>1, <4>2
        <4>4. SumFunctionOnSet(Quantities, Before(C, k) \cup {k})
                = SumFunctionOnSet(Quantities, Before(C, k)) + Quantities[k]
          BY <3>1, <4>1, <4>2, SumAdd
        <4> QED BY <1>1, <4>1, <4>3, <4>4
      <3>4. /\ Q(k) \in Nat /\ lots[k].quantity \in Nat /\ h[k] = Closed(C, q, k)
            /\ q <= Q(k) => h[k] = 0
            /\ q > Q(k) /\ q <= Q(k) + lots[k].quantity => h[k] = q - Q(k)
            /\ q >= Q(k) + lots[k].quantity => h[k] = lots[k].quantity
        BY <2>2, ClosedOfLot
      <3>5. H(k) = IF q <= Q(k) THEN q ELSE Q(k)
        BY <1>4
      <3> HIDE DEF Q, H
      <3>6. H(k + 1) = IF q <= Q(k + 1) THEN q ELSE Q(k + 1)
        BY <3>2, <3>3, <3>4, <3>5
      <3> QED BY <3>6
    <2> QED BY <2>1, <2>2
  <1>5. Good(n)
    <2> SUFFICES ASSUME ~Good(n) PROVE FALSE
      OBVIOUS
    <2>1. n \in Bad /\ Bad \subseteq Nat
      <3> HIDE DEF Good
      <3> QED BY LotsAreFinite
    <2>2. PICK k \in Bad : \A j \in Bad : k <= j
      <3> HIDE DEF Bad
      <3> QED BY <2>1, LeastElement
    <2>3. k \in Nat /\ k # 0 /\ ~Good(k)
      <3> HIDE DEF Good
      <3> QED BY <1>3, <2>2
    <2>4. k - 1 \in Nat /\ ~(k <= k - 1) /\ (k - 1) + 1 = k
      BY <2>3
    <2>5. Good(k - 1)
      <3> HIDE DEF Good
      <3> QED BY <2>2, <2>4
    <2> HIDE DEF Good
    <2> QED BY <1>4, <2>3, <2>4, <2>5
  <1>6. Before(C, n) = C
    BY <1>2 DEF Before
  <1> QED BY <1>5, <1>6

\* The same with the sign of the side that is closed.
LEMMA SignedClosedTotal ==
  ASSUME lots \in Seq(Lots), NEW C \in SUBSET DOMAIN lots, NEW q \in Nat, q <= QuantityOf(C),
         NEW side \in PositionSide, NEW h, \A i \in C : h[i] = Signed(side, Closed(C, q, i))
  PROVE  SumFunctionOnSet(h, C) = Signed(side, q)
  <1> DEFINE c == [i \in C |-> Closed(C, q, i)]
             z == [i \in C |-> 0]
  <1>1. IsFiniteSet(C) /\ \A i \in C : c[i] = Closed(C, q, i) /\ c[i] \in Int /\ z[i] = 0
    <2>1. ASSUME NEW i \in C PROVE Closed(C, q, i) \in 0..lots[i].quantity /\ lots[i].quantity \in Nat
      BY ClosedOfLot
    <2>2. ASSUME NEW i \in C PROVE Closed(C, q, i) \in Int
      BY <2>1
    <2> QED BY <2>2, QuantitiesAdd
  <1>2. \A i \in C : h[i] = Signed(side, Closed(C, q, i))
    OBVIOUS
  <1> HIDE DEF c, z
  <1>3. SumFunctionOnSet(c, C) = q
    BY <1>1, ClosedTotal
  <1>4. SumFunctionOnSet(z, C) = 0
    BY <1>1, SumOfZeros
  <1>5. CASE side = "LONG"
    <2>1. \A i \in C : c[i] \in Int /\ h[i] = c[i]
      BY <1>1, <1>2, <1>5 DEF Signed
    <2> QED BY <1>1, <1>3, <1>5, <2>1, SumAgrees DEF Signed
  <1>6. CASE side = "SHORT"
    <2>1. \A i \in C : z[i] \in Int /\ c[i] \in Int /\ h[i] = z[i] - c[i]
      BY <1>1, <1>2, <1>6 DEF Signed
    <2>2. SumFunctionOnSet(h, C) = SumFunctionOnSet(z, C) - SumFunctionOnSet(c, C)
      BY <1>1, <2>1, SumMinus
    <2> QED BY <1>3, <1>4, <1>6, <2>2 DEF Signed
  <1> QED BY <1>5, <1>6 DEF PositionSide

SleeveTypes ==
  /\ netting \in [hedging : BOOLEAN, transfer : BOOLEAN] /\ lots \in Seq(Lots)
  /\ accountNet \in [Markets -> Int] /\ unbooked \in [Markets -> Int]
  /\ owned \in [Strategies -> [Markets -> Int]]

\* The two sums, over the lots of the book.
BooksAgree ==
  /\ \A s \in Strategies, m \in Markets : Sleeve(lots, s, m) = owned[s][m]
  /\ \A m \in Markets : accountNet[m] = Account(lots, m) + unbooked[m]

SleeveInv == SleeveTypes /\ BooksAgree /\ NoOpposingLots /\ ExitsAreFifo

\* A lot without a conflict is appended.
LEMMA LotAppended ==
  ASSUME SleeveInv, NEW lot \in Lots, lots' = Append(lots, lot), lot.quantity = lot.size, netting' = netting,
         ~HedgingConflict([strategy |-> lot.strategy, symbol |-> lot.symbol, side |-> lot.side, size |-> lot.size])
  PROVE  /\ lots' \in Seq(Lots) /\ NoOpposingLots' /\ ExitsAreFifo'
         /\ \A m \in Markets :
              /\ Account(lots, m) \in Int
              /\ m = lot.symbol => Account(lots', m) = Account(lots, m) + Signed(lot.side, lot.quantity)
              /\ m # lot.symbol => Account(lots', m) = Account(lots, m)
         /\ \A s \in Strategies, m \in Markets :
              /\ s = lot.strategy /\ m = lot.symbol =>
                   Sleeve(lots', s, m) = Sleeve(lots, s, m) + Signed(lot.side, lot.quantity)
              /\ ~(s = lot.strategy /\ m = lot.symbol) => Sleeve(lots', s, m) = Sleeve(lots, s, m)
         /\ Signed(lot.side, lot.quantity) \in Int
  <1> DEFINE n == Len(lots) + 1
  <1>1. lots \in Seq(Lots) /\ lots' \in Seq(Lots)
    BY DEF SleeveInv, SleeveTypes
  <1>2. /\ Len(lots) \in Nat /\ DOMAIN lots = 1..Len(lots) /\ DOMAIN lots' = 1..n
        /\ lots'[n] = lot /\ \A i \in 1..Len(lots) : lots'[i] = lots[i]
    BY <1>1, LotsAreFinite
  <1>3. DOMAIN lots' = DOMAIN lots \cup {n} /\ \A i \in DOMAIN lots : lots'[i] = lots[i] /\ i < n /\ ~(n < i)
    BY <1>2
  <1>4. \A i \in DOMAIN lots : lots[i] \in Lots
    BY <1>1, LotsAreFinite
  <1>5. NoOpposingLots'
    <2> SUFFICES ASSUME ~netting.hedging, NEW i \in DOMAIN lots', NEW j \in DOMAIN lots',
                        lots'[i].symbol = lots'[j].symbol, lots'[i].quantity > 0, lots'[j].quantity > 0
                 PROVE  lots'[i].side = lots'[j].side
      BY DEF NoOpposingLots
    <2>1. ASSUME NEW k \in DOMAIN lots, lots[k].symbol = lot.symbol, lots[k].quantity > 0
          PROVE  lots[k].side = lot.side
      <3>1. lots[k].side # Opposite(lot.side)
        BY <2>1 DEF HedgingConflict
      <3> QED BY <1>4, <3>1 DEF Opposite, Lots, PositionSide
    <2>2. NoOpposingLots
      BY DEF SleeveInv
    <2>3. CASE i = n \/ j = n
      BY <1>2, <1>3, <2>1, <2>3
    <2>4. CASE i # n /\ j # n
      BY <1>3, <2>2, <2>4 DEF NoOpposingLots
    <2> QED BY <2>3, <2>4
  <1>6. ExitsAreFifo'
    <2> SUFFICES ASSUME ~netting.transfer, NEW i \in DOMAIN lots', NEW j \in DOMAIN lots', i < j,
                        lots'[j].quantity < lots'[j].size, lots'[i].strategy = lots'[j].strategy,
                        lots'[i].symbol = lots'[j].symbol, lots'[i].side = lots'[j].side
                 PROVE  lots'[i].quantity = 0
      BY DEF ExitsAreFifo
    <2>1. j # n
      BY <1>2 DEF Lots
    <2>2. i \in DOMAIN lots /\ j \in DOMAIN lots
      BY <1>2, <1>3, <2>1
    <2>3. ExitsAreFifo /\ lots'[i] = lots[i] /\ lots'[j] = lots[j]
      BY <1>3, <2>2 DEF SleeveInv
    <2> QED BY <2>2, <2>3 DEF ExitsAreFifo
  <1>7. ASSUME NEW m PROVE Account(lots, m) \in Int
    <2>1. IsFiniteSet(LotsIn(lots, m)) /\ \A i \in LotsIn(lots, m) : SignedLots(lots)[i] \in Int
      BY <1>1, LotsAreFinite DEF LotsIn
    <2> QED BY <2>1, SumOfSome DEF Account
  <1>8. Signed(lot.side, lot.quantity) \in Int
    BY DEF Signed, Lots
  <1>9. ASSUME NEW s, NEW m
        PROVE  /\ lot.strategy = s /\ lot.symbol = m =>
                    Sleeve(lots', s, m) = Sleeve(lots, s, m) + Signed(lot.side, lot.quantity)
               /\ ~(lot.strategy = s /\ lot.symbol = m) => Sleeve(lots', s, m) = Sleeve(lots, s, m)
               /\ lot.symbol = m => Account(lots', m) = Account(lots, m) + Signed(lot.side, lot.quantity)
               /\ lot.symbol # m => Account(lots', m) = Account(lots, m)
    BY <1>1, SleeveAppended
  <1> QED BY <1>1, <1>5, <1>6, <1>7, <1>8, <1>9

LEMMA AllocateFillInv ==
  ASSUME SleeveInv, NEW f \in [strategy : Strategies, symbol : Markets, side : PositionSide, size : LotSizes],
         AllocateFill(f)
  PROVE  SleeveInv'
  <1> DEFINE lot == LotOf(f)
             x == Signed(f.side, f.size)
  <1>1. /\ lot \in Lots /\ lot.quantity = lot.size /\ f \in [strategy : Strategies, symbol : Markets, side : PositionSide, size : Nat]
        /\ lot.strategy = f.strategy /\ lot.symbol = f.symbol /\ lot.side = f.side /\ lot.quantity = f.size
        /\ f = [strategy |-> lot.strategy, symbol |-> lot.symbol, side |-> lot.side, size |-> lot.size]
    BY SleeveAssumption DEF LotOf, Lots
  <1>2. x \in Int
    BY <1>1 DEF Signed
  <1>3. SleeveTypes /\ BooksAgree /\ netting' = netting
        /\ accountNet' = [accountNet EXCEPT ![f.symbol] = @ + x] /\ f.symbol \in Markets /\ f.strategy \in Strategies
    BY <1>1 DEF SleeveInv, AllocateFill
  <1>4. CASE HedgingConflict(f)
    <2>1. unbooked' = [unbooked EXCEPT ![f.symbol] = @ + x] /\ lots' = lots /\ owned' = owned
      BY <1>4 DEF AllocateFill
    <2>2. NoOpposingLots' /\ ExitsAreFifo'
      BY <1>3, <2>1 DEF SleeveInv, NoOpposingLots, ExitsAreFifo
    <2>3. SleeveTypes'
      BY <1>2, <1>3, <2>1 DEF SleeveTypes
    <2>4. ASSUME NEW m \in Markets PROVE accountNet'[m] = Account(lots', m) + unbooked'[m]
      <3>1. accountNet[m] = Account(lots, m) + unbooked[m] /\ accountNet[m] \in Int /\ unbooked[m] \in Int
        BY <1>3 DEF BooksAgree, SleeveTypes
      <3>2. /\ accountNet'[m] = IF m = f.symbol THEN accountNet[m] + x ELSE accountNet[m]
            /\ unbooked'[m] = IF m = f.symbol THEN unbooked[m] + x ELSE unbooked[m]
        BY <1>3, <2>1 DEF SleeveTypes
      <3>3. Account(lots, m) \in Int
        <4>1. IsFiniteSet(LotsIn(lots, m)) /\ \A i \in LotsIn(lots, m) : SignedLots(lots)[i] \in Int
          BY <1>3, LotsAreFinite DEF LotsIn, SleeveTypes
        <4> QED BY <4>1, SumOfSome DEF Account
      <3> HIDE DEF x
      <3> QED BY <1>2, <2>1, <3>1, <3>2, <3>3
    <2>5. BooksAgree'
      BY <1>3, <2>1, <2>4 DEF BooksAgree
    <2> QED BY <2>2, <2>3, <2>5 DEF SleeveInv
  <1>5. CASE ~HedgingConflict(f)
    <2>1. /\ lots' = Append(lots, lot) /\ unbooked' = unbooked
          /\ owned' = [owned EXCEPT ![f.strategy][f.symbol] = @ + x]
      BY <1>5 DEF AllocateFill
    <2>2. ~HedgingConflict([strategy |-> lot.strategy, symbol |-> lot.symbol, side |-> lot.side, size |-> lot.size])
      BY <1>1, <1>5
    <2> HIDE DEF lot
    <2>3. /\ lots' \in Seq(Lots) /\ NoOpposingLots' /\ ExitsAreFifo'
          /\ \A m \in Markets :
               /\ Account(lots, m) \in Int
               /\ m = f.symbol => Account(lots', m) = Account(lots, m) + x
               /\ m # f.symbol => Account(lots', m) = Account(lots, m)
          /\ \A s \in Strategies, m \in Markets :
               /\ s = f.strategy /\ m = f.symbol => Sleeve(lots', s, m) = Sleeve(lots, s, m) + x
               /\ ~(s = f.strategy /\ m = f.symbol) => Sleeve(lots', s, m) = Sleeve(lots, s, m)
      BY <1>1, <1>3, <2>1, <2>2, LotAppended
    <2> HIDE DEF x
    <2>4. SleeveTypes'
      BY <1>2, <1>3, <2>1, <2>3 DEF SleeveTypes
    <2>5. ASSUME NEW m \in Markets PROVE accountNet'[m] = Account(lots', m) + unbooked'[m]
      <3>1. accountNet[m] = Account(lots, m) + unbooked[m] /\ accountNet[m] \in Int /\ unbooked[m] \in Int
        BY <1>3 DEF BooksAgree, SleeveTypes
      <3>2. accountNet'[m] = IF m = f.symbol THEN accountNet[m] + x ELSE accountNet[m]
        BY <1>3 DEF SleeveTypes
      <3> QED BY <1>2, <2>1, <2>3, <3>1, <3>2
    <2>6. ASSUME NEW s \in Strategies, NEW m \in Markets PROVE Sleeve(lots', s, m) = owned'[s][m]
      <3>1. owned'[s][m] = IF s = f.strategy /\ m = f.symbol THEN owned[s][m] + x ELSE owned[s][m]
        BY <1>3, <2>1 DEF SleeveTypes
      <3>2. Sleeve(lots, s, m) = owned[s][m]
        BY <1>3 DEF BooksAgree
      <3> QED BY <2>3, <3>1, <3>2
    <2> QED BY <2>3, <2>4, <2>5, <2>6 DEF SleeveInv, BooksAgree
  <1> QED BY <1>4, <1>5

LEMMA AllocateAgainInv ==
  ASSUME SleeveInv, NEW i \in DOMAIN lots, AllocateAgain(i)
  PROVE  SleeveInv'
  <1> DEFINE f == [strategy |-> lots[i].strategy, symbol |-> lots[i].symbol,
                   side |-> lots[i].side, size |-> lots[i].size]
             lot == LotOf(f)
             x == Signed(f.side, f.size)
  <1>1. SleeveTypes /\ BooksAgree /\ lots[i] \in Lots
    BY LotsAreFinite DEF SleeveInv, SleeveTypes
  <1>2. /\ f \in [strategy : Strategies, symbol : Markets, side : PositionSide, size : Nat]
        /\ ~HedgingConflict(f) /\ lots' = Append(lots, lot) /\ netting' = netting
        /\ owned' = [owned EXCEPT ![f.strategy][f.symbol] = @ + x]
        /\ unbooked' = [unbooked EXCEPT ![f.symbol] = @ - x] /\ accountNet' = accountNet
    BY <1>1 DEF AllocateAgain, Lots
  <1> HIDE DEF f
  <1>3. /\ lot \in Lots /\ lot.quantity = lot.size
        /\ lot.strategy = f.strategy /\ lot.symbol = f.symbol /\ lot.side = f.side /\ lot.quantity = f.size
        /\ f = [strategy |-> lot.strategy, symbol |-> lot.symbol, side |-> lot.side, size |-> lot.size]
    BY <1>2 DEF LotOf, Lots
  <1>4. x \in Int /\ f.symbol \in Markets /\ f.strategy \in Strategies
    BY <1>2 DEF Signed
  <1>5. ~HedgingConflict([strategy |-> lot.strategy, symbol |-> lot.symbol, side |-> lot.side, size |-> lot.size])
    BY <1>2, <1>3
  <1> HIDE DEF lot
  <1>6. /\ lots' \in Seq(Lots) /\ NoOpposingLots' /\ ExitsAreFifo'
        /\ \A m \in Markets :
             /\ Account(lots, m) \in Int
             /\ m = f.symbol => Account(lots', m) = Account(lots, m) + x
             /\ m # f.symbol => Account(lots', m) = Account(lots, m)
        /\ \A s \in Strategies, m \in Markets :
             /\ s = f.strategy /\ m = f.symbol => Sleeve(lots', s, m) = Sleeve(lots, s, m) + x
             /\ ~(s = f.strategy /\ m = f.symbol) => Sleeve(lots', s, m) = Sleeve(lots, s, m)
    BY <1>2, <1>3, <1>5, LotAppended
  <1> HIDE DEF x
  <1>7. SleeveTypes'
    BY <1>1, <1>2, <1>4, <1>6 DEF SleeveTypes
  <1>8. ASSUME NEW m \in Markets PROVE accountNet'[m] = Account(lots', m) + unbooked'[m]
    <2>1. accountNet[m] = Account(lots, m) + unbooked[m] /\ accountNet[m] \in Int /\ unbooked[m] \in Int
      BY <1>1 DEF BooksAgree, SleeveTypes
    <2>2. unbooked'[m] = IF m = f.symbol THEN unbooked[m] - x ELSE unbooked[m]
      BY <1>1, <1>2 DEF SleeveTypes
    <2> QED BY <1>2, <1>4, <1>6, <2>1, <2>2
  <1>9. ASSUME NEW s \in Strategies, NEW m \in Markets PROVE Sleeve(lots', s, m) = owned'[s][m]
    <2>1. owned'[s][m] = IF s = f.strategy /\ m = f.symbol THEN owned[s][m] + x ELSE owned[s][m]
      BY <1>1, <1>2 DEF SleeveTypes
    <2>2. Sleeve(lots, s, m) = owned[s][m]
      BY <1>1 DEF BooksAgree
    <2> QED BY <1>6, <2>1, <2>2
  <1> QED BY <1>6, <1>7, <1>8, <1>9 DEF SleeveInv, BooksAgree

\* An exit that is covered leaves the lots of every other sleeve and symbol as they
\* were, and takes its quantity from its own.
LEMMA CloseSums ==
  ASSUME SleeveTypes, NEW C \in SUBSET DOMAIN lots, NEW side \in PositionSide, NEW q \in Nat,
         q <= QuantityOf(C), \A i \in C : lots[i].side = side,
         lots' = [i \in DOMAIN lots |-> IF i \in C
                    THEN [lots[i] EXCEPT !.quantity = @ - Closed(C, q, i)] ELSE lots[i]],
         NEW S \in SUBSET DOMAIN lots
  PROVE  /\ SumFunctionOnSet(SignedLots(lots), S) \in Int
         /\ C \subseteq S => SumFunctionOnSet(SignedLots(lots'), S)
                               = SumFunctionOnSet(SignedLots(lots), S) - Signed(side, q)
         /\ C \cap S = {} => SumFunctionOnSet(SignedLots(lots'), S) = SumFunctionOnSet(SignedLots(lots), S)
  <1> DEFINE f == SignedLots(lots)
             g == SignedLots(lots')
             h == [i \in C |-> Signed(side, Closed(C, q, i))]
  <1>1. lots \in Seq(Lots) /\ DOMAIN lots' = DOMAIN lots
    BY DEF SleeveTypes
  <1>2. IsFiniteSet(S) /\ \A i \in S : f[i] \in Int
    BY <1>1, LotsAreFinite
  <1>3. ASSUME NEW i \in C PROVE h[i] \in Int /\ g[i] = f[i] - h[i]
    <2>1. Closed(C, q, i) \in 0..lots[i].quantity /\ lots[i].quantity \in Nat
      BY <1>1, ClosedOfLot
    <2>2. lots[i] \in Lots
      BY <1>1, LotsAreFinite
    <2>3. lots'[i].quantity = lots[i].quantity - Closed(C, q, i) /\ lots'[i].side = side /\ lots[i].side = side
      BY <2>2 DEF Lots
    <2>4. /\ g[i] = Signed(side, lots[i].quantity - Closed(C, q, i))
          /\ f[i] = Signed(side, lots[i].quantity) /\ h[i] = Signed(side, Closed(C, q, i))
      BY <1>1, <2>3 DEF SignedLots
    <2> HIDE DEF f, g, h
    <2> QED BY <2>1, <2>4 DEF Signed
  <1>4. \A i \in S \ C : g[i] = f[i]
    BY <1>1 DEF SignedLots
  <1>5. SumFunctionOnSet(h, C) = Signed(side, q)
    <2>1. \A i \in C : h[i] = Signed(side, Closed(C, q, i))
      OBVIOUS
    <2> HIDE DEF h
    <2> QED BY <1>1, <2>1, SignedClosedTotal
  <1> HIDE DEF f, g, h
  <1>6. SumFunctionOnSet(f, S) \in Int
    BY <1>2, SumOfSome
  <1>7. ASSUME C \subseteq S PROVE SumFunctionOnSet(g, S) = SumFunctionOnSet(f, S) - SumFunctionOnSet(h, C)
    BY <1>2, <1>3, <1>4, <1>7, SumLess
  <1>8. ASSUME C \cap S = {} PROVE SumFunctionOnSet(g, S) = SumFunctionOnSet(f, S)
    <2>1. \A i \in S : f[i] \in Int /\ g[i] = f[i]
      BY <1>2, <1>4, <1>8
    <2> QED BY <1>2, <2>1, SumAgrees
  <1> QED BY <1>5, <1>6, <1>7, <1>8 DEF f, g

\* When something is taken from a lot, the candidates before it are used up.
LEMMA OlderLotsFirst ==
  ASSUME lots \in Seq(Lots), NEW C \in SUBSET DOMAIN lots, NEW q \in Nat,
         NEW i \in C, NEW j \in C, i < j, Closed(C, q, j) > 0
  PROVE  Closed(C, q, i) = lots[i].quantity
  <1>1. /\ QuantityOf(Before(C, j)) \in Nat /\ q > QuantityOf(Before(C, j))
    <2>1. QuantityOf(Before(C, j)) \in Nat /\ (q <= QuantityOf(Before(C, j)) => Closed(C, q, j) = 0)
      BY ClosedOfLot
    <2> QED BY <2>1
  <1>2. i \in Nat /\ j \in Nat /\ (\A k \in C : k \in Nat)
    BY LotsAreFinite
  <1>3. Before(C, i) \cup {i} \in SUBSET Before(C, j) /\ i \notin Before(C, i)
        /\ Before(C, j) \in SUBSET DOMAIN lots /\ Before(C, i) \in SUBSET DOMAIN lots
    BY <1>2 DEF Before
  <1>4. /\ IsFiniteSet(Before(C, j)) /\ IsFiniteSet(Before(C, i))
        /\ \A k \in Before(C, j) : Quantities[k] \in Nat
        /\ QuantityOf(Before(C, j)) = SumFunctionOnSet(Quantities, Before(C, j))
        /\ QuantityOf(Before(C, i)) = SumFunctionOnSet(Quantities, Before(C, i))
        /\ QuantityOf(Before(C, i)) \in Nat
    BY <1>3, QuantitiesAdd
  <1>5. Quantities[i] = lots[i].quantity /\ lots[i].quantity \in Nat
    BY QuantitiesAdd
  <1>6. SumFunctionOnSet(Quantities, Before(C, i) \cup {i}) <= SumFunctionOnSet(Quantities, Before(C, j))
    BY <1>3, <1>4, SumOfPart
  <1>7. SumFunctionOnSet(Quantities, Before(C, i) \cup {i})
          = SumFunctionOnSet(Quantities, Before(C, i)) + Quantities[i]
    <2>1. \A k \in Before(C, i) : Quantities[k] \in Int
      BY <1>3, <1>4
    <2> QED BY <1>3, <1>4, <1>5, <2>1, SumAdd
  <1>8. q >= QuantityOf(Before(C, i)) + lots[i].quantity
    BY <1>1, <1>4, <1>5, <1>6, <1>7
  <1> QED BY <1>8, ClosedOfLot

LEMMA CloseInv ==
  ASSUME SleeveInv, NEW s \in Strategies, NEW m \in Markets, NEW side \in PositionSide, NEW q \in LotSizes,
         Close(s, m, side, q)
  PROVE  SleeveInv'
  <1> DEFINE C == OpenLots(s, m, side)
             x == Signed(side, q)
  <1>1. SleeveTypes /\ BooksAgree /\ netting' = netting /\ q \in Nat
        /\ accountNet' = [accountNet EXCEPT ![m] = @ - x]
    BY SleeveAssumption DEF SleeveInv, Close
  <1>2. x \in Int
    BY <1>1 DEF Signed
  <1>3. /\ C \in SUBSET DOMAIN lots /\ lots \in Seq(Lots)
        /\ \A i \in DOMAIN lots : i \in C <=> /\ lots[i].strategy = s /\ lots[i].symbol = m
                                             /\ lots[i].side = side /\ lots[i].quantity > 0
    BY <1>1 DEF OpenLots, SleeveTypes
  <1>4. \A n \in Markets : Account(lots, n) \in Int
    <2>1. ASSUME NEW n \in Markets PROVE Account(lots, n) \in Int
      <3>1. IsFiniteSet(LotsIn(lots, n)) /\ \A i \in LotsIn(lots, n) : SignedLots(lots)[i] \in Int
        BY <1>3, LotsAreFinite DEF LotsIn
      <3> QED BY <3>1, SumOfSome DEF Account
    <2> QED BY <2>1
  <1>5. CASE q > QuantityOf(C)
    <2>1. unbooked' = [unbooked EXCEPT ![m] = @ - x] /\ lots' = lots /\ owned' = owned
      BY <1>5 DEF Close
    <2>2. NoOpposingLots' /\ ExitsAreFifo'
      BY <1>1, <2>1 DEF SleeveInv, NoOpposingLots, ExitsAreFifo
    <2> HIDE DEF x
    <2>3. SleeveTypes'
      BY <1>1, <1>2, <2>1 DEF SleeveTypes
    <2>4. ASSUME NEW n \in Markets PROVE accountNet'[n] = Account(lots', n) + unbooked'[n]
      <3>1. accountNet[n] = Account(lots, n) + unbooked[n] /\ accountNet[n] \in Int /\ unbooked[n] \in Int
        BY <1>1 DEF BooksAgree, SleeveTypes
      <3>2. /\ accountNet'[n] = IF n = m THEN accountNet[n] - x ELSE accountNet[n]
            /\ unbooked'[n] = IF n = m THEN unbooked[n] - x ELSE unbooked[n]
        BY <1>1, <2>1 DEF SleeveTypes
      <3> QED BY <1>2, <1>4, <2>1, <3>1, <3>2
    <2>5. BooksAgree'
      BY <1>1, <2>1, <2>4 DEF BooksAgree
    <2> QED BY <2>2, <2>3, <2>5 DEF SleeveInv
  <1>6. CASE ~(q > QuantityOf(C))
    <2>1. /\ lots' = [i \in DOMAIN lots |-> IF i \in C
                       THEN [lots[i] EXCEPT !.quantity = @ - Closed(C, q, i)] ELSE lots[i]]
          /\ unbooked' = unbooked /\ owned' = [owned EXCEPT ![s][m] = @ - x]
      BY <1>6 DEF Close
    <2>2. q <= QuantityOf(C)
      BY <1>1, <1>3, <1>6, QuantitiesAdd
    <2> HIDE DEF C
    <2>3. /\ DOMAIN lots' = DOMAIN lots
          /\ \A i \in DOMAIN lots \ C : lots'[i] = lots[i]
          /\ \A i \in C : /\ lots'[i].quantity = lots[i].quantity - Closed(C, q, i)
                          /\ Closed(C, q, i) \in 0..lots[i].quantity
          /\ \A i \in DOMAIN lots :
               /\ lots[i] \in Lots /\ lots'[i] \in Lots
               /\ lots'[i].strategy = lots[i].strategy /\ lots'[i].symbol = lots[i].symbol
               /\ lots'[i].side = lots[i].side /\ lots'[i].size = lots[i].size
      <3>1. \A i \in DOMAIN lots : lots[i] \in Lots
        BY <1>3, LotsAreFinite
      <3>2. ASSUME NEW i \in C
            PROVE  /\ lots'[i] = [lots[i] EXCEPT !.quantity = @ - Closed(C, q, i)]
                   /\ Closed(C, q, i) \in 0..lots[i].quantity /\ lots[i].quantity \in Nat
                   /\ lots[i].quantity - Closed(C, q, i) \in Nat
        <4>1. lots'[i] = [lots[i] EXCEPT !.quantity = @ - Closed(C, q, i)] /\ i \in DOMAIN lots
          BY <1>3, <2>1
        <4>2. Closed(C, q, i) \in 0..lots[i].quantity /\ lots[i].quantity \in Nat
          BY <1>1, <1>3, <4>1, ClosedOfLot
        <4>3. lots[i].quantity - Closed(C, q, i) \in Nat
          BY <4>2
        <4> QED BY <4>1, <4>2, <4>3
      <3>3. ASSUME NEW i \in C
            PROVE  /\ lots'[i] \in Lots /\ lots'[i].quantity = lots[i].quantity - Closed(C, q, i)
                   /\ lots'[i].strategy = lots[i].strategy /\ lots'[i].symbol = lots[i].symbol
                   /\ lots'[i].side = lots[i].side /\ lots'[i].size = lots[i].size
        BY <1>3, <3>1, <3>2 DEF Lots
      <3>4. DOMAIN lots' = DOMAIN lots /\ \A i \in DOMAIN lots \ C : lots'[i] = lots[i]
        BY <2>1
      <3> QED BY <3>1, <3>2, <3>3, <3>4
    <2>4. lots' \in Seq(Lots)
      <3>1. DOMAIN lots = 1..Len(lots) /\ Len(lots) \in Nat
        BY <1>3, LotsAreFinite
      <3>2. lots' = [i \in DOMAIN lots |-> lots'[i]] /\ \A i \in DOMAIN lots : lots'[i] \in Lots
        BY <2>1, <2>3
      <3>3. lots' \in [1..Len(lots) -> Lots]
        BY <3>1, <3>2
      <3> QED BY <3>1, <3>3
    <2>5. ASSUME NEW S \in SUBSET DOMAIN lots
          PROVE  /\ C \subseteq S => SumFunctionOnSet(SignedLots(lots'), S)
                                       = SumFunctionOnSet(SignedLots(lots), S) - x
                 /\ C \cap S = {} => SumFunctionOnSet(SignedLots(lots'), S) = SumFunctionOnSet(SignedLots(lots), S)
      BY <1>1, <1>3, <2>1, <2>2, CloseSums
    <2> HIDE DEF x
    <2>6. SleeveTypes'
      BY <1>1, <1>2, <2>1, <2>4 DEF SleeveTypes
    <2>7. ASSUME NEW n \in Markets PROVE accountNet'[n] = Account(lots', n) + unbooked'[n]
      <3>1. accountNet[n] = Account(lots, n) + unbooked[n] /\ accountNet[n] \in Int /\ unbooked[n] \in Int
        BY <1>1 DEF BooksAgree, SleeveTypes
      <3>2. accountNet'[n] = IF n = m THEN accountNet[n] - x ELSE accountNet[n]
        BY <1>1 DEF SleeveTypes
      <3>3. LotsIn(lots', n) = LotsIn(lots, n) /\ LotsIn(lots, n) \in SUBSET DOMAIN lots
        BY <2>3 DEF LotsIn
      <3>4. (n = m => C \subseteq LotsIn(lots, n)) /\ (n # m => C \cap LotsIn(lots, n) = {})
        BY <1>3 DEF LotsIn
      <3>5. Account(lots', n) = IF n = m THEN Account(lots, n) - x ELSE Account(lots, n)
        BY <2>5, <3>3, <3>4 DEF Account
      <3> QED BY <1>2, <1>4, <2>1, <3>1, <3>2, <3>5
    <2>8. ASSUME NEW p \in Strategies, NEW n \in Markets PROVE Sleeve(lots', p, n) = owned'[p][n]
      <3>1. owned'[p][n] = IF p = s /\ n = m THEN owned[p][n] - x ELSE owned[p][n]
        BY <1>1, <2>1 DEF SleeveTypes
      <3>2. Sleeve(lots, p, n) = owned[p][n]
        BY <1>1 DEF BooksAgree
      <3>3. LotsOf(lots', p, n) = LotsOf(lots, p, n) /\ LotsOf(lots, p, n) \in SUBSET DOMAIN lots
        BY <2>3 DEF LotsOf
      <3>4. /\ p = s /\ n = m => C \subseteq LotsOf(lots, p, n)
            /\ ~(p = s /\ n = m) => C \cap LotsOf(lots, p, n) = {}
        BY <1>3 DEF LotsOf
      <3>5. Sleeve(lots', p, n) = IF p = s /\ n = m THEN Sleeve(lots, p, n) - x ELSE Sleeve(lots, p, n)
        BY <2>5, <3>3, <3>4 DEF Sleeve
      <3> QED BY <3>1, <3>2, <3>5
    <2>9. \A i \in DOMAIN lots : /\ lots[i].quantity \in Nat /\ lots'[i].quantity \in Nat
                                 /\ lots'[i].quantity <= lots[i].quantity
      <3>1. \A i \in DOMAIN lots : lots[i].quantity \in Nat /\ lots'[i].quantity \in Nat
        BY <2>3 DEF Lots
      <3> QED BY <2>3, <3>1
    <2>10. NoOpposingLots'
      <3>1. NoOpposingLots
        BY DEF SleeveInv
      <3> QED BY <1>1, <2>3, <2>9, <3>1 DEF NoOpposingLots
    <2>11. ExitsAreFifo'
      <3> SUFFICES ASSUME ~netting.transfer, NEW i \in DOMAIN lots, NEW j \in DOMAIN lots, i < j,
                          lots'[j].quantity < lots'[j].size, lots[i].strategy = lots[j].strategy,
                          lots[i].symbol = lots[j].symbol, lots[i].side = lots[j].side
                   PROVE  lots'[i].quantity = 0
        BY <1>1, <2>3 DEF ExitsAreFifo
      <3>1. CASE lots[i].quantity = 0
        BY <2>9, <3>1
      <3>2. CASE lots[i].quantity > 0
        <4>1. ~(lots[j].quantity < lots[j].size)
          BY <3>2 DEF SleeveInv, ExitsAreFifo
        <4>2. lots'[j] # lots[j]
          BY <4>1
        <4>3. j \in C
          BY <2>3, <4>2
        <4>4. lots[j].strategy = s /\ lots[j].symbol = m /\ lots[j].side = side
          BY <1>3, <4>3
        <4>5. i \in C
          BY <1>3, <3>2, <4>4
        <4>6. Closed(C, q, j) > 0
          <5>1. lots[j].quantity \in Nat /\ lots[j].size \in Nat /\ lots'[j].size = lots[j].size
            BY <2>3 DEF Lots
          <5>2. lots'[j].quantity = lots[j].quantity - Closed(C, q, j) /\ Closed(C, q, j) \in 0..lots[j].quantity
            BY <2>3, <4>3
          <5> QED BY <4>1, <5>1, <5>2
        <4>7. Closed(C, q, i) = lots[i].quantity
          BY <1>1, <1>3, <4>3, <4>5, <4>6, OlderLotsFirst
        <4> QED BY <2>3, <2>9, <4>5, <4>7
      <3> QED BY <2>9, <3>1, <3>2
    <2> QED BY <2>6, <2>7, <2>8, <2>10, <2>11 DEF SleeveInv, BooksAgree
  <1> QED BY <1>5, <1>6

LEMMA TransferInv ==
  ASSUME SleeveInv, NEW i \in DOMAIN lots, NEW to \in Strategies, TransferOwnership(i, to)
  PROVE  SleeveInv'
  <1> DEFINE lot == lots[i]
             x == Signed(lot.side, lot.quantity)
             f == SignedLots(lots)
  <1>1. SleeveTypes /\ BooksAgree /\ NoOpposingLots /\ lots \in Seq(Lots) /\ \A j \in DOMAIN lots : lots[j] \in Lots
    BY LotsAreFinite DEF SleeveInv, SleeveTypes
  <1>2. /\ netting.transfer /\ to # lot.strategy /\ lots' = [lots EXCEPT ![i].strategy = to]
        /\ owned' = [owned EXCEPT ![lot.strategy][lot.symbol] = @ - x, ![to][lot.symbol] = @ + x]
        /\ netting' = netting /\ accountNet' = accountNet /\ unbooked' = unbooked
    BY DEF TransferOwnership
  <1>3. lot \in Lots /\ lot.strategy \in Strategies /\ lot.symbol \in Markets /\ x \in Int
    BY <1>1 DEF Lots, Signed
  <1>4. /\ DOMAIN lots' = DOMAIN lots /\ lots'[i].strategy = to /\ lots'[i] \in Lots
        /\ lots'[i].symbol = lot.symbol /\ lots'[i].side = lot.side /\ lots'[i].quantity = lot.quantity
        /\ \A j \in DOMAIN lots \ {i} : lots'[j] = lots[j]
    BY <1>1, <1>2, <1>3 DEF Lots
  <1>5. lots' \in Seq(Lots)
    <2>1. DOMAIN lots = 1..Len(lots) /\ Len(lots) \in Nat
      BY <1>1, LotsAreFinite
    <2>2. lots' = [j \in DOMAIN lots |-> lots'[j]] /\ \A j \in DOMAIN lots : lots'[j] \in Lots
      BY <1>1, <1>2, <1>4
    <2>3. lots' \in [1..Len(lots) -> Lots]
      BY <2>1, <2>2
    <2> QED BY <2>1, <2>3
  <1>6. SleeveTypes'
    <2>1. owned' \in [Strategies -> [Markets -> Int]]
      <3>1. owned \in [Strategies -> [Markets -> Int]]
        BY <1>1 DEF SleeveTypes
      <3> HIDE DEF x
      <3> QED BY <1>2, <1>3, <3>1
    <2> QED BY <1>1, <1>2, <1>5, <2>1 DEF SleeveTypes
  <1>7. NoOpposingLots'
    BY <1>1, <1>2, <1>4 DEF NoOpposingLots
  <1>8. ExitsAreFifo'
    BY <1>2 DEF ExitsAreFifo
  <1>9. SignedLots(lots') = f /\ \A S \in SUBSET DOMAIN lots : IsFiniteSet(S) /\ \A j \in S : f[j] \in Int
    <2>1. SignedLots(lots') = f
      BY <1>4 DEF SignedLots
    <2> QED BY <1>1, <2>1, LotsAreFinite
  <1>10. ASSUME NEW m \in Markets PROVE accountNet'[m] = Account(lots', m) + unbooked'[m]
    <2>1. LotsIn(lots', m) = LotsIn(lots, m)
      BY <1>4 DEF LotsIn
    <2> QED BY <1>1, <1>2, <1>9, <2>1 DEF Account, BooksAgree
  <1>11. f[i] = x
    BY DEF SignedLots
  <1> HIDE DEF f, x
  <1>12. ASSUME NEW s \in Strategies, NEW m \in Markets PROVE Sleeve(lots', s, m) = owned'[s][m]
    <2> DEFINE S == LotsOf(lots, s, m)
    <2>1. S \in SUBSET DOMAIN lots /\ IsFiniteSet(S) /\ \A j \in S : f[j] \in Int
      BY <1>9 DEF LotsOf
    <2>2. Sleeve(lots, s, m) = owned[s][m] /\ owned[s][m] \in Int
          /\ owned \in [Strategies -> [Markets -> Int]]
      BY <1>1 DEF BooksAgree, SleeveTypes
    <2>3. Sleeve(lots', s, m) = SumFunctionOnSet(f, LotsOf(lots', s, m)) /\ Sleeve(lots, s, m) = SumFunctionOnSet(f, S)
      BY <1>9 DEF Sleeve, f
    <2>4. CASE m = lot.symbol /\ s = lot.strategy
      <3>1. LotsOf(lots', s, m) = S \ {i} /\ i \in S
        BY <1>2, <1>4, <2>4 DEF LotsOf
      <3>2. owned'[s][m] = owned[s][m] - x
        BY <1>2, <1>3, <2>2, <2>4
      <3>3. SumFunctionOnSet(f, S) = f[i] + SumFunctionOnSet(f, S \ {i})
        <4> HIDE DEF S
        <4> QED BY <2>1, <3>1, SumRemove
      <3>4. SumFunctionOnSet(f, S \ {i}) \in Int
        <4>1. S \ {i} \in SUBSET DOMAIN lots
          BY <2>1
        <4> HIDE DEF S
        <4>2. IsFiniteSet(S \ {i}) /\ \A j \in S \ {i} : f[j] \in Int
          BY <1>9, <4>1
        <4> QED BY <4>2, SumOfSome
      <3>5. Sleeve(lots', s, m) = SumFunctionOnSet(f, S \ {i})
        BY <2>3, <3>1
      <3>6. owned[s][m] = x + SumFunctionOnSet(f, S \ {i})
        BY <1>11, <2>2, <2>3, <3>3
      <3> QED BY <1>3, <3>2, <3>4, <3>5, <3>6
    <2>5. CASE m = lot.symbol /\ s = to
      <3>1. LotsOf(lots', s, m) = S \cup {i} /\ i \notin S
        BY <1>2, <1>4, <2>5 DEF LotsOf
      <3>2. owned'[s][m] = owned[s][m] + x
        BY <1>2, <1>3, <2>2, <2>5
      <3>3. SumFunctionOnSet(f, S \cup {i}) = SumFunctionOnSet(f, S) + f[i]
        <4>1. f[i] \in Int
          BY <1>3, <1>11
        <4> HIDE DEF S
        <4> QED BY <2>1, <3>1, <4>1, SumAdd
      <3> HIDE DEF S
      <3> QED BY <1>11, <2>2, <2>3, <3>1, <3>2, <3>3
    <2>6. CASE ~(m = lot.symbol /\ (s = lot.strategy \/ s = to))
      <3>1. LotsOf(lots', s, m) = S
        BY <1>2, <1>4, <2>6 DEF LotsOf
      <3>2. owned'[s][m] = owned[s][m]
        BY <1>2, <1>3, <2>2, <2>6
      <3> QED BY <2>2, <2>3, <3>1, <3>2
    <2> QED BY <2>4, <2>5, <2>6
  <1> QED BY <1>6, <1>7, <1>8, <1>10, <1>12 DEF SleeveInv, BooksAgree

LEMMA SleeveInitInv == SleeveInit => SleeveInv
  <1> SUFFICES ASSUME SleeveInit PROVE SleeveInv
    OBVIOUS
  <1>1. lots = <<>> /\ DOMAIN lots = {} /\ lots \in Seq(Lots)
    BY DEF SleeveInit
  <1>2. SleeveTypes
    BY <1>1 DEF SleeveInit, SleeveTypes
  <1>3. NoOpposingLots /\ ExitsAreFifo
    BY <1>1 DEF NoOpposingLots, ExitsAreFifo
  <1>4. ASSUME NEW S, S = {} PROVE SumFunctionOnSet(SignedLots(lots), S) = 0
    BY <1>4, FS_EmptySet, SumOfZeros
  <1>5. \A s \in Strategies, m \in Markets : LotsOf(lots, s, m) = {} /\ LotsIn(lots, m) = {}
    BY <1>1 DEF LotsOf, LotsIn
  <1>6. ASSUME NEW s \in Strategies, NEW m \in Markets PROVE Sleeve(lots, s, m) = owned[s][m]
    <2>1. owned[s][m] = 0
      BY DEF SleeveInit
    <2>2. Sleeve(lots, s, m) = 0
      BY <1>4, <1>5 DEF Sleeve
    <2> QED BY <2>1, <2>2
  <1>7. ASSUME NEW m \in Markets PROVE accountNet[m] = Account(lots, m) + unbooked[m]
    <2>1. LotsIn(lots, m) = {}
      BY <1>1 DEF LotsIn
    <2>2. accountNet[m] = 0 /\ unbooked[m] = 0
      BY DEF SleeveInit
    <2>3. Account(lots, m) = 0
      BY <1>4, <2>1 DEF Account
    <2> QED BY <2>2, <2>3
  <1> QED BY <1>2, <1>3, <1>6, <1>7 DEF SleeveInv, BooksAgree

\* StrategySleeveBook: whatever is allocated, closed, transferred, refused or booked
\* twice, for every number of strategies, symbols, lots and quantities, a sleeve is what
\* its strategy was given less what it exited, the account differs from the book by what
\* was not booked, opposing lots are not held without hedging, and exits are first in,
\* first out.
THEOREM SleeveBookStaysTrue == SleeveSpec => []SleeveBookIsTrue
  <1>1. SleeveInv /\ [SleeveNext]_sleeveVars => SleeveInv'
    <2> SUFFICES ASSUME SleeveInv, [SleeveNext]_sleeveVars PROVE SleeveInv'
      OBVIOUS
    <2>1. CASE \E f \in [strategy : Strategies, symbol : Markets, side : PositionSide, size : LotSizes] :
                 AllocateFill(f) /\ Bounded
      BY <2>1, AllocateFillInv
    <2>2. CASE \E i \in DOMAIN lots : AllocateAgain(i) /\ Bounded
      BY <2>2, AllocateAgainInv
    <2>3. CASE \E s \in Strategies, m \in Markets, side \in PositionSide, q \in LotSizes :
                 Close(s, m, side, q) /\ Bounded
      BY <2>3, CloseInv
    <2>4. CASE \E i \in DOMAIN lots, to \in Strategies : TransferOwnership(i, to)
      BY <2>4, TransferInv
    <2>5. CASE UNCHANGED sleeveVars
      <3>1. netting' = netting /\ lots' = lots /\ accountNet' = accountNet /\ owned' = owned /\ unbooked' = unbooked
        BY <2>5 DEF sleeveVars
      <3> QED BY <3>1 DEF SleeveInv, SleeveTypes, BooksAgree, NoOpposingLots, ExitsAreFifo
    <2> QED BY <2>1, <2>2, <2>3, <2>4, <2>5 DEF SleeveNext
  <1>2. SleeveInv => SleeveBookIsTrue
    <2> SUFFICES ASSUME SleeveInv PROVE SleeveBookIsTrue
      OBVIOUS
    <2>1. SleevesMatchOwnership
      BY DEF SleeveInv, BooksAgree, SleevesMatchOwnership, VirtualSleeve, NetOf, Sleeve, SignedLots, LotsOf
    <2>2. ASSUME NEW m \in Markets
          PROVE  accountNet[m] = AccountNetPosition(m) + unbooked[m] /\ (Consistent(m) <=> unbooked[m] = 0)
      <3>1. AccountNetPosition(m) = Account(lots, m)
        BY DEF AccountNetPosition, NetOf, Account, SignedLots, LotsIn
      <3>2. Account(lots, m) \in Int
        <4>1. IsFiniteSet(LotsIn(lots, m)) /\ \A i \in LotsIn(lots, m) : SignedLots(lots)[i] \in Int
          BY LotsAreFinite DEF LotsIn, SleeveInv, SleeveTypes
        <4> QED BY <4>1, SumOfSome DEF Account
      <3>3. accountNet[m] = Account(lots, m) + unbooked[m] /\ accountNet[m] \in Int /\ unbooked[m] \in Int
        BY DEF SleeveInv, SleeveTypes, BooksAgree
      <3> QED BY <3>1, <3>2, <3>3 DEF Consistent
    <2> QED BY <2>1, <2>2 DEF SleeveInv, SleeveBookIsTrue, ReconciliationFindsUnbooked
  <1> QED BY <1>1, <1>2, SleeveInitInv, PTL DEF SleeveSpec
=============================================================================
