------------------------ MODULE MeasuredPolicyProofs ------------------------
(***************************************************************************)
(* What holds of the measured policy for every pool, every evidence and    *)
(* every number of Recompare requests.                                     *)
(***************************************************************************)
EXTENDS MeasuredPolicy, FiniteSetTheorems, WellFoundedInduction, NaturalsInduction, TLAPS

(* The inductive invariant.                                                *)

\* Two positions that share a run and a cohort.
Comparable(i, j) ==
    Eligible(i) /\ Eligible(j) /\ SameRun(i, j) /\ CohortOf(i) = CohortOf(j)

\* Bookkeeping of the loop: as many open slots as unplaced plans, groups taken
\* from Groups and never twice.
LoopInv ==
    /\ slots \subseteq group /\ remaining \subseteq group
    /\ Cardinality(slots) = Cardinality(remaining)
    /\ todo \subseteq Groups
    /\ group # {} => group \in Groups
    /\ group \notin todo
    /\ Done => todo = {} /\ group = {}

\* Filled slots hold the placed plans, once each.
PlacedInv ==
    /\ \A s \in Idx \ slots : order[s] \notin remaining
    /\ \A s, t \in Idx \ slots : order[s] = order[t] => s = t
    /\ \A i \in Idx \ remaining : \E s \in Idx \ slots : order[s] = i

\* No slot of a waiting group has been touched.
UntouchedInv == \A g \in todo : \A s \in g : order[s] = s

\* A filled slot holds its own plan or one comparable with it.
PlaceInv == \A s \in Idx \ slots : order[s] = s \/ Comparable(s, order[s])

IInv == TypeOK /\ LoopInv /\ PlacedInv /\ UntouchedInv /\ PlaceInv

-----------------------------------------------------------------------------
(* Runs and groups.                                                        *)

\* Lying in one run is symmetric, so groups do not depend on the member
\* they are computed from.
LEMMA SameRunSym ==
    ASSUME SizeAssumption, NEW i \in Idx, NEW j \in Idx, SameRun(i, j)
    PROVE  SameRun(j, i)
  BY DEF SameRun, Idx, SizeAssumption

\* Lying in one run is transitive.
LEMMA SameRunTrans ==
    ASSUME SizeAssumption, NEW i \in Idx, NEW j \in Idx, NEW k \in Idx,
           SameRun(i, j), SameRun(j, k)
    PROVE  SameRun(i, k)
  BY DEF SameRun, Idx, SizeAssumption

\* A position lies in its own run.
LEMMA SameRunRefl ==
    ASSUME SizeAssumption, NEW i \in Idx PROVE SameRun(i, i)
  BY DEF SameRun, Idx, SizeAssumption

\* A group is non-empty, lies in the pool, and holds with a member exactly the
\* positions comparable with it.
LEMMA GroupMembers ==
    ASSUME SizeAssumption, NEW g \in Groups
    PROVE  /\ g \subseteq Idx
           /\ g # {}
           /\ \A i \in g : \A j \in Idx : j \in g <=> Comparable(i, j)
  <1>1. PICK k \in Idx : Eligible(k) /\ g = GroupOf(k)
    BY DEF Groups
  <1>2. g \subseteq Idx /\ g # {}
    BY DEF Groups, GroupOf
  <1>3. ASSUME NEW i \in g, NEW j \in Idx
        PROVE  j \in g <=> Comparable(i, j)
    <2>1. i \in Idx /\ Eligible(i) /\ SameRun(k, i) /\ CohortOf(i) = CohortOf(k)
      BY <1>1 DEF GroupOf
    <2>2. SameRun(i, k)
      BY <2>1, <1>1, SameRunSym
    <2>3. ASSUME j \in g PROVE Comparable(i, j)
      <3>1. Eligible(j) /\ SameRun(k, j) /\ CohortOf(j) = CohortOf(k)
        BY <2>3, <1>1 DEF GroupOf
      <3> QED BY <3>1, <2>1, <2>2, <1>1, SameRunTrans DEF Comparable
    <2>4. ASSUME Comparable(i, j) PROVE j \in g
      <3>1. SameRun(k, j)
        BY <2>4, <2>1, <1>1, SameRunTrans DEF Comparable
      <3> QED BY <3>1, <2>4, <2>1, <1>1 DEF Comparable, GroupOf
    <2> QED BY <2>3, <2>4
  <1> QED BY <1>2, <1>3

\* Two groups that share a member are the same group.
LEMMA GroupsDisjoint ==
    ASSUME SizeAssumption, NEW g \in Groups, NEW h \in Groups, NEW i \in g, i \in h
    PROVE  g = h
  <1>1. \A j \in Idx : j \in g <=> Comparable(i, j)
    BY GroupMembers
  <1>2. \A j \in Idx : j \in h <=> Comparable(i, j)
    BY GroupMembers
  <1>3. g \subseteq Idx /\ h \subseteq Idx
    BY GroupMembers
  <1> QED BY <1>1, <1>2, <1>3
-----------------------------------------------------------------------------
(* Type correctness.                                                       *)

\* Initially and after every step the variables have their types.
LEMMA TypeInit == Init /\ SizeAssumption /\ PriorityAssumption => TypeOK
  <1> SUFFICES ASSUME Init, SizeAssumption, PriorityAssumption PROVE TypeOK
    OBVIOUS
  <1>1. todo \subseteq SUBSET Idx
    BY DEF Init, Groups, GroupOf
  <1>2. order \in [Idx -> Idx] /\ shown \in [Idx -> Idx]
    BY DEF Init, BaseOrder
  <1> QED BY <1>1, <1>2 DEF Init, TypeOK, Policies, PriorityAssumption, SizeAssumption

\* Every step of the reordering keeps the type invariant.
LEMMA TypeNext ==
    ASSUME SizeAssumption, TypeOK, [Next]_vars PROVE TypeOK'
  <1>1. CASE TakeGroup
    BY <1>1 DEF TypeOK, TakeGroup
  <1>2. CASE PlaceLast
    BY <1>2 DEF TypeOK, PlaceLast
  <1>3. CASE FinishGroup
    BY <1>3 DEF TypeOK, FinishGroup
  <1>4. CASE Return
    BY <1>4 DEF TypeOK, Return
  <1>5. CASE Recompare
    <2>1. todo' \subseteq SUBSET Idx
      BY <1>5 DEF Recompare, Groups, GroupOf
    <2>2. order' \in [Idx -> Idx]
      BY <1>5 DEF Recompare, BaseOrder
    <2>3. evidence' \in [Idx -> Evidence]
      BY <1>5 DEF Recompare, TypeOK
    <2>4. recompares' \in 0..MaxRecompares
      BY <1>5 DEF Recompare, TypeOK, SizeAssumption
    <2> QED BY <2>1, <2>2, <2>3, <2>4, <1>5 DEF Recompare, TypeOK
  <1>6. CASE UNCHANGED vars
    BY <1>6 DEF TypeOK, vars
  <1> QED BY <1>1, <1>2, <1>3, <1>4, <1>5, <1>6 DEF Next, Policy

\* TypeOK is an invariant of the policy for every pool.
THEOREM TypeCorrect == Spec => []TypeOK
  <1>1. SizeAssumption /\ PriorityAssumption
    BY SizeAssumption, PriorityAssumption
  <1>2. Init => TypeOK
    BY <1>1, TypeInit
  <1>3. TypeOK /\ [Next]_vars => TypeOK'
    BY <1>1, TypeNext
  <1> QED BY <1>2, <1>3, PTL DEF Spec

-----------------------------------------------------------------------------
(* The inductive invariant holds.                                          *)

PoolUnchanged == UNCHANGED <<priority, stratum, evidence>>

\* While the pool and its evidence stay, so do the groups and the comparisons.
LEMMA PoolFrame ==
    ASSUME PoolUnchanged
    PROVE  /\ Groups' = Groups
           /\ \A i, j \in Idx : Comparable(i, j)' = Comparable(i, j)
           /\ \A i, j \in Idx : Precedes(i, j)' = Precedes(i, j)
           /\ \A i, j \in Idx : SortsBefore(i, j)' = SortsBefore(i, j)
  <1>1. \A i \in Idx : CohortOf(i)' = CohortOf(i)
    BY DEF PoolUnchanged, CohortOf
  <1>2. \A i, j \in Idx : SameRun(i, j)' = SameRun(i, j)
    BY DEF PoolUnchanged, SameRun
  <1>3. \A i \in Idx : Eligible(i)' = Eligible(i)
    BY <1>1 DEF PoolUnchanged, Eligible
  <1>4. Groups' = Groups
    <2>1. \A i \in Idx : GroupOf(i)' = GroupOf(i)
      BY <1>1, <1>2, <1>3 DEF GroupOf
    <2> QED BY <1>3, <2>1 DEF Groups
  <1>5. \A i, j \in Idx : Comparable(i, j)' = Comparable(i, j)
    BY <1>1, <1>2, <1>3 DEF Comparable
  <1>6. \A i, j \in Idx : Precedes(i, j)' = Precedes(i, j)
    BY DEF PoolUnchanged, Precedes, CompareSpeed, CompareQuality
  <1>7. \A i, j \in Idx : SortsBefore(i, j)' = SortsBefore(i, j)
    BY DEF PoolUnchanged, SortsBefore
  <1> QED BY <1>4, <1>5, <1>6, <1>7

\* Every set of positions is finite.
LEMMA IdxFinite ==
    ASSUME SizeAssumption, NEW S \in SUBSET Idx
    PROVE  IsFiniteSet(S) /\ Cardinality(S) \in Nat /\ (Cardinality(S) = 0 <=> S = {})
  <1>1. IsFiniteSet(Idx)
    BY FS_Interval DEF Idx, SizeAssumption
  <1>2. IsFiniteSet(S)
    BY <1>1, FS_Subset
  <1> QED BY <1>2, FS_CardinalityType, FS_EmptySet

\* The base order with nothing open satisfies the parts about the loop.
LEMMA FreshOrder ==
    ASSUME SizeAssumption, order = BaseOrder, slots = {}, remaining = {},
           todo \subseteq Groups
    PROVE  PlacedInv /\ UntouchedInv /\ PlaceInv
  <1>1. \A g \in todo : g \subseteq Idx
    BY GroupMembers
  <1>2. UntouchedInv
    BY <1>1 DEF UntouchedInv, BaseOrder
  <1>3. PlacedInv
    BY DEF PlacedInv, BaseOrder
  <1>4. PlaceInv
    BY DEF PlaceInv, BaseOrder
  <1> QED BY <1>2, <1>3, <1>4

\* The policy starts with nothing placed, so the loop invariant holds of the first group.
LEMMA InvInit ==
    ASSUME SizeAssumption, PriorityAssumption, Init PROVE IInv
  <1>1. TypeOK
    BY TypeInit
  <1>2. LoopInv
    <2>1. {} \notin Groups
      BY GroupMembers
    <2> QED BY <2>1 DEF Init, LoopInv, Done
  <1>3. PlacedInv /\ UntouchedInv /\ PlaceInv
    BY FreshOrder DEF Init
  <1> QED BY <1>1, <1>2, <1>3 DEF IInv

\* Taking a waiting group opens all its slots: they hold exactly its plans.
LEMMA InvTakeGroup ==
    ASSUME SizeAssumption, IInv, TakeGroup
    PROVE  LoopInv' /\ PlacedInv' /\ UntouchedInv' /\ PlaceInv'
  <1> USE DEF IInv
  <1>1. PICK g \in todo : todo' = todo \ {g} /\ group' = g /\ slots' = g /\ remaining' = g
    BY DEF TakeGroup
  <1>2. PoolUnchanged /\ order' = order /\ phase' = phase /\ phase # "idle" /\ group = {}
    BY DEF TakeGroup, PoolUnchanged
  <1>3. Groups' = Groups /\ g \in Groups /\ g \subseteq Idx /\ g # {}
    BY <1>1, <1>2, PoolFrame, GroupMembers DEF LoopInv
  <1>4. slots = {} /\ remaining = {}
    BY <1>2 DEF LoopInv
  <1>5. \A s \in g : order[s] = s
    BY <1>1 DEF UntouchedInv
  <1>6. LoopInv'
    BY <1>1, <1>2, <1>3 DEF LoopInv, Done
  <1>7. PlacedInv'
    <2>1. ASSUME NEW s \in Idx \ g PROVE order[s] \notin g
      <3>1. SUFFICES ASSUME order[s] \in g PROVE FALSE
        OBVIOUS
      <3>2. order[order[s]] = order[s]
        BY <3>1, <1>5
      <3>3. order[s] = s
        BY <3>1, <3>2, <1>3, <1>4 DEF PlacedInv
      <3> QED BY <3>1, <3>3
    <2>2. ASSUME NEW i \in Idx \ g PROVE \E s \in Idx \ g : order[s] = i
      <3>1. PICK s \in Idx : order[s] = i
        BY <1>4 DEF PlacedInv
      <3> QED BY <3>1, <1>5
    <2>3. \A s, t \in Idx \ g : order[s] = order[t] => s = t
      BY <1>4 DEF PlacedInv
    <2> QED BY <2>1, <2>2, <2>3, <1>1, <1>2 DEF PlacedInv
  <1>8. UntouchedInv'
    BY <1>1, <1>2 DEF UntouchedInv
  <1>9. PlaceInv'
    <2>1. \A s \in Idx : order[s] = s \/ Comparable(s, order[s])
      BY <1>4 DEF PlaceInv
    <2>2. \A s \in Idx : order[s] \in Idx
      BY DEF TypeOK
    <2> QED BY <2>1, <2>2, <1>1, <1>2, PoolFrame DEF PlaceInv
  <1> QED BY <1>6, <1>7, <1>8, <1>9

\* Filling one slot with one unplaced plan of the group keeps the rest.
LEMMA InvPlaceLast ==
    ASSUME SizeAssumption, IInv, PlaceLast
    PROVE  LoopInv' /\ PlacedInv' /\ UntouchedInv' /\ PlaceInv'
  <1> USE DEF IInv
  <1>1. PICK x \in remaining, s \in slots :
            /\ order' = [order EXCEPT ![s] = x]
            /\ remaining' = remaining \ {x}
            /\ slots' = slots \ {s}
    BY DEF PlaceLast
  <1>2. PoolUnchanged /\ phase' = phase /\ group' = group /\ todo' = todo /\ group # {}
    BY DEF PlaceLast, PoolUnchanged
  <1>3. /\ Groups' = Groups /\ group \in Groups
        /\ x \in group /\ s \in group /\ group \subseteq Idx
    BY <1>1, <1>2, PoolFrame, GroupMembers DEF LoopInv
  <1>4. /\ order \in [Idx -> Idx] /\ order'[s] = x
        /\ \A r \in Idx \ {s} : order'[r] = order[r]
    BY <1>1, <1>3 DEF TypeOK
  <1>5. LoopInv'
    <2>1. Cardinality(slots') = Cardinality(remaining')
      <3>1. IsFiniteSet(slots) /\ IsFiniteSet(remaining)
        BY IdxFinite DEF TypeOK
      <3>2. /\ Cardinality(slots') = Cardinality(slots) - 1
            /\ Cardinality(remaining') = Cardinality(remaining) - 1
        BY <3>1, <1>1, FS_RemoveElement
      <3> QED BY <3>2 DEF LoopInv
    <2> QED BY <2>1, <1>1, <1>2, <1>3 DEF LoopInv, Done
  <1>6. PlacedInv'
    BY <1>1, <1>3, <1>4 DEF PlacedInv
  <1>7. UntouchedInv'
    <2>1. ASSUME NEW g \in todo PROVE s \notin g /\ g \subseteq Idx
      BY <1>2, <1>3, GroupsDisjoint, GroupMembers DEF LoopInv
    <2> QED BY <2>1, <1>2, <1>4 DEF UntouchedInv
  <1>8. PlaceInv'
    <2>1. Comparable(s, x)
      BY <1>3, GroupMembers
    <2>2. ASSUME NEW r \in Idx \ slots' PROVE order'[r] = r \/ Comparable(r, order'[r])
      BY <2>1, <1>1, <1>4 DEF PlaceInv
    <2>3. \A r \in Idx : order'[r] \in Idx
      BY <1>3, <1>4
    <2>4. \A i, j \in Idx : Comparable(i, j)' = Comparable(i, j)
      BY <1>2, PoolFrame
    <2> QED BY <2>2, <2>3, <2>4 DEF PlaceInv
  <1> QED BY <1>5, <1>6, <1>7, <1>8

\* A group is closed only when all its slots are filled.
LEMMA NothingOpen ==
    ASSUME SizeAssumption, IInv, remaining = {} PROVE slots = {}
  BY IdxFinite DEF IInv, LoopInv, TypeOK

\* Every step of the policy, and Recompare, keeps the inductive invariant.
LEMMA InvNext ==
    ASSUME SizeAssumption, IInv, [Next]_vars PROVE IInv'
  <1>1. TypeOK'
    BY TypeNext DEF IInv
  <1>2. CASE TakeGroup
    BY <1>1, <1>2, InvTakeGroup DEF IInv
  <1>3. CASE PlaceLast
    BY <1>1, <1>3, InvPlaceLast DEF IInv
  <1>4. CASE FinishGroup
    <2>1. /\ PoolUnchanged /\ group' = {} /\ remaining = {} /\ slots = {}
          /\ UNCHANGED <<phase, todo, slots, remaining, order>>
      BY <1>4, NothingOpen DEF FinishGroup, PoolUnchanged
    <2>2. {} \notin Groups /\ Groups' = Groups
      BY <2>1, GroupMembers, PoolFrame
    <2>3. LoopInv'
      BY <2>1, <2>2 DEF IInv, LoopInv, Done
    <2>4. PlacedInv' /\ UntouchedInv'
      BY <2>1 DEF IInv, PlacedInv, UntouchedInv
    <2>5. PlaceInv'
      BY <2>1, PoolFrame DEF IInv, PlaceInv, TypeOK
    <2> QED BY <1>1, <2>3, <2>4, <2>5 DEF IInv
  <1>5. CASE Return
    <2>1. /\ PoolUnchanged /\ group = {} /\ todo = {}
          /\ UNCHANGED <<group, todo, slots, remaining, order>>
      BY <1>5 DEF Return, PoolUnchanged
    <2>2. LoopInv'
      BY <2>1, PoolFrame DEF IInv, LoopInv, Done
    <2>3. PlacedInv' /\ UntouchedInv'
      BY <2>1 DEF IInv, PlacedInv, UntouchedInv
    <2>4. PlaceInv'
      BY <2>1, PoolFrame DEF IInv, PlaceInv, TypeOK
    <2> QED BY <1>1, <2>2, <2>3, <2>4 DEF IInv
  <1>6. CASE Recompare
    <2>1. /\ phase = "idle" /\ phase' = "proposal" /\ todo' = Groups' /\ order' = BaseOrder
          /\ UNCHANGED <<group, slots, remaining>>
      BY <1>6 DEF Recompare
    <2>2. group = {} /\ slots = {} /\ remaining = {}
      BY <2>1 DEF IInv, LoopInv, Done
    <2>3. {} \notin Groups'
      BY DEF Groups
    <2>4. LoopInv'
      BY <2>1, <2>2, <2>3 DEF IInv, LoopInv, Done
    <2>5. PlacedInv' /\ PlaceInv'
      BY <2>1, <2>2 DEF PlacedInv, PlaceInv, BaseOrder
    <2>6. UntouchedInv'
      BY <1>1, <2>1 DEF UntouchedInv, BaseOrder, TypeOK
    <2> QED BY <1>1, <2>4, <2>5, <2>6 DEF IInv
  <1>7. CASE UNCHANGED vars
    <2>1. PoolUnchanged
      BY <1>7 DEF vars, PoolUnchanged
    <2>2. LoopInv' /\ PlacedInv' /\ UntouchedInv'
      BY <1>7, <2>1, PoolFrame DEF IInv, LoopInv, Done, PlacedInv, UntouchedInv, vars
    <2>3. PlaceInv'
      BY <1>7, <2>1, PoolFrame DEF IInv, PlaceInv, TypeOK, vars
    <2> QED BY <1>1, <2>2, <2>3 DEF IInv
  <1> QED BY <1>2, <1>3, <1>4, <1>5, <1>6, <1>7 DEF Next, Policy

\* The inductive invariant holds in every reachable state.
LEMMA Invariance == Spec => []IInv
  <1>1. Init => IInv
    BY SizeAssumption, PriorityAssumption, InvInit
  <1>2. IInv /\ [Next]_vars => IInv'
    BY SizeAssumption, InvNext
  <1> QED BY <1>1, <1>2, PTL DEF Spec

\* When the policy returns, its order is a permutation of the pool: no plan is
\* lost, none appears twice.
THEOREM OrderIsPermutation == Spec => []NoPlanLostOrRepeated
  <1>1. IInv => NoPlanLostOrRepeated
    <2> SUFFICES ASSUME IInv, Done PROVE
            \A i \in Idx : \E s \in Idx : order[s] = i /\ \A t \in Idx : order[t] = i => t = s
      BY DEF NoPlanLostOrRepeated
    <2>1. slots = {} /\ remaining = {}
      BY DEF IInv, LoopInv
    <2> QED BY <2>1 DEF IInv, PlacedInv
  <1> QED BY <1>1, Invariance, PTL

\* Measured evidence never moves a plan out of its stratum run.
THEOREM NoStratumCrossed == Spec => []StrataNeverCrossed
  <1>1. IInv => StrataNeverCrossed
    <2> SUFFICES ASSUME IInv, Done, NEW s \in Idx PROVE SameRun(s, order[s])
      BY DEF StrataNeverCrossed
    <2>1. order[s] = s \/ Comparable(s, order[s])
      BY DEF IInv, LoopInv, PlaceInv
    <2> QED BY <2>1, SizeAssumption, SameRunRefl DEF Comparable
  <1> QED BY <1>1, Invariance, PTL

\* A plan with nothing comparable in its run keeps its place.
THEOREM BystandersUnmoved == Spec => []BystandersKeepPlace
  <1>1. IInv => BystandersKeepPlace
    <2> SUFFICES ASSUME IInv, Done, NEW s \in Idx,
                        \A j \in Idx \ {s} : ~Comparable(s, j)
                 PROVE  order[s] = s
      BY DEF BystandersKeepPlace, Comparable
    <2>1. order[s] = s \/ Comparable(s, order[s])
      BY DEF IInv, LoopInv, PlaceInv
    <2>2. order[s] \in Idx
      BY DEF IInv, TypeOK
    <2> QED BY <2>1, <2>2
  <1> QED BY <1>1, Invariance, PTL

-----------------------------------------------------------------------------
(* The order of a group.                                                   *)

\* Plan b may stand behind plan a.
MayFollow(b, a) == IF priority = "quality" THEN SortsBefore(a, b) ELSE ~Precedes(b, a)

\* Groups for which the policy promises an order.
Sound(g) == priority \in {"quality", "fastest"} \/ (priority = "balanced" /\ Acyclic(g))

Sorted(S) == \A s, t \in S : s < t => MayFollow(order[t], order[s])

OrderInv ==
    /\ \A s \in slots : \A t \in group \ slots : s < t
    /\ Sound(group) => \A t \in group \ slots : \A x \in remaining : MayFollow(order[t], x)
    /\ Sound(group) => Sorted(group \ slots)
    /\ \A g \in Groups \ (todo \cup {group}) : Sound(g) => Sorted(g)

\* A non-empty set of naturals has a least element.
LEMMA LeastNat ==
    ASSUME NEW T \in SUBSET Nat, T # {}
    PROVE  \E x \in T : \A y \in T : x <= y
  <1>1. PICK x \in T : \A y \in T : ~(<<y, x>> \in OpToRel(<, Nat))
    BY NatLessThanWellFounded, WFMin
  <1>2. \A y \in T : ~(y < x)
    BY <1>1 DEF OpToRel
  <1> QED BY <1>2

\* Under Fastest some plan of any set of measured plans precedes none of the
\* others: the one whose range ends lowest.
LEMMA FastestHasFree ==
    ASSUME SpeedAssumption, TypeOK, priority = "fastest",
           NEW R \in SUBSET Idx, R # {}, \A i \in R : Eligible(i)
    PROVE  Free(R) # {}
  <1>1. ASSUME NEW i \in R
        PROVE  /\ evidence[i].speed.min \in Nat /\ evidence[i].speed.max \in Nat
               /\ evidence[i].speed.min <= evidence[i].speed.max
    <2>1. evidence[i] \in Evidence
      BY DEF TypeOK
    <2>2. evidence[i].speed # None
      BY DEF Eligible, CohortOf, Cohort
    <2> QED BY <2>1, <2>2 DEF SpeedAssumption
  <1> DEFINE T == {evidence[i].speed.max : i \in R}
  <1>2. T \in SUBSET Nat /\ T # {}
    BY <1>1
  <1>3. PICK m \in T : \A y \in T : m <= y
    BY <1>2, LeastNat
  <1>4. PICK x \in R : m = evidence[x].speed.max
    BY <1>3
  <1>5. ASSUME NEW y \in R \ {x} PROVE ~Precedes(x, y)
    <2>1. evidence[x].speed.max <= evidence[y].speed.max
      BY <1>3, <1>4
    <2>2. ~(evidence[x].speed.min > evidence[y].speed.max)
      BY <2>1, <1>1
    <2> QED BY <2>2 DEF Precedes, CompareSpeed, CompareBounds
  <1> QED BY <1>5 DEF Free

\* The plan picked for the last slot may stand behind every plan still unplaced.
LEMMA PickSound ==
    ASSUME SizeAssumption, SpeedAssumption, IInv, group # {}, Sound(group),
           NEW x \in remaining, Pick(x)
    PROVE  \A y \in remaining \ {x} : MayFollow(x, y)
  <1>1. CASE priority = "quality"
    BY <1>1 DEF Pick, PickQuality, MayFollow
  <1>2. CASE priority # "quality"
    <2>1. group \in Groups /\ remaining \subseteq group /\ group \subseteq Idx
      BY GroupMembers DEF IInv, LoopInv
    <2>2. Free(remaining) # {}
      <3>1. CASE priority = "fastest"
        <4>1. \A i \in remaining : Eligible(i)
          BY <2>1, GroupMembers DEF Comparable
        <4> QED BY <4>1, <3>1, <2>1, FastestHasFree DEF IInv
      <3>2. CASE priority = "balanced" /\ Acyclic(group)
        BY <3>2, <2>1 DEF Acyclic
      <3> QED BY <1>2, <3>1, <3>2 DEF Sound
    <2>3. x \in Free(remaining)
      BY <1>2, <2>2 DEF Pick, PickMeasured, IsLast
    <2> QED BY <1>2, <2>3 DEF Free, MayFollow
  <1> QED BY <1>1, <1>2

\* The relation and the promise do not change while the pool stays.
LEMMA OrderFrame ==
    ASSUME PoolUnchanged
    PROVE  /\ \A i, j \in Idx : MayFollow(i, j)' = MayFollow(i, j)
           /\ \A g \in SUBSET Idx : Sound(g)' = Sound(g)
  <1>1. \A i, j \in Idx : MayFollow(i, j)' = MayFollow(i, j)
    BY PoolFrame DEF MayFollow, PoolUnchanged
  <1>2. ASSUME NEW R \in SUBSET Idx PROVE Free(R)' = Free(R)
    BY PoolFrame DEF Free
  <1>3. ASSUME NEW g \in SUBSET Idx PROVE Acyclic(g)' = Acyclic(g)
    BY <1>2 DEF Acyclic
  <1>4. \A g \in SUBSET Idx : Sound(g)' = Sound(g)
    BY <1>3 DEF Sound, PoolUnchanged
  <1> QED BY <1>1, <1>4

\* One turn of the loop keeps the filled part of the group in order.
LEMMA OrderPlaceLast ==
    ASSUME SizeAssumption, SpeedAssumption, IInv, OrderInv, PlaceLast
    PROVE  OrderInv'
  <1> USE DEF IInv
  <1>1. PICK x \in remaining, s \in slots :
            /\ Pick(x) /\ IsLast(s, slots)
            /\ order' = [order EXCEPT ![s] = x]
            /\ remaining' = remaining \ {x}
            /\ slots' = slots \ {s}
    BY DEF PlaceLast
  <1>2. PoolUnchanged /\ group' = group /\ todo' = todo /\ group # {}
    BY DEF PlaceLast, PoolUnchanged
  <1>3. /\ Groups' = Groups /\ group \in Groups /\ x \in group /\ s \in group
        /\ group \subseteq Idx /\ slots \subseteq group /\ remaining \subseteq group
    BY <1>1, <1>2, PoolFrame, GroupMembers DEF LoopInv
  <1>4. /\ order \in [Idx -> Idx] /\ order' \in [Idx -> Idx] /\ order'[s] = x
        /\ \A r \in Idx \ {s} : order'[r] = order[r]
    BY <1>1, <1>3 DEF TypeOK
  <1>5. /\ \A i, j \in Idx : MayFollow(i, j)' = MayFollow(i, j)
        /\ \A g \in SUBSET Idx : Sound(g)' = Sound(g)
    BY <1>2, OrderFrame
  <1>6. group' \ slots' = (group \ slots) \cup {s}
    BY <1>1, <1>2, <1>3
  <1>7. \A r \in slots' : \A t \in group' \ slots' : r < t
    <2>1. \A r \in slots : r <= s /\ r \in Int /\ s \in Int
      BY <1>1, <1>3 DEF IsLast, Idx
    <2>2. \A r \in slots : \A t \in group \ slots : r < t
      BY DEF OrderInv
    <2> QED BY <2>1, <2>2, <1>1, <1>6
  <1>8. ASSUME Sound(group)'
        PROVE  /\ \A t \in group' \ slots' : \A y \in remaining' : MayFollow(order[t], y)'
               /\ \A r, t \in group' \ slots' : r < t => MayFollow(order[t], order[r])'
    <2>1. Sound(group)
      BY <1>2, <1>3, <1>5, <1>8
    <2>2. \A y \in remaining \ {x} : MayFollow(x, y)
      BY <1>1, <1>2, <2>1, PickSound
    <2>3. \A t \in group \ slots : \A y \in remaining : MayFollow(order[t], y)
      BY <2>1 DEF OrderInv
    <2>4. \A r, t \in group \ slots : r < t => MayFollow(order[t], order[r])
      BY <2>1 DEF OrderInv, Sorted
    <2>5. \A t \in group \ slots : s < t /\ order'[t] = order[t] /\ t \in Idx
      BY <1>3, <1>4 DEF OrderInv
    <2>6. \A t \in group' \ slots' : \A y \in remaining' : MayFollow(order[t], y)'
      BY <1>1, <1>3, <1>4, <1>5, <1>6, <2>2, <2>3, <2>5
    <2>7. ASSUME NEW r \in group' \ slots', NEW t \in group' \ slots', r < t
          PROVE  MayFollow(order[t], order[r])'
      <3>1. r \in Idx /\ t \in Idx /\ s \in Idx
        BY <1>3, <1>6
      <3>2. t # s
        BY <2>5, <2>7, <3>1, <1>6 DEF Idx
      <3>3. t \in group \ slots /\ order'[t] = order[t] /\ order[t] \in Idx
        BY <3>2, <1>6, <1>4, <3>1
      <3>4. CASE r = s
        <4>1. MayFollow(order[t], x)
          BY <2>3, <3>3
        <4> QED BY <4>1, <3>3, <3>4, <1>3, <1>4, <1>5
      <3>5. CASE r # s
        <4>1. r \in group \ slots /\ order'[r] = order[r] /\ order[r] \in Idx
          BY <3>5, <1>6, <1>4, <3>1
        <4>2. MayFollow(order[t], order[r])
          BY <4>1, <3>3, <2>4, <2>7
        <4> QED BY <4>1, <4>2, <3>3, <1>5
      <3> QED BY <3>4, <3>5
    <2> QED BY <2>6, <2>7
  <1>9. ASSUME NEW g \in Groups' \ (todo' \cup {group'}), Sound(g)'
        PROVE  \A r, t \in g : r < t => MayFollow(order[t], order[r])'
    <2>1. g \in Groups \ (todo \cup {group}) /\ g \subseteq Idx
      BY <1>2, <1>3, GroupMembers
    <2>2. s \notin g
      BY <2>1, <1>3, GroupsDisjoint
    <2>3. \A r, t \in g : r < t => MayFollow(order[t], order[r])
      BY <2>1, <1>5, <1>9 DEF OrderInv, Sorted
    <2> QED BY <2>1, <2>2, <2>3, <1>4, <1>5
  <1> QED BY <1>7, <1>8, <1>9 DEF OrderInv, Sorted

\* A step that places nothing and leaves no slot filled in an open group: groups
\* count as finished only when they were, or when nothing of them is open.
LEMMA OrderQuiet ==
    ASSUME SizeAssumption, IInv, OrderInv, PoolUnchanged, order' = order, group' = slots',
           \A g \in Groups \ (todo' \cup {group'}) :
               g \notin todo \cup {group} \/ (g = group /\ slots = {})
    PROVE  OrderInv'
  <1>1. /\ Groups' = Groups /\ order \in [Idx -> Idx]
        /\ \A g \in Groups : g \subseteq Idx
    BY PoolFrame, GroupMembers DEF IInv, TypeOK
  <1>2. /\ \A i, j \in Idx : MayFollow(i, j)' = MayFollow(i, j)
        /\ \A g \in SUBSET Idx : Sound(g)' = Sound(g)
    BY OrderFrame
  <1>3. ASSUME NEW g \in Groups' \ (todo' \cup {group'}), Sound(g)' PROVE Sorted(g)'
    <2>1. Sound(g) /\ g \subseteq Idx /\ g \in Groups
      BY <1>1, <1>2, <1>3
    <2>2. Sorted(g)
      <3>1. CASE g \notin todo \cup {group}
        BY <3>1, <2>1 DEF OrderInv
      <3>2. CASE g = group /\ slots = {}
        <4>1. group \ slots = g
          BY <3>2
        <4> QED BY <3>2, <2>1, <4>1 DEF OrderInv
      <3> QED BY <3>1, <3>2, <1>1, <1>3
    <2> QED BY <2>1, <2>2, <1>1, <1>2 DEF Sorted
  <1>4. group' \ slots' = {}
    OBVIOUS
  <1>5. Sorted(group \ slots)'
    BY <1>4 DEF Sorted
  <1> QED BY <1>3, <1>4, <1>5 DEF OrderInv

\* Every step keeps the filled part of every group in order.
LEMMA OrderNext ==
    ASSUME SizeAssumption, SpeedAssumption, IInv, OrderInv, [Next]_vars
    PROVE  OrderInv'
  <1>1. CASE PlaceLast
    BY <1>1, OrderPlaceLast
  <1>2. CASE TakeGroup
    <2>1. PICK g \in todo : todo' = todo \ {g} /\ group' = g /\ slots' = g
      BY <1>2 DEF TakeGroup
    <2>2. PoolUnchanged /\ order' = order /\ group = {} /\ {} \notin Groups
      BY <1>2, GroupMembers DEF TakeGroup, PoolUnchanged
    <2> QED BY <2>1, <2>2, OrderQuiet
  <1>3. CASE FinishGroup
    <2>1. slots = {} /\ slots' = {} /\ group' = {}
      BY <1>3, NothingOpen DEF FinishGroup
    <2>2. PoolUnchanged /\ order' = order /\ todo' = todo
      BY <1>3 DEF FinishGroup, PoolUnchanged
    <2> QED BY <2>1, <2>2, OrderQuiet
  <1>4. CASE Return
    <2>1. group = {} /\ group' = {} /\ slots' = {} /\ todo' = todo
      BY <1>4 DEF Return, IInv, LoopInv
    <2>2. PoolUnchanged /\ order' = order
      BY <1>4 DEF Return, PoolUnchanged
    <2> QED BY <2>1, <2>2, OrderQuiet
  <1>5. CASE Recompare
    <2>1. todo' = Groups' /\ group' = {} /\ slots' = {}
      BY <1>5 DEF Recompare, IInv, LoopInv, Done
    <2> QED BY <2>1 DEF OrderInv, Sorted
  <1>6. CASE UNCHANGED vars
    <2>1. PoolUnchanged /\ UNCHANGED <<todo, group, slots, remaining, order>>
      BY <1>6 DEF vars, PoolUnchanged
    <2>2. /\ Groups' = Groups /\ order \in [Idx -> Idx]
          /\ \A g \in Groups : g \subseteq Idx
          /\ group \subseteq Idx /\ remaining \subseteq Idx
      BY <2>1, PoolFrame, GroupMembers DEF IInv, TypeOK
    <2>3. /\ \A i, j \in Idx : MayFollow(i, j)' = MayFollow(i, j)
          /\ \A g \in SUBSET Idx : Sound(g)' = Sound(g)
      BY <2>1, OrderFrame
    <2>4. \A S \in SUBSET Idx : Sorted(S)' = Sorted(S)
      BY <2>1, <2>2, <2>3 DEF Sorted
    <2> QED BY <2>1, <2>2, <2>3, <2>4 DEF OrderInv
  <1> QED BY <1>1, <1>2, <1>3, <1>4, <1>5, <1>6 DEF Next, Policy

\* So the filled parts are in order in every reachable state.
LEMMA OrderInvariance == Spec => [](IInv /\ OrderInv)
  <1>1. Init => OrderInv
    BY DEF Init, OrderInv, Sorted
  <1>2. IInv /\ OrderInv /\ [Next]_vars => OrderInv'
    BY SizeAssumption, SpeedAssumption, OrderNext
  <1> QED BY <1>1, <1>2, Invariance, PTL DEF Spec

\* In a returned order every group for which the policy makes a promise is sorted.
LEMMA DoneSorted ==
    ASSUME IInv, OrderInv, Done, NEW g \in Groups, Sound(g) PROVE Sorted(g)
  <1>1. todo = {} /\ group = {} /\ {} \notin Groups
    BY SizeAssumption, GroupMembers DEF IInv, LoopInv
  <1> QED BY <1>1 DEF OrderInv

\* Fastest honours every demonstrable pair, for every pool; Balanced does for
\* every group whose pairs have no cycle.
THEOREM DemonstrablePairs == Spec => []PairsHonoured
  <1>1. IInv /\ OrderInv => PairsHonoured
    <2> SUFFICES ASSUME IInv, OrderInv, Done, NEW g \in Groups,
                        priority = "fastest" \/ (priority = "balanced" /\ Acyclic(g))
                 PROVE  Honoured(g)
      BY DEF PairsHonoured
    <2>1. Sorted(g) /\ priority # "quality"
      BY DoneSorted DEF Sound
    <2> QED BY <2>1 DEF Sorted, MayFollow, Honoured
  <1> QED BY <1>1, OrderInvariance, PTL

\* Quality ends in descending order of the metric, ties in base order.
THEOREM QualityOrder == Spec => []QualitySorted
  <1>1. IInv /\ OrderInv => QualitySorted
    <2> SUFFICES ASSUME IInv, OrderInv, Done, priority = "quality", NEW g \in Groups,
                        NEW s \in g, NEW t \in g, s < t
                 PROVE  SortsBefore(order[s], order[t])
      BY DEF QualitySorted
    <2>1. Sorted(g)
      BY DoneSorted DEF Sound
    <2> QED BY <2>1 DEF Sorted, MayFollow
  <1> QED BY <1>1, OrderInvariance, PTL

\* The policy only reorders: a permutation of the pool, inside the strata, around the
\* plans without comparable company.
THEOREM StrataRespected == Spec => []OrderRespectsStrata
  <1>1. NoPlanLostOrRepeated /\ StrataNeverCrossed /\ BystandersKeepPlace => OrderRespectsStrata
    BY DEF OrderRespectsStrata
  <1> QED BY <1>1, OrderIsPermutation, NoStratumCrossed, BystandersUnmoved, PTL

\* Demonstrable pairs and measured quality decide within every group, for every pool.
THEOREM EvidenceFollowed == Spec => []OrderFollowsEvidence
  <1>1. PairsHonoured /\ QualitySorted => OrderFollowsEvidence
    BY DEF OrderFollowsEvidence
  <1> QED BY <1>1, DemonstrablePairs, QualityOrder, PTL

-----------------------------------------------------------------------------
(* Moves need a demonstration.                                             *)

\* No pair of the group is demonstrably ordered.
Quiet(g) == \A a, b \in g : ~Precedes(a, b)

\* In such a group every slot that is filled holds its own plan.
QuietInv ==
    priority # "quality" =>
        /\ Quiet(group) => slots = remaining /\ \A s \in group \ slots : order[s] = s
        /\ \A g \in Groups \ (todo \cup {group}) : Quiet(g) => \A s \in g : order[s] = s

LEMMA QuietFrame ==
    ASSUME PoolUnchanged
    PROVE  \A g \in SUBSET Idx : Quiet(g)' = Quiet(g)
  BY PoolFrame DEF Quiet

\* One turn of the loop fills the last open slot of such a group with its own plan.
LEMMA QuietPlaceLast ==
    ASSUME SizeAssumption, IInv, QuietInv, PlaceLast
    PROVE  QuietInv'
  <1> USE DEF IInv
  <1>1. PICK x \in remaining, s \in slots :
            /\ Pick(x) /\ IsLast(s, slots)
            /\ order' = [order EXCEPT ![s] = x]
            /\ remaining' = remaining \ {x}
            /\ slots' = slots \ {s}
    BY DEF PlaceLast
  <1>2. PoolUnchanged /\ group' = group /\ todo' = todo /\ group # {} /\ priority' = priority
    BY DEF PlaceLast, PoolUnchanged
  <1>3. /\ Groups' = Groups /\ group \in Groups /\ x \in group /\ s \in group
        /\ group \subseteq Idx /\ slots \subseteq group /\ remaining \subseteq group
    BY <1>1, <1>2, PoolFrame, GroupMembers DEF LoopInv
  <1>4. /\ order \in [Idx -> Idx] /\ order'[s] = x
        /\ \A r \in Idx \ {s} : order'[r] = order[r]
    BY <1>1, <1>3 DEF TypeOK
  <1>5. \A g \in SUBSET Idx : Quiet(g)' = Quiet(g)
    BY <1>2, QuietFrame
  <1>6. ASSUME priority # "quality", Quiet(group)
        PROVE  slots' = remaining' /\ \A r \in group \ slots' : order'[r] = r
    <2>1. slots = remaining /\ \A r \in group \ slots : order[r] = r
      BY <1>6 DEF QuietInv
    <2>2. Free(remaining) = remaining
      BY <1>3, <1>6 DEF Free, Quiet
    <2>3. IsLast(x, remaining)
      BY <1>1, <1>6, <2>2 DEF Pick, PickMeasured
    <2>4. x = s
      <3>1. x <= s /\ s <= x /\ x \in Int /\ s \in Int
        BY <1>1, <1>3, <2>1, <2>3 DEF IsLast, Idx
      <3> QED BY <3>1
    <2> QED BY <1>1, <1>3, <1>4, <2>1, <2>4
  <1>7. ASSUME NEW g \in Groups \ (todo \cup {group}), priority # "quality", Quiet(g)
        PROVE  \A r \in g : order'[r] = r
    <2>1. g \subseteq Idx /\ s \notin g
      BY <1>3, <1>7, GroupMembers, GroupsDisjoint
    <2> QED BY <1>4, <1>7, <2>1 DEF QuietInv
  <1>8. \A g \in Groups : g \subseteq Idx
    BY GroupMembers
  <1> QED BY <1>2, <1>3, <1>5, <1>6, <1>7, <1>8 DEF QuietInv

\* A step that places nothing, and finishes no group but one whose slots are filled.
LEMMA QuietQuiet ==
    ASSUME SizeAssumption, IInv, QuietInv, PoolUnchanged, order' = order,
           group' = slots', slots' = remaining',
           \A g \in Groups \ (todo' \cup {group'}) :
               g \notin todo \cup {group} \/ (g = group /\ slots = {})
    PROVE  QuietInv'
  <1>1. Groups' = Groups /\ \A g \in Groups : g \subseteq Idx
    BY PoolFrame, GroupMembers
  <1>2. \A g \in SUBSET Idx : Quiet(g)' = Quiet(g)
    BY QuietFrame
  <1>3. ASSUME NEW g \in Groups \ (todo' \cup {group'}), priority # "quality", Quiet(g)
        PROVE  \A s \in g : order[s] = s
    <2>1. CASE g \notin todo \cup {group}
      BY <1>3, <2>1 DEF QuietInv
    <2>2. CASE g = group /\ slots = {}
      BY <1>3, <2>2 DEF QuietInv
    <2> QED BY <1>3, <2>1, <2>2
  <1>4. priority' = priority /\ group' \ slots' = {}
    BY DEF PoolUnchanged
  <1> QED BY <1>1, <1>2, <1>3, <1>4 DEF QuietInv

LEMMA QuietNext ==
    ASSUME SizeAssumption, IInv, QuietInv, [Next]_vars
    PROVE  QuietInv'
  <1>1. CASE PlaceLast
    BY <1>1, QuietPlaceLast
  <1>2. CASE TakeGroup
    <2>1. PICK g \in todo : todo' = todo \ {g} /\ group' = g /\ slots' = g /\ remaining' = g
      BY <1>2 DEF TakeGroup
    <2>2. PoolUnchanged /\ order' = order /\ group = {} /\ {} \notin Groups
      BY <1>2, GroupMembers DEF TakeGroup, PoolUnchanged
    <2> QED BY <2>1, <2>2, QuietQuiet
  <1>3. CASE FinishGroup
    <2>1. slots = {} /\ slots' = {} /\ group' = {} /\ remaining' = {}
      BY <1>3, NothingOpen DEF FinishGroup
    <2>2. PoolUnchanged /\ order' = order /\ todo' = todo
      BY <1>3 DEF FinishGroup, PoolUnchanged
    <2> QED BY <2>1, <2>2, QuietQuiet
  <1>4. CASE Return
    <2>1. group = {} /\ group' = {} /\ slots' = {} /\ remaining' = {} /\ todo' = todo
      BY <1>4 DEF Return, IInv, LoopInv
    <2>2. PoolUnchanged /\ order' = order
      BY <1>4 DEF Return, PoolUnchanged
    <2> QED BY <2>1, <2>2, QuietQuiet
  <1>5. CASE Recompare
    <2>1. todo' = Groups' /\ group' = {} /\ slots' = {} /\ remaining' = {}
      BY <1>5 DEF Recompare, IInv, LoopInv, Done
    <2> QED BY <2>1 DEF QuietInv
  <1>6. CASE UNCHANGED vars
    <2>1. PoolUnchanged /\ UNCHANGED <<priority, todo, group, slots, remaining, order>>
      BY <1>6 DEF vars, PoolUnchanged
    <2>2. Groups' = Groups /\ (\A g \in Groups : g \subseteq Idx) /\ group \subseteq Idx
      BY <2>1, PoolFrame, GroupMembers DEF IInv, TypeOK
    <2>3. \A g \in SUBSET Idx : Quiet(g)' = Quiet(g)
      BY <2>1, QuietFrame
    <2> QED BY <2>1, <2>2, <2>3 DEF QuietInv
  <1> QED BY <1>1, <1>2, <1>3, <1>4, <1>5, <1>6 DEF Next, Policy

\* Overlapping ranges, chained or not, never move a plan: a group without a demonstrable
\* pair keeps the base order, for every pool.
THEOREM NoMoveWithoutDemonstration == Spec => []MovesNeedDemonstration
  <1>1. Init => QuietInv
    BY DEF Init, QuietInv
  <1>2. IInv /\ QuietInv /\ [Next]_vars => QuietInv'
    BY SizeAssumption, QuietNext
  <1>3. IInv /\ QuietInv => MovesNeedDemonstration
    <2> SUFFICES ASSUME IInv, QuietInv, Done, priority # "quality", NEW g \in Groups,
                        Quiet(g), NEW s \in g
                 PROVE  order[s] = s
      BY DEF MovesNeedDemonstration, Quiet
    <2>1. todo = {} /\ group = {} /\ {} \notin Groups
      BY SizeAssumption, GroupMembers DEF IInv, LoopInv
    <2> QED BY <2>1 DEF QuietInv
  <1> QED BY <1>1, <1>2, <1>3, Invariance, PTL DEF Spec

-----------------------------------------------------------------------------
(* The order is a function of the pool and its evidence.                   *)

\* The pairs of plans whose order the policy takes from the evidence.
Pairs == {p \in Idx \X Idx : IF priority = "quality" THEN SortsBefore(p[1], p[2])
                                                   ELSE Precedes(p[1], p[2])}

\* The same policy over the evidence that Search saw.
Seen == INSTANCE MeasuredPolicy WITH evidence <- saved

SeenPairs == {p \in Idx \X Idx : IF priority = "quality" THEN Seen!SortsBefore(p[1], p[2])
                                                       ELSE Seen!Precedes(p[1], p[2])}

\* The plans of R that come before no other plan of R.
FreeIn(P, R) == {x \in R : \A y \in R \ {x} : <<x, y>> \notin P}

\* The plan the policy takes out of R for the last open slot.
Chosen(pr, P, x, R) ==
    IF pr = "quality" THEN x \in R /\ \A y \in R \ {x} : <<y, x>> \in P
    ELSE IF FreeIn(P, R) # {} THEN IsLast(x, FreeIn(P, R)) ELSE IsLast(x, R)

\* The plans of R and those that o holds at the slots of S up to s.
UpTo(o, S, R, s) == {i \in Idx : i \in R \/ \E t \in S : t <= s /\ o[t] = i}

\* o is what the policy makes of the groups G with the pairs P.
Built(pr, G, P, o) ==
    /\ o \in [Idx -> Idx]
    /\ \A s, t \in Idx : o[s] = o[t] => s = t
    /\ \A s \in Idx : (\A g \in G : s \notin g) => o[s] = s
    /\ \A g \in G : /\ \A s \in g : o[s] \in g
                    /\ \A i \in g : \E s \in g : o[s] = i
                    /\ \A s \in g : Chosen(pr, P, o[s], UpTo(o, g, {}, s))

\* Every filled slot holds what the policy chose out of the plans then unplaced.
ChoiceInv ==
    /\ \A s \in group \ slots : Chosen(priority, Pairs, order[s], UpTo(order, group \ slots, remaining, s))
    /\ \A g \in Groups \ (todo \cup {group}) :
          \A s \in g : Chosen(priority, Pairs, order[s], UpTo(order, g, {}, s))

\* What Search showed was built from the evidence it saw.
SeenInv ==
    /\ phase = "active" => saved = evidence
    /\ phase # "active" => Built(priority, Seen!Groups, SeenPairs, shown)

\* A set of positions that is not empty has a last one.
LEMMA LastPosition ==
    ASSUME SizeAssumption, NEW S \in SUBSET Idx, S # {}
    PROVE  \E s \in S : IsLast(s, S)
  <1> DEFINE T == {N - s : s \in S}
  <1>1. T \in SUBSET Nat /\ T # {}
    <2>1. \A s \in S : N - s \in Nat
      BY DEF Idx, SizeAssumption
    <2> QED BY <2>1
  <1>2. PICK m \in T : \A y \in T : m <= y
    BY <1>1, LeastNat
  <1>3. PICK s \in S : m = N - s
    BY <1>2
  <1>4. \A y \in S : y <= s
    <2>1. \A y \in S : N - s <= N - y /\ y \in Int
      BY <1>2, <1>3 DEF Idx
    <2> QED BY <2>1 DEF Idx, SizeAssumption
  <1> QED BY <1>4 DEF IsLast

\* At most one plan is chosen.
LEMMA ChosenOnce ==
    ASSUME NEW P, NEW R \in SUBSET Idx, NEW x \in Idx, NEW y \in Idx,
           Chosen(priority, P, x, R), Chosen(priority, P, y, R),
           priority = "quality" => \A a, b \in R : ~(<<a, b>> \in P /\ <<b, a>> \in P)
    PROVE  x = y
  <1>1. CASE priority = "quality"
    BY <1>1 DEF Chosen
  <1>2. CASE priority # "quality"
    <2>1. \E S \in SUBSET Idx : IsLast(x, S) /\ IsLast(y, S)
      <3>1. FreeIn(P, R) \in SUBSET Idx
        BY DEF FreeIn
      <3> QED BY <1>2, <3>1 DEF Chosen
    <2>2. x <= y /\ y <= x
      BY <2>1 DEF IsLast
    <2> QED BY <2>2 DEF Idx
  <1> QED BY <1>1, <1>2

\* Two orders built from the same groups and pairs are the same order.
LEMMA BuiltOnce ==
    ASSUME SizeAssumption, NEW G, \A g \in G : g \subseteq Idx, NEW P, NEW o, NEW p,
           Built(priority, G, P, o), Built(priority, G, P, p),
           priority = "quality" =>
               \A g \in G : \A a, b \in g : ~(<<a, b>> \in P /\ <<b, a>> \in P)
    PROVE  o = p
  <1>0. o \in [Idx -> Idx] /\ p \in [Idx -> Idx]
    BY DEF Built
  <1> DEFINE D == {s \in Idx : o[s] # p[s]}
  <1>1. SUFFICES ASSUME D # {} PROVE FALSE
    BY <1>0
  <1>2. PICK s \in D : IsLast(s, D)
    BY <1>1, LastPosition
  <1>3. \A t \in Idx : ~(t <= s) => o[t] = p[t]
    BY <1>2 DEF IsLast
  <1>4. PICK g \in G : s \in g
    BY <1>2 DEF Built
  <1>5. /\ g \subseteq Idx
        /\ \A t \in g : o[t] \in g /\ p[t] \in g
        /\ \A i \in g : (\E t \in g : o[t] = i) /\ (\E t \in g : p[t] = i)
        /\ \A t, u \in g : (o[t] = o[u] => t = u) /\ (p[t] = p[u] => t = u)
    BY <1>4 DEF Built
  <1>5a. \A t, u \in g : (o[t] = o[u] => t = u) /\ (p[t] = p[u] => t = u)
    BY <1>5
  <1>6. UpTo(o, g, {}, s) = UpTo(p, g, {}, s)
    <2>1. ASSUME NEW i \in Idx, NEW t \in g, t <= s, o[t] = i PROVE \E u \in g : u <= s /\ p[u] = i
      <3>1. i \in g
        BY <1>5, <2>1
      <3>2. PICK u \in g : p[u] = i
        BY <1>5, <3>1
      <3>3. ASSUME ~(u <= s) PROVE FALSE
        <4>0. o[u] = p[u]
          BY <1>3, <1>5, <3>2, <3>3
        <4>1. o[u] = o[t]
          BY <2>1, <3>2, <4>0
        <4>2. u = t
          BY <1>5a, <4>1
        <4> QED BY <2>1, <3>3, <4>2
      <3> QED BY <3>2, <3>3
    <2>2. ASSUME NEW i \in Idx, NEW t \in g, t <= s, p[t] = i PROVE \E u \in g : u <= s /\ o[u] = i
      <3>1. i \in g
        BY <1>5, <2>2
      <3>2. PICK u \in g : o[u] = i
        BY <1>5, <3>1
      <3>3. ASSUME ~(u <= s) PROVE FALSE
        <4>0. p[u] = o[u]
          BY <1>3, <1>5, <3>2, <3>3
        <4>1. p[u] = p[t]
          BY <2>2, <3>2, <4>0
        <4>2. u = t
          BY <1>5a, <4>1
        <4> QED BY <2>2, <3>3, <4>2
      <3> QED BY <3>2, <3>3
    <2> QED BY <2>1, <2>2 DEF UpTo
  <1>7. UpTo(o, g, {}, s) \in SUBSET Idx /\ UpTo(o, g, {}, s) \subseteq g
    BY <1>5 DEF UpTo
  <1>8. Chosen(priority, P, o[s], UpTo(o, g, {}, s)) /\ Chosen(priority, P, p[s], UpTo(p, g, {}, s))
    BY <1>4 DEF Built
  <1>9. o[s] = p[s]
    <2>1. o[s] \in Idx /\ p[s] \in Idx
      BY <1>0, <1>2
    <2>2. priority = "quality" =>
             \A a, b \in UpTo(o, g, {}, s) : ~(<<a, b>> \in P /\ <<b, a>> \in P)
      BY <1>4, <1>7
    <2> HIDE DEF D
    <2> QED BY <1>6, <1>7, <1>8, <2>1, <2>2, ChosenOnce
  <1> QED BY <1>2, <1>9

\* No plan of a group both precedes and follows another in the sort.
LEMMA SortIsStrict ==
    ASSUME TypeOK, QualityAssumption, priority = "quality", NEW g \in Groups,
           NEW a \in g, NEW b \in g
    PROVE  ~(<<a, b>> \in Pairs /\ <<b, a>> \in Pairs)
  <1>1. /\ a \in Idx /\ b \in Idx /\ Eligible(a) /\ Eligible(b)
    BY SizeAssumption, GroupMembers DEF Comparable
  <1>2. evidence[a].quality.correct \in Nat /\ evidence[b].quality.correct \in Nat
    BY <1>1 DEF TypeOK, QualityAssumption, Eligible, CohortOf, Cohort
  <1>3. <<a, b>> \in Pairs /\ <<b, a>> \in Pairs => SortsBefore(a, b) /\ SortsBefore(b, a)
    BY DEF Pairs
  <1> QED BY <1>1, <1>2, <1>3 DEF SortsBefore, Idx

\* While the pool and its evidence stay, so do the pairs.
LEMMA PairsFrame ==
    ASSUME PoolUnchanged PROVE Pairs' = Pairs
  BY PoolFrame DEF Pairs, PoolUnchanged

\* The policy fills a slot with the plan that is chosen out of the unplaced ones.
LEMMA PickIsChosen ==
    ASSUME NEW x \in remaining, remaining \subseteq Idx, Pick(x)
    PROVE  Chosen(priority, Pairs, x, remaining)
  <1>1. CASE priority = "quality"
    BY <1>1 DEF Pick, PickQuality, Chosen, Pairs
  <1>2. CASE priority # "quality"
    <2>1. \A a, b \in remaining : <<a, b>> \in Pairs <=> Precedes(a, b)
      BY <1>2 DEF Pairs
    <2>2. FreeIn(Pairs, remaining) = Free(remaining)
      BY <2>1 DEF FreeIn, Free
    <2> QED BY <1>2, <2>2 DEF Pick, PickMeasured, Chosen
  <1> QED BY <1>1, <1>2

\* One turn of the loop: the plans that were unplaced are those unplaced now and the one
\* just placed, which every later slot already counted.
LEMMA ChoicePlaceLast ==
    ASSUME SizeAssumption, IInv, OrderInv, ChoiceInv, PlaceLast
    PROVE  ChoiceInv'
  <1> USE DEF IInv
  <1>1. PICK x \in remaining, s \in slots :
            /\ Pick(x) /\ IsLast(s, slots)
            /\ order' = [order EXCEPT ![s] = x]
            /\ remaining' = remaining \ {x}
            /\ slots' = slots \ {s}
    BY DEF PlaceLast
  <1>2. PoolUnchanged /\ group' = group /\ todo' = todo /\ group # {} /\ priority' = priority
    BY DEF PlaceLast, PoolUnchanged
  <1>3. /\ Groups' = Groups /\ group \in Groups /\ x \in group /\ s \in group
        /\ group \subseteq Idx /\ slots \subseteq group /\ remaining \subseteq group
        /\ Pairs' = Pairs
    BY <1>1, <1>2, PoolFrame, PairsFrame, GroupMembers DEF LoopInv
  <1>4. /\ order \in [Idx -> Idx] /\ order'[s] = x
        /\ \A r \in Idx \ {s} : order'[r] = order[r]
    BY <1>1, <1>3 DEF TypeOK
  <1>5. group' \ slots' = (group \ slots) \cup {s}
    BY <1>1, <1>2, <1>3
  <1>6. \A t \in group \ slots : s < t /\ ~(t <= s) /\ t # s /\ order'[t] = order[t] /\ s <= t
    <2>1. \A t \in group \ slots : s < t /\ s \in Int /\ t \in Int
      BY <1>1, <1>3 DEF OrderInv, Idx
    <2>2. \A t \in group \ slots : t # s /\ t \in Idx
      BY <1>1, <1>3
    <2> QED BY <1>4, <2>1, <2>2
  <1>7. Chosen(priority, Pairs, order'[s], UpTo(order', group' \ slots', remaining', s))
    <2>1. s <= s
      BY <1>3 DEF Idx
    <2>2. UpTo(order', group' \ slots', remaining', s) = remaining
      BY <1>1, <1>3, <1>4, <1>5, <1>6, <2>1 DEF UpTo
    <2>3. Chosen(priority, Pairs, x, remaining)
      BY <1>1, <1>3, PickIsChosen
    <2> QED BY <1>4, <2>2, <2>3
  <1>8. ASSUME NEW r \in group \ slots
        PROVE  Chosen(priority, Pairs, order'[r], UpTo(order', group' \ slots', remaining', r))
    <2>1. UpTo(order', group' \ slots', remaining', r) = UpTo(order, group \ slots, remaining, r)
      BY <1>1, <1>3, <1>4, <1>5, <1>6, <1>8 DEF UpTo
    <2>2. Chosen(priority, Pairs, order[r], UpTo(order, group \ slots, remaining, r))
      BY DEF ChoiceInv
    <2> QED BY <1>6, <2>1, <2>2
  <1>9. ASSUME NEW g \in Groups \ (todo \cup {group}), NEW r \in g
        PROVE  Chosen(priority, Pairs, order'[r], UpTo(order', g, {}, r))
    <2>1. g \subseteq Idx /\ s \notin g
      BY <1>3, GroupMembers, GroupsDisjoint
    <2>2. \A t \in g : order'[t] = order[t]
      BY <1>4, <2>1
    <2>3. UpTo(order', g, {}, r) = UpTo(order, g, {}, r)
      BY <2>2 DEF UpTo
    <2>4. Chosen(priority, Pairs, order[r], UpTo(order, g, {}, r))
      BY DEF ChoiceInv
    <2> QED BY <2>2, <2>3, <2>4
  <1>10. \A r \in group' \ slots' : Chosen(priority, Pairs, order[r], UpTo(order, group \ slots, remaining, r))'
    BY <1>2, <1>3, <1>5, <1>7, <1>8
  <1>11. \A g \in Groups' \ (todo' \cup {group'}) :
            \A r \in g : Chosen(priority, Pairs, order[r], UpTo(order, g, {}, r))'
    BY <1>2, <1>3, <1>9
  <1> QED BY <1>10, <1>11 DEF ChoiceInv

LEMMA ChoiceQuiet ==
    ASSUME SizeAssumption, IInv, ChoiceInv, PoolUnchanged, order' = order, group' = slots',
           \A g \in Groups \ (todo' \cup {group'}) :
               g \notin todo \cup {group} \/ (g = group /\ slots = {} /\ remaining = {})
    PROVE  ChoiceInv'
  <1>1. Groups' = Groups /\ Pairs' = Pairs /\ priority' = priority /\ group' \ slots' = {}
    BY PoolFrame, PairsFrame DEF PoolUnchanged
  <1>2. ASSUME NEW g \in Groups \ (todo' \cup {group'}), NEW s \in g
        PROVE  Chosen(priority, Pairs, order[s], UpTo(order, g, {}, s))
    <2>1. CASE g \notin todo \cup {group}
      BY <1>2, <2>1 DEF ChoiceInv
    <2>2. CASE g = group /\ slots = {} /\ remaining = {}
      <3>1. group \ slots = g /\ remaining = {}
        BY <2>2
      <3> QED BY <3>1 DEF ChoiceInv
    <2> QED BY <1>2, <2>1, <2>2
  <1> QED BY <1>1, <1>2 DEF ChoiceInv

LEMMA ChoiceNext ==
    ASSUME SizeAssumption, IInv, OrderInv, ChoiceInv, [Next]_vars
    PROVE  ChoiceInv'
  <1>1. CASE PlaceLast
    BY <1>1, ChoicePlaceLast
  <1>2. CASE TakeGroup
    <2>1. PICK g \in todo : todo' = todo \ {g} /\ group' = g /\ slots' = g
      BY <1>2 DEF TakeGroup
    <2>2. PoolUnchanged /\ order' = order /\ group = {} /\ {} \notin Groups
      BY <1>2, GroupMembers DEF TakeGroup, PoolUnchanged
    <2> QED BY <2>1, <2>2, ChoiceQuiet
  <1>3. CASE FinishGroup
    <2>1. slots = {} /\ remaining = {} /\ slots' = {} /\ group' = {}
      BY <1>3, NothingOpen DEF FinishGroup
    <2>2. PoolUnchanged /\ order' = order /\ todo' = todo
      BY <1>3 DEF FinishGroup, PoolUnchanged
    <2> QED BY <2>1, <2>2, ChoiceQuiet
  <1>4. CASE Return
    <2>1. group = {} /\ group' = {} /\ slots' = {} /\ todo' = todo
      BY <1>4 DEF Return, IInv, LoopInv
    <2>2. PoolUnchanged /\ order' = order
      BY <1>4 DEF Return, PoolUnchanged
    <2> QED BY <2>1, <2>2, ChoiceQuiet
  <1>5. CASE Recompare
    <2>1. todo' = Groups' /\ group' = {} /\ slots' = {}
      BY <1>5 DEF Recompare, IInv, LoopInv, Done
    <2> QED BY <2>1 DEF ChoiceInv
  <1>6. CASE UNCHANGED vars
    <2>1. PoolUnchanged /\ UNCHANGED <<priority, todo, group, slots, remaining, order>>
      BY <1>6 DEF vars, PoolUnchanged
    <2>2. Groups' = Groups /\ Pairs' = Pairs
      BY <2>1, PoolFrame, PairsFrame
    <2> QED BY <2>1, <2>2 DEF ChoiceInv
  <1> QED BY <1>1, <1>2, <1>3, <1>4, <1>5, <1>6 DEF Next, Policy

\* When no group is left the order is the one built from the evidence in force.
LEMMA BuiltWhenThrough ==
    ASSUME SizeAssumption, IInv, ChoiceInv, group = {}, todo = {}
    PROVE  Built(priority, Groups, Pairs, order)
  <1> USE DEF IInv
  <1>1. slots = {} /\ remaining = {} /\ {} \notin Groups /\ order \in [Idx -> Idx]
    BY GroupMembers DEF LoopInv, TypeOK
  <1>2. \A s, t \in Idx : order[s] = order[t] => s = t
    BY <1>1 DEF PlacedInv
  <1>3. \A s \in Idx : order[s] = s \/ Comparable(s, order[s])
    BY <1>1 DEF PlaceInv
  <1>4. ASSUME NEW s \in Idx, \A g \in Groups : s \notin g PROVE order[s] = s
    <2>1. SUFFICES ASSUME order[s] # s PROVE FALSE
      OBVIOUS
    <2>2. Comparable(s, order[s]) /\ order[s] \in Idx
      BY <1>1, <1>3, <2>1
    <2>3. s \in GroupOf(s) /\ order[s] \in GroupOf(s) /\ Eligible(s)
      BY <2>2, SameRunRefl DEF Comparable, GroupOf
    <2>4. GroupOf(s) \in Groups
      BY <2>1, <2>3 DEF Groups
    <2> QED BY <1>4, <2>3, <2>4
  <1>5. ASSUME NEW g \in Groups
        PROVE  /\ \A s \in g : order[s] \in g
               /\ \A i \in g : \E s \in g : order[s] = i
               /\ \A s \in g : Chosen(priority, Pairs, order[s], UpTo(order, g, {}, s))
    <2>1. g \subseteq Idx /\ \A i \in g : \A j \in Idx : j \in g <=> Comparable(i, j)
      BY GroupMembers
    <2>2. \A s \in g : order[s] \in g
      BY <1>1, <1>3, <2>1
    <2>3. ASSUME NEW i \in g PROVE \E s \in g : order[s] = i
      <3>1. PICK s \in Idx : order[s] = i
        BY <1>1, <2>1 DEF PlacedInv
      <3>2. CASE s = i
        BY <3>1, <3>2
      <3>3. CASE Comparable(s, i)
        <4>1. Comparable(i, s)
          BY <2>1, <3>3, SameRunSym DEF Comparable
        <4> QED BY <2>1, <3>1, <4>1
      <3> QED BY <1>3, <3>1, <3>2, <3>3
    <2>4. \A s \in g : Chosen(priority, Pairs, order[s], UpTo(order, g, {}, s))
      BY <1>1 DEF ChoiceInv
    <2> QED BY <2>2, <2>3, <2>4
  <1> QED BY <1>1, <1>2, <1>4, <1>5 DEF Built

\* The policy over the evidence that Search saw is the policy in force when they agree.
LEMMA SeenIsNow ==
    ASSUME saved = evidence
    PROVE  Seen!Groups = Groups /\ SeenPairs = Pairs
  <1>1. Seen!Groups = Groups
    BY DEF Seen!Groups, Groups, Seen!GroupOf, GroupOf, Seen!Eligible, Eligible, Seen!CohortOf,
           CohortOf, Seen!SameRun, SameRun, Seen!Cohort, Cohort, Seen!Idx, Idx
  <1>2. SeenPairs = Pairs
    BY DEF SeenPairs, Pairs, Seen!SortsBefore, SortsBefore, Seen!Precedes, Precedes,
           Seen!CompareSpeed, CompareSpeed, Seen!CompareQuality, CompareQuality,
           Seen!CompareBounds, CompareBounds
  <1> QED BY <1>1, <1>2

LEMMA SeenFrame ==
    ASSUME UNCHANGED <<priority, stratum, saved>>
    PROVE  UNCHANGED <<Seen!Groups, SeenPairs>>
  <1>1. UNCHANGED Seen!Groups
    BY DEF Seen!Groups, Seen!GroupOf, Seen!Eligible, Seen!CohortOf, Seen!SameRun, Seen!Cohort,
           Seen!Idx
  <1>2. UNCHANGED SeenPairs
    BY DEF SeenPairs, Seen!SortsBefore, Seen!Precedes, Seen!CompareSpeed, Seen!CompareQuality,
           Seen!CompareBounds
  <1> QED BY <1>1, <1>2

LEMMA SeenNext ==
    ASSUME SizeAssumption, IInv, ChoiceInv, SeenInv, [Next]_vars
    PROVE  SeenInv'
  <1>1. UNCHANGED <<priority, stratum, saved>>
    BY DEF Next, Policy, TakeGroup, PlaceLast, FinishGroup, Return, Recompare, vars
  <1>2. CASE Return /\ phase = "active"
    <2>1. group = {} /\ todo = {} /\ saved = evidence /\ shown' = order /\ phase' = "idle"
      BY <1>2 DEF Return, SeenInv
    <2>2. Built(priority, Seen!Groups, SeenPairs, order)
      BY <2>1, BuiltWhenThrough, SeenIsNow
    <2> QED BY <1>1, <2>1, <2>2, SeenFrame DEF SeenInv
  <1>3. CASE ~(Return /\ phase = "active")
    <2>1. /\ shown' = shown
          /\ phase' = "active" => phase = "active" /\ evidence' = evidence
          /\ phase = "active" => phase' = "active"
      BY <1>3 DEF Next, Policy, TakeGroup, PlaceLast, FinishGroup, Return, Recompare, vars
    <2> QED BY <1>1, <2>1, SeenFrame DEF SeenInv
  <1> QED BY <1>2, <1>3

\* What Recompare proposes depends on the pool and the stored evidence alone: with the
\* evidence Search saw, the proposal is the order Search showed, whatever came between.
THEOREM ProposalIsAFunction == Spec => []ProposalIsNotPathDependent
  <1>1. Init => ChoiceInv /\ SeenInv
    BY DEF Init, ChoiceInv, SeenInv
  <1>2. IInv /\ OrderInv /\ ChoiceInv /\ SeenInv /\ [Next]_vars => ChoiceInv' /\ SeenInv'
    BY SizeAssumption, ChoiceNext, SeenNext
  <1>3. IInv /\ ChoiceInv /\ SeenInv => ProposalIsNotPathDependent
    <2> SUFFICES ASSUME IInv, ChoiceInv, SeenInv, Done, evidence = saved PROVE order = shown
      BY DEF ProposalIsNotPathDependent
    <2>1. Built(priority, Groups, Pairs, order)
      BY SizeAssumption, BuiltWhenThrough DEF IInv, LoopInv
    <2>2. Built(priority, Groups, Pairs, shown)
      BY SeenIsNow DEF SeenInv, Done
    <2>3. \A g \in Groups : g \subseteq Idx
      BY SizeAssumption, GroupMembers
    <2>4. priority = "quality" =>
             \A g \in Groups : \A a, b \in g : ~(<<a, b>> \in Pairs /\ <<b, a>> \in Pairs)
      BY QualityAssumption, SortIsStrict DEF IInv
    <2> QED BY SizeAssumption, <2>1, <2>2, <2>3, <2>4, BuiltOnce
  <1> QED BY <1>1, <1>2, <1>3, OrderInvariance, PTL DEF Spec
=============================================================================
