------------------------ MODULE SessionStore_proofs -------------------------
(***************************************************************************)
(* The ceilings of the session store, proved for every value of them, every  *)
(* set of users and every lifetime.                                          *)
(***************************************************************************)
EXTENDS SessionStore, FiniteSetTheorems, TLAPS

Others(u, set) == {s \in set : s.sub # u}

\* The inductive invariant.  What u displaced and what the others still hold never
\* exceed the store together: a displaced session made room for one of u's own.
Counted == \A u \in Subjects : displaced[u] + Cardinality(Others(u, sessions)) <= MaxSessions
StoreInv == TypeOK /\ IsFiniteSet(sessions) /\ Capped /\ CannotSignOutOthers /\ Counted

\* A set of sessions is a subject's and the others'.
LEMMA Split ==
    ASSUME NEW set, IsFiniteSet(set), NEW u
    PROVE  /\ IsFiniteSet(Of(u, set)) /\ IsFiniteSet(Others(u, set))
           /\ Cardinality(Of(u, set)) \in Nat /\ Cardinality(Others(u, set)) \in Nat
           /\ Cardinality(set) = Cardinality(Of(u, set)) + Cardinality(Others(u, set))
  <1>1. Of(u, set) \in SUBSET set /\ Others(u, set) \in SUBSET set
    BY DEF Of, Others
  <1>2. IsFiniteSet(Of(u, set)) /\ IsFiniteSet(Others(u, set))
    BY <1>1, FS_Subset
  <1>3. Cardinality(Of(u, set)) \in Nat /\ Cardinality(Others(u, set)) \in Nat
    BY <1>2, FS_CardinalityType
  <1>4. set = Of(u, set) \cup Others(u, set) /\ Of(u, set) \cap Others(u, set) = {}
    BY DEF Of, Others
  <1>5. Cardinality(set) = Cardinality(Of(u, set)) + Cardinality(Others(u, set))
                             - Cardinality(Of(u, set) \cap Others(u, set))
    BY <1>2, <1>4, FS_Union
  <1>6. Cardinality(Of(u, set) \cap Others(u, set)) = 0
    BY <1>4, FS_EmptySet
  <1> QED
    BY <1>2, <1>3, <1>5, <1>6

\* Losing sessions breaks none of the bounds.
LEMMA Shrink ==
    ASSUME StoreInv, NEW set \in SUBSET sessions
    PROVE  /\ IsFiniteSet(set)
           /\ Cardinality(set) \in Nat /\ Cardinality(set) <= MaxSessions
           /\ \A u \in Subjects :
                /\ Cardinality(Of(u, set)) \in Nat /\ Cardinality(Others(u, set)) \in Nat
                /\ Cardinality(Of(u, set)) <= MaxPerSubject
                /\ displaced[u] + Cardinality(Others(u, set)) <= MaxSessions
  <1>1. IsFiniteSet(set) /\ Cardinality(set) <= Cardinality(sessions)
    BY FS_Subset DEF StoreInv
  <1>2. Cardinality(set) \in Nat /\ Cardinality(sessions) \in Nat
    BY <1>1, FS_CardinalityType DEF StoreInv
  <1>3. Cardinality(set) <= MaxSessions
    BY <1>1, <1>2, CeilingsAssumption DEF StoreInv, Capped
  <1>4. ASSUME NEW u \in Subjects
        PROVE  /\ Cardinality(Of(u, set)) \in Nat /\ Cardinality(Others(u, set)) \in Nat
               /\ Cardinality(Of(u, set)) <= MaxPerSubject
               /\ displaced[u] + Cardinality(Others(u, set)) <= MaxSessions
    <2>1. Of(u, set) \in SUBSET Of(u, sessions) /\ Others(u, set) \in SUBSET Others(u, sessions)
      BY DEF Of, Others
    <2>2. IsFiniteSet(Of(u, sessions)) /\ IsFiniteSet(Others(u, sessions))
             /\ Cardinality(Of(u, sessions)) \in Nat /\ Cardinality(Others(u, sessions)) \in Nat
      BY Split DEF StoreInv
    <2>3. Cardinality(Of(u, set)) <= Cardinality(Of(u, sessions))
             /\ Cardinality(Others(u, set)) <= Cardinality(Others(u, sessions))
      BY <2>1, <2>2, FS_Subset
    <2>4. Cardinality(Of(u, set)) \in Nat /\ Cardinality(Others(u, set)) \in Nat
      BY <1>1, Split
    <2>5. displaced[u] \in Nat
      BY DEF StoreInv, TypeOK
    <2> QED
      BY <2>2, <2>3, <2>4, <2>5, CeilingsAssumption DEF StoreInv, Capped, Counted
  <1> QED
    BY <1>1, <1>2, <1>3, <1>4

\* One insert, evicting or not, keeps the bounds.
LEMMA InsertStep ==
    ASSUME StoreInv, NEW id \in Ids, NEW u \in Subjects, Insert(id, u)
    PROVE  StoreInv'
  <1> DEFINE held == SweptAtInsert
             new == [id |-> id, sub |-> u, created |-> clock]
  <1>1. held \in SUBSET sessions
    BY DEF SweptAtInsert
  <1>2. PICK evicted \in Evictions(u, held) :
            sessions' = (held \ evicted) \cup {new} /\ displaced' = Displaces(u, evicted)
    BY DEF Insert
  <1>3. /\ \A s \in sessions : s.id # id
        /\ clock' = clock /\ lastSweep' \in Nat
        /\ clock \in Nat /\ MaxSessions \in Nat \ {0} /\ MaxPerSubject \in Nat \ {0}
    BY CeilingsAssumption DEF Insert, StoreInv, TypeOK
  <1> DEFINE kept == held \ evicted
  <1> HIDE DEF held
  <1>4. new \in Session /\ new \notin held /\ new.sub = u
    BY <1>1, <1>3 DEF Session
  <1>5. kept \in SUBSET sessions
    BY <1>1
  <1>6. IsFiniteSet(held) /\ IsFiniteSet(kept)
    BY <1>1, <1>5, Shrink
  <1>7. sessions' = kept \cup {new} /\ new \notin kept
    BY <1>2, <1>4
  <1>8. IsFiniteSet(sessions') /\ Cardinality(sessions') = Cardinality(kept) + 1
    BY <1>6, <1>7, FS_AddElement
  <1>9. Of(u, sessions') = Of(u, kept) \cup {new} /\ Others(u, sessions') = Others(u, kept)
    BY <1>4, <1>7 DEF Of, Others
  <1>10. Cardinality(Of(u, sessions')) = Cardinality(Of(u, kept)) + 1
    <2>1. new \notin Of(u, kept) /\ IsFiniteSet(Of(u, kept))
      BY <1>6, <1>7, Split DEF Of
    <2> QED
      BY <1>9, <2>1, FS_AddElement
  <1>11. ASSUME NEW v \in Subjects \ {u}
         PROVE  /\ Cardinality(Of(v, sessions')) <= MaxPerSubject
                /\ displaced'[v] = 0
    <2>1. Of(v, sessions') = Of(v, kept)
      BY <1>4, <1>7 DEF Of
    <2> QED
      BY <1>2, <1>5, <2>1, Shrink DEF Displaces
  \* The three outcomes: one of their own goes, somebody's oldest goes, nobody goes.
  <1>12. /\ Cardinality(kept) < MaxSessions
         /\ Cardinality(Of(u, kept)) < MaxPerSubject
         /\ displaced'[u] \in Nat
         /\ displaced'[u] <= MaxPerSubject
         /\ displaced'[u] + Cardinality(Others(u, kept)) <= MaxSessions
    <2> DEFINE pushed == {s \in evicted : s.sub # u}
    <2>0. /\ displaced'[u] = displaced[u] + Cardinality(pushed)
          /\ displaced[u] \in Nat /\ displaced[u] <= MaxPerSubject
          /\ Cardinality(held) \in Nat /\ Cardinality(held) <= MaxSessions
          /\ Cardinality(Of(u, held)) \in Nat /\ Cardinality(Of(u, held)) <= MaxPerSubject
          /\ Cardinality(Others(u, held)) \in Nat
          /\ displaced[u] + Cardinality(Others(u, held)) <= MaxSessions
          /\ Cardinality(held) = Cardinality(Of(u, held)) + Cardinality(Others(u, held))
      BY <1>1, <1>2, <1>6, Shrink, Split DEF Displaces, StoreInv, TypeOK, CannotSignOutOthers
    <2>10. IsFiniteSet(Of(u, held)) /\ IsFiniteSet(Others(u, held))
      BY <1>6, Split
    <2>1. CASE TheirsFull(u, held)
      <3>1. PICK s \in Oldest(Of(u, held)) : evicted = {s}
        BY <1>2, <2>1 DEF Evictions
      <3>2. s \in Of(u, held) /\ s \in held /\ s.sub = u
        BY <3>1 DEF Oldest, Of
      <3>3. Cardinality(kept) = Cardinality(held) - 1
        BY <1>6, <3>1, <3>2, FS_RemoveElement
      <3>4. Of(u, kept) = Of(u, held) \ {s} /\ Others(u, kept) = Others(u, held)
        BY <3>1, <3>2 DEF Of, Others
      <3>5. Cardinality(Of(u, kept)) = Cardinality(Of(u, held)) - 1
        <4>1. s \in Of(u, held)
          BY <3>2
        <4>2. Cardinality(Of(u, held) \ {s}) = Cardinality(Of(u, held)) - 1
          BY <2>10, <4>1, FS_RemoveElement
        <4> QED
          BY <3>4, <4>2
      <3>6. pushed = {}
        BY <3>1, <3>2
      <3>7. Cardinality(pushed) = 0
        BY <3>6, FS_EmptySet
      <3> QED
        BY <1>3, <2>0, <3>3, <3>4, <3>5, <3>7
    <2>2. CASE ~TheirsFull(u, held) /\ StoreFull(held)
      <3>1. PICK s \in Oldest(held) : evicted = {s}
        BY <1>2, <2>2 DEF Evictions
      <3>2. s \in held
        BY <3>1 DEF Oldest
      <3>3. Cardinality(kept) = Cardinality(held) - 1
        BY <1>6, <3>1, <3>2, FS_RemoveElement
      <3>4. Cardinality(Of(u, held)) < MaxPerSubject /\ Cardinality(held) = MaxSessions
        BY <1>3, <2>0, <2>2 DEF TheirsFull, StoreFull
      <3>5. CASE s.sub = u
        <4>1. Of(u, kept) = Of(u, held) \ {s} /\ Others(u, kept) = Others(u, held)
          BY <3>1, <3>2, <3>5 DEF Of, Others
        <4>2. s \in Of(u, held)
          BY <3>2, <3>5 DEF Of
        <4>3. Cardinality(Of(u, kept)) = Cardinality(Of(u, held)) - 1
          BY <2>10, <4>1, <4>2, FS_RemoveElement
        <4>4. pushed = {}
          BY <3>1, <3>5
        <4>5. Cardinality(pushed) = 0
          BY <4>4, FS_EmptySet
        <4> QED
          BY <1>3, <2>0, <3>3, <3>4, <4>1, <4>3, <4>5
      <3>6. CASE s.sub # u
        <4>1. Of(u, kept) = Of(u, held) /\ Others(u, kept) = Others(u, held) \ {s}
          BY <3>1, <3>2, <3>6 DEF Of, Others
        <4>2. s \in Others(u, held)
          BY <3>2, <3>6 DEF Others
        <4>3. Cardinality(Others(u, kept)) = Cardinality(Others(u, held)) - 1
          BY <2>10, <4>1, <4>2, FS_RemoveElement
        <4>4. pushed = {s}
          BY <3>1, <3>6
        <4>5. Cardinality(pushed) = 1
          BY <4>4, FS_Singleton
        <4>6. Cardinality(Of(u, kept)) = Cardinality(Of(u, held))
          BY <4>1
        <4> QED
          BY <1>3, <2>0, <3>3, <3>4, <4>3, <4>5, <4>6
      <3> QED
        BY <3>5, <3>6
    <2>3. CASE ~TheirsFull(u, held) /\ ~StoreFull(held)
      <3>1. evicted = {}
        BY <1>2, <2>3 DEF Evictions
      <3>2. kept = held /\ pushed = {}
        BY <3>1
      <3>3. Cardinality(pushed) = 0
        BY <3>2, FS_EmptySet
      <3>4. Cardinality(held) < MaxSessions /\ Cardinality(Of(u, held)) < MaxPerSubject
        BY <1>3, <2>0, <2>3 DEF TheirsFull, StoreFull
      <3>5. displaced'[u] = displaced[u]
        BY <2>0, <3>3
      <3> HIDE DEF kept, pushed
      <3> QED
        BY <2>0, <3>2, <3>4, <3>5
    <2> QED
      BY <2>1, <2>2, <2>3
  <1>13. TypeOK'
    <2>1. sessions' \subseteq Session
      BY <1>4, <1>5, <1>7 DEF StoreInv, TypeOK
    <2>2. \A s, t \in sessions' : s.id = t.id => s = t
      BY <1>3, <1>5, <1>7 DEF StoreInv, TypeOK
    <2>3. displaced' \in [Subjects -> Nat]
      BY <1>2, <1>11, <1>12 DEF Displaces
    <2> QED
      BY <1>3, <2>1, <2>2, <2>3 DEF TypeOK
  <1>14. Cardinality(kept) \in Nat /\ Cardinality(Of(u, kept)) \in Nat
    BY <1>5, Shrink
  <1>15. Capped'
    <2>1. Cardinality(sessions') <= MaxSessions
      BY <1>3, <1>8, <1>12, <1>14
    <2>2. Cardinality(Of(u, sessions')) <= MaxPerSubject
      BY <1>3, <1>10, <1>12, <1>14
    <2> QED
      BY <1>11, <2>1, <2>2 DEF Capped
  <1>16. CannotSignOutOthers'
    BY <1>3, <1>11, <1>12 DEF CannotSignOutOthers
  <1>17. Counted'
    <2>1. ASSUME NEW v \in Subjects \ {u}
          PROVE  displaced'[v] + Cardinality(Others(v, sessions')) <= MaxSessions
      <3>1. Cardinality(sessions') = Cardinality(Of(v, sessions')) + Cardinality(Others(v, sessions'))
              /\ Cardinality(Of(v, sessions')) \in Nat /\ Cardinality(Others(v, sessions')) \in Nat
        BY <1>8, Split
      <3>2. displaced'[v] = 0
        BY <1>11
      <3> QED
        BY <1>3, <1>15, <3>1, <3>2 DEF Capped
    <2>2. displaced'[u] + Cardinality(Others(u, sessions')) <= MaxSessions
      BY <1>9, <1>12
    <2> QED
      BY <2>1, <2>2 DEF Counted
  <1> QED
    BY <1>8, <1>13, <1>15, <1>16, <1>17 DEF StoreInv

LEMMA StoreInvariant == Spec => []StoreInv
  <1>1. Init => StoreInv
    <2> SUFFICES ASSUME Init PROVE StoreInv
      OBVIOUS
    <2>1. TypeOK
      BY DEF Init, TypeOK
    <2>2. \A u \in Subjects : Of(u, sessions) = {} /\ Others(u, sessions) = {}
      BY DEF Init, Of, Others
    <2>3. sessions = {} /\ \A u \in Subjects : displaced[u] = 0
      BY DEF Init
    <2> QED
      BY <2>1, <2>2, <2>3, FS_EmptySet, CeilingsAssumption
         DEF StoreInv, Capped, CannotSignOutOthers, Counted
  <1>2. StoreInv /\ [Next]_vars => StoreInv'
    <2> SUFFICES ASSUME StoreInv, [Next]_vars PROVE StoreInv'
      OBVIOUS
    <2>1. ASSUME NEW id \in Ids, NEW u \in Subjects, Insert(id, u) PROVE StoreInv'
      BY <2>1, InsertStep
    <2>2. ASSUME sessions' \in SUBSET sessions, clock' \in Nat, UNCHANGED <<lastSweep, displaced>>
          PROVE  StoreInv'
      <3>1. TypeOK'
        BY <2>2 DEF StoreInv, TypeOK
      <3>2. /\ IsFiniteSet(sessions') /\ Cardinality(sessions') <= MaxSessions
            /\ \A u \in Subjects :
                 /\ Cardinality(Of(u, sessions')) <= MaxPerSubject
                 /\ displaced[u] + Cardinality(Others(u, sessions')) <= MaxSessions
        BY <2>2, Shrink
      <3> QED
        BY <2>2, <3>1, <3>2 DEF StoreInv, Capped, CannotSignOutOthers, Counted
    <2>3. ASSUME NEW id \in Ids, Get(id) \/ Remove(id) PROVE StoreInv'
      BY <2>2, <2>3 DEF Get, Remove, StoreInv, TypeOK
    <2>4. CASE Tick \/ UNCHANGED vars
      BY <2>2, <2>4 DEF Tick, vars, StoreInv, TypeOK
    <2> QED
      BY <2>1, <2>3, <2>4 DEF Next
  <1> QED
    BY <1>1, <1>2, PTL DEF Spec

\* Type correctness, the uniqueness of the ids in the store included.
THEOREM TypeCorrect == Spec => []TypeOK
  BY StoreInvariant, PTL DEF StoreInv

\* The store and each subject's share of it stay within their ceilings
\* (session.rs:21-26).
THEOREM WithinCeilings == Spec => []Capped
  BY StoreInvariant, PTL DEF StoreInv

\* One person cannot sign everyone else out (README.md:182-183): alone they cost
\* the others at most as many sessions as one person may hold.
THEOREM OthersStay == Spec => []CannotSignOutOthers
  BY StoreInvariant, PTL DEF StoreInv
-----------------------------------------------------------------------------
\* The oldest goes first: if it is live, so is every session it was chosen from.
LEMMA OldestLive ==
    ASSUME TypeOK, NEW set \in SUBSET sessions, NEW s \in Oldest(set), Live(s)
    PROVE  \A t \in set : Live(t)
  <1> SUFFICES ASSUME NEW t \in set PROVE Live(t)
    OBVIOUS
  <1>1. s.created <= t.created /\ s \in Session /\ t \in Session
    BY DEF Oldest, TypeOK
  <1>2. s.created \in Nat /\ t.created \in Nat /\ clock \in Nat
    BY <1>1 DEF Session, TypeOK
  <1> QED
    BY <1>1, <1>2, TimesAssumption DEF Live

\* An insert pushes a live session out only when live sessions alone fill the ceiling
\* it met, although the sweep that removes expired ones is lazy (session.rs:94-107).
THEOREM LiveOnesGoLast == Spec => SweepIsLazyButFair
  <1> DEFINE live == {s \in sessions : Live(s)}
             held == SweptAtInsert
  <1>1. ASSUME StoreInv, NEW id \in Ids, NEW u \in Subjects, Insert(id, u), Lost(u) # {}
        PROVE  Cardinality(live) = MaxSessions \/ Cardinality(Of(u, live)) = MaxPerSubject
    <2>1. PICK evicted \in Evictions(u, held) :
              sessions' = (held \ evicted) \cup {[id |-> id, sub |-> u, created |-> clock]}
      BY <1>1 DEF Insert
    <2>2. held \in SUBSET sessions /\ live \in SUBSET held
      BY DEF SweptAtInsert
    <2>3. PICK s \in live : s \notin sessions'
      BY <1>1 DEF Lost
    <2>4. s \in evicted
      BY <2>1, <2>2, <2>3
    <2>5. TypeOK /\ MaxSessions \in Nat /\ MaxPerSubject \in Nat
      BY <1>1, CeilingsAssumption DEF StoreInv
    <2> HIDE DEF held
    <2>6. CASE TheirsFull(u, held)
      <3>1. s \in Oldest(Of(u, held)) /\ Of(u, held) \in SUBSET sessions
        BY <2>1, <2>2, <2>4, <2>6 DEF Evictions, Of
      <3>2. \A t \in Of(u, held) : Live(t)
        BY <2>3, <2>5, <3>1, OldestLive
      <3>3. Of(u, held) = Of(u, live)
        BY <2>2, <3>2 DEF Of
      <3>4. Cardinality(Of(u, held)) \in Nat /\ Cardinality(Of(u, held)) <= MaxPerSubject
        BY <1>1, <2>2, Shrink
      <3> QED
        BY <2>5, <2>6, <3>3, <3>4 DEF TheirsFull
    <2>7. CASE ~TheirsFull(u, held) /\ StoreFull(held)
      <3>1. s \in Oldest(held)
        BY <2>1, <2>4, <2>7 DEF Evictions
      <3>2. \A t \in held : Live(t)
        BY <2>2, <2>3, <2>5, <3>1, OldestLive
      <3>3. held = live
        BY <2>2, <3>2
      <3>4. Cardinality(held) \in Nat /\ Cardinality(held) <= MaxSessions
        BY <1>1, <2>2, Shrink
      <3> QED
        BY <2>5, <2>7, <3>3, <3>4 DEF StoreFull
    <2>8. CASE ~TheirsFull(u, held) /\ ~StoreFull(held)
      BY <2>1, <2>4, <2>8 DEF Evictions
    <2> QED
      BY <2>6, <2>7, <2>8
  <1>2. StoreInv => \A id \in Ids, u \in Subjects : Insert(id, u) /\ Lost(u) # {} =>
                        Cardinality(live) = MaxSessions \/ Cardinality(Of(u, live)) = MaxPerSubject
    BY <1>1
  <1> QED
    BY <1>2, StoreInvariant, PTL DEF SweepIsLazyButFair
=============================================================================
