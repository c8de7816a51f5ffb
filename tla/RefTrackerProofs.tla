--------------------------- MODULE RefTrackerProofs ---------------------------
(***************************************************************************)
(* Reference counting is safe for any number of objects and pointers: the  *)
(* counters are exact, nothing that is being destroyed gets an owner       *)
(* again, and a tracker is deleted with the last pointer to it.            *)
(*                                                                         *)
(* The counters alone do not show that the destructors that run inside one *)
(* another destroy an object once: a destructor could be about to release  *)
(* a pointer that an outer one is releasing already.  It is not, because   *)
(* every pointer that is being released belongs to the code one level      *)
(* further out, or to an object that code owns (Anchored).                 *)
(***************************************************************************)
EXTENDS RefTracker, FiniteSetTheorems, SequenceTheorems, TLAPS

\* The variables hold what their declarations say.
Types ==
  /\ strong \in [Slot -> Obj \cup {Null}] /\ weak \in [WSlot -> Obj \cup {Null}]
  /\ m_tracked \in [Obj -> Counter] /\ m_count \in [Obj -> Counter]
  /\ m_target \in [Obj -> BOOLEAN] /\ memory \in [Obj -> Lives]
  /\ freed \subseteq Obj /\ stack \in Seq(Slot) /\ threw \in BOOLEAN

\* m_tracked tells the stages of an object's life apart, and the counters are
\* below their limit.
Stage(o) ==
  /\ m_tracked[o] = COUNT_UNCLAIMED <=> memory[o] \in {"fresh", "raw"}
  /\ m_tracked[o] = COUNT_DESTROYING <=> memory[o] \in {"dtor", "members"}
  /\ m_tracked[o] = 0 <=> memory[o] = "deleted"
  /\ m_target[o] <=> memory[o] # "deleted"
  /\ memory[o] = "owned" => m_tracked[o] \in 1..COUNT_MAX
  /\ m_count[o] \in 0..COUNT_MAX

Owned(o) ==
  /\ memory[o] = "owned" <=> Owners(o) # {}
  /\ memory[o] = "owned" => m_tracked[o] = Cardinality(Owners(o))

Watched(o) ==
  /\ m_count[o] = Cardinality(Watchers(o))
  /\ memory[o] = "fresh" => Watchers(o) = {}
  /\ o \in freed <=> memory[o] = "deleted" /\ Watchers(o) = {}

\* The FPtrs of the code that runs at level k of the stack.
OwnAt(k) == IF k > Len(stack) THEN Local ELSE {strong[stack[k]]} \X Member

\* The FPtr that level k is releasing belongs to the code that made it do so, or
\* to an object that this code owns.
Anchored(k) ==
  \/ stack[k] \in OwnAt(k + 1)
  \/ \E s \in OwnAt(k + 1), o \in Obj, m \in Member :
       stack[k] = <<o, m>> /\ strong[s] = o /\ memory[o] = "owned"

Stacked ==
  /\ \A k \in 1..Len(stack) :
       /\ strong[stack[k]] \in Obj
       /\ memory[strong[stack[k]]] \in {"dtor", "members"}
       /\ Anchored(k)
  /\ \A k, l \in 1..Len(stack) : strong[stack[k]] = strong[stack[l]] => k = l

Inv ==
  /\ Types
  /\ ~threw => /\ \A o \in Obj : Stage(o) /\ Owned(o) /\ Watched(o)
               /\ Stacked

-----------------------------------------------------------------------------
(* What the invariant says of a slot, and of the level of the running code. *)

\* A pointer that is being released points to an object that is being
\* destroyed, and every other one to an object that is owned.
LEMMA Pointers ==
  ASSUME Inv, ~threw, NEW s \in Slot, strong[s] # Null
  PROVE  /\ strong[s] \in Obj
         /\ s \in Releasing => memory[strong[s]] \in {"dtor", "members"}
         /\ s \notin Releasing => memory[strong[s]] = "owned"
<1>1. strong[s] \in Obj
  BY DEF Inv, Types
<1>2. DOMAIN stack = 1..Len(stack)
  BY LenProperties DEF Inv, Types
<1>3. ASSUME s \in Releasing PROVE memory[strong[s]] \in {"dtor", "members"}
  BY <1>2, <1>3 DEF Inv, Stacked, Releasing
<1>4. ASSUME s \notin Releasing PROVE memory[strong[s]] = "owned"
  <2>1. s \in Owners(strong[s])
    BY <1>4 DEF Owners
  <2>2. QED BY <1>1, <2>1 DEF Inv, Owned
<1>5. QED BY <1>1, <1>3, <1>4

\* The sets the counters count are finite.
LEMMA CountedFinite ==
  ASSUME NEW o
  PROVE  IsFiniteSet(Owners(o)) /\ IsFiniteSet(Watchers(o))
<1>1. Owners(o) \in SUBSET Slot /\ Watchers(o) \in SUBSET WSlot
  BY DEF Owners, Watchers
<1>2. QED BY <1>1, FS_Subset, RefAssumption

\* The pointers of the running code are those of level 1.
LEMMA RunningLevel ==
  ASSUME Inv
  PROVE  /\ Own = OwnAt(1)
         /\ stack # <<>> => Len(stack) \in Nat \ {0} /\ Dying = strong[stack[1]]
         /\ stack = <<>> => Len(stack) = 0
<1>1. stack \in Seq(Slot)
  BY DEF Inv, Types
<1>2. stack # <<>> => Len(stack) \in Nat \ {0} /\ Head(stack) = stack[1]
  BY <1>1, EmptySeq
<1>3. stack = <<>> => Len(stack) = 0
  BY EmptySeq
<1>4. QED
  BY <1>2, <1>3 DEF Own, OwnAt, Dying

\* What the running code can reach is none of the pointers of an outer level,
\* nor is a member of the object whose members are destroyed.
LEMMA OutOfReach ==
  ASSUME Inv, ~threw, NEW k \in 1..Len(stack), NEW s \in OwnAt(k + 1),
         NEW t, t \in Reachable \/ t \in {Dying} \X Member
  PROVE  s # t
<1>1. stack # <<>> /\ Len(stack) \in Nat \ {0} /\ Dying = strong[stack[1]] /\ Own = OwnAt(1)
  BY RunningLevel
<1>2. /\ 1 \in 1..Len(stack) /\ Dying \in Obj
      /\ memory[Dying] \in {"dtor", "members"}
  BY <1>1 DEF Inv, Stacked
<1>3. t \in (Held \cup {Dying}) \X Member
  BY <1>1 DEF Reachable, OwnAt
<1>4. CASE k + 1 > Len(stack)
  <2>1. s \in Local
    BY <1>4 DEF OwnAt
  <2>2. t \in Obj \X Member
    BY <1>2, <1>3 DEF Held
  <2>3. QED BY <2>1, <2>2, RefAssumption
<1>5. CASE ~(k + 1 > Len(stack))
  <2>1. k + 1 \in 1..Len(stack) /\ k + 1 # 1
    BY <1>1, <1>5
  <2>2. PICK m \in Member : s = <<strong[stack[k + 1]], m>>
    BY <1>5 DEF OwnAt
  <2>3. strong[stack[k + 1]] # Dying
    BY <1>1, <1>2, <2>1 DEF Inv, Stacked
  <2>4. strong[stack[k + 1]] \notin Held
    BY <2>1 DEF Inv, Stacked, Held
  <2>5. QED BY <1>3, <2>2, <2>3, <2>4
<1>6. QED BY <1>4, <1>5

\* The pointers of a level are slots.
LEMMA LevelSlots ==
  ASSUME Inv, ~threw, NEW k \in Nat \ {0}, NEW s \in OwnAt(k)
  PROVE  s \in Slot
<1>1. Len(stack) \in Nat
  BY LenProperties DEF Inv, Types
<1>2. ~(k > Len(stack)) => strong[stack[k]] \in Obj
  BY <1>1 DEF Inv, Stacked
<1>3. QED BY <1>2 DEF OwnAt, Slot

\* Everything reachable is a slot.
LEMMA ReachableSlots ==
  ASSUME Inv, ~threw
  PROVE  /\ Reachable \subseteq Slot /\ Own \subseteq Reachable
         /\ WReachable \subseteq WSlot
         /\ stack # <<>> => Dying \in Obj
<1>1. stack # <<>> => Dying \in Obj
  <2> HAVE stack # <<>>
  <2>1. Len(stack) \in Nat \ {0} /\ Dying = strong[stack[1]]
    BY RunningLevel
  <2>2. QED BY <2>1 DEF Inv, Stacked
<1>2. QED
  BY <1>1 DEF Reachable, WReachable, Own, WOwn, Held, Slot, WSlot

\* The stack is as good as it was if no pointer on it is changed, no object that
\* is being destroyed lives on, and the pointers the outer levels own and the
\* objects behind them are kept.
LEMMA StackKept ==
  ASSUME Inv, ~threw, UNCHANGED stack,
         \A k \in 1..Len(stack) :
           /\ strong'[stack[k]] = strong[stack[k]]
           /\ memory'[strong[stack[k]]] \in {"dtor", "members"}
           /\ \A s \in OwnAt(k + 1) :
                strong[s] \in Obj /\ memory[strong[s]] = "owned"
                  => strong'[s] = strong[s] /\ memory'[strong[s]] = "owned"
  PROVE  Stacked'
<1>1. Stacked /\ Len(stack) \in Nat
  BY EmptySeq DEF Inv, Types
<1>2. ASSUME NEW k \in 1..Len(stack) PROVE OwnAt(k + 1)' = OwnAt(k + 1)
  <2>1. CASE k + 1 > Len(stack)
    BY <2>1 DEF OwnAt
  <2>2. CASE ~(k + 1 > Len(stack))
    <3>1. k + 1 \in 1..Len(stack)
      BY <1>1, <2>2
    <3>2. QED BY <2>2, <3>1 DEF OwnAt
  <2>3. QED BY <2>1, <2>2
<1>3. ASSUME NEW k \in 1..Len(stack) PROVE Anchored(k)'
  <2>1. CASE stack[k] \in OwnAt(k + 1)
    BY <1>2, <2>1 DEF Anchored
  <2>2. CASE \E s \in OwnAt(k + 1), o \in Obj, m \in Member :
               stack[k] = <<o, m>> /\ strong[s] = o /\ memory[o] = "owned"
    <3>1. PICK s \in OwnAt(k + 1), o \in Obj, m \in Member :
                 stack[k] = <<o, m>> /\ strong[s] = o /\ memory[o] = "owned"
      BY <2>2
    <3>2. strong'[s] = o /\ memory'[o] = "owned"
      BY <3>1
    <3>3. QED BY <1>2, <3>1, <3>2 DEF Anchored
  <2>3. QED BY <1>1, <2>1, <2>2 DEF Stacked, Anchored
<1>4. QED
  BY <1>1, <1>3 DEF Stacked

-----------------------------------------------------------------------------
(* The counters are acquired.                                              *)

\* RC_ACQUIRE counts up, unless the counter is not in use yet; the limit
\* keeps it away from the values that are no counts.
LEMMA AcquiredCounts ==
  ASSUME NEW c \in Counter
  PROVE  /\ Acquired(c) \in Counter
         /\ c \in 0..COUNT_MAX => Acquired(c) = c + 1
         /\ c = COUNT_UNCLAIMED => Acquired(c) = 1
<1>1. COUNT_MAX \in Nat \ {0}
  BY RefAssumption
<1>2. \A M \in Nat \ {0} : \A n \in Nat : n % M \in 0..M - 1 /\ (n < M => n % M = n)
  OBVIOUS
<1>3. c \in Nat /\ c <= COUNT_MAX + 2
  BY <1>1 DEF Counter, COUNT_DESTROYING
<1>4. c + 1 \in Nat /\ COUNT_DESTROYING + 1 \in Nat \ {0}
  BY <1>1, <1>3 DEF COUNT_DESTROYING
<1> DEFINE M == COUNT_DESTROYING + 1
           n == c + 1
<1>5. n % M \in 0..M - 1 /\ (n < M => n % M = n)
  <2> HIDE DEF M, n
  <2>1. n \in Nat /\ M \in Nat \ {0}
    BY <1>4 DEF M, n
  <2>2. QED BY <1>2, <2>1, Zenon
<1>6. c \in 0..COUNT_MAX => n < M
  BY <1>1 DEF COUNT_DESTROYING
<1>7. QED
  BY <1>1, <1>5, <1>6, COUNT_DESTROYING \in Nat DEF Acquired, Counter, COUNT_UNCLAIMED, COUNT_DESTROYING

\* A null pointer that gets an object adds one to the owners of the object.
LEMMA OwnersAdded ==
  ASSUME Inv, ~threw, NEW s \in Slot, strong[s] = Null, NEW o \in Obj,
         strong' = [strong EXCEPT ![s] = o], UNCHANGED stack
  PROVE  /\ Owners(o)' = Owners(o) \cup {s} /\ s \notin Owners(o)
         /\ \A p \in Obj : p # o => Owners(p)' = Owners(p)
         /\ Cardinality(Owners(o)') = Cardinality(Owners(o)) + 1
<1>1. s \notin Releasing
  <2>1. Null \notin Obj /\ DOMAIN stack = 1..Len(stack)
    BY RefAssumption, LenProperties DEF Inv, Types
  <2>2. QED BY <2>1 DEF Inv, Stacked, Releasing
<1>2. Null \notin Obj /\ strong \in [Slot -> Obj \cup {Null}]
  BY RefAssumption DEF Inv, Types
<1>3. Releasing' = Releasing
  BY DEF Releasing
<1>4. Owners(o)' = Owners(o) \cup {s} /\ s \notin Owners(o)
  BY <1>1, <1>2, <1>3 DEF Owners
<1>5. \A p \in Obj : p # o => Owners(p)' = Owners(p)
  BY <1>1, <1>2, <1>3 DEF Owners
<1>6. QED
  BY <1>4, <1>5, CountedFinite, FS_AddElement

\* FObject::acquire keeps the invariant, whether it throws or not.
LEMMA AcquireInv ==
  ASSUME Inv, ~threw, NEW s \in Slot, strong[s] = Null, NEW o \in Obj,
         Acquire(s, o), UNCHANGED <<weak, m_target, trackers, stack>>,
         memory' \in [Obj -> Lives],
         m_tracked[o] = COUNT_DESTROYING \/ memory[o] \in {"raw", "owned"},
         memory[o] \in {"raw", "owned"} => memory' = [memory EXCEPT ![o] = "owned"]
  PROVE  Inv'
<1>1. /\ strong \in [Slot -> Obj \cup {Null}] /\ m_tracked \in [Obj -> Counter]
      /\ memory \in [Obj -> Lives] /\ Stage(o)
  BY DEF Inv, Types
<1>2. m_tracked[o] \in Counter /\ Acquired(m_tracked[o]) \in Counter
  BY <1>1, AcquiredCounts
<1>3. strong' \in [Slot -> Obj \cup {Null}] /\ m_tracked' \in [Obj -> Counter]
      /\ threw' \in BOOLEAN
  <2>1. threw' \in BOOLEAN
    <3>1. Exceeded(m_tracked'[o]) \in BOOLEAN
      BY DEF Exceeded
    <3>2. QED BY <3>1, Zenon DEF Acquire
  <2>2. m_tracked' \in [Obj -> Counter]
    BY <1>1, <1>2 DEF Acquire
  <2>3. strong' \in [Slot -> Obj \cup {Null}]
    BY <1>1 DEF Acquire
  <2>4. QED BY <2>1, <2>2, <2>3
<1>4. Types'
  BY <1>3 DEF Inv, Types, trackers
<1>5. ASSUME ~threw' PROVE (\A p \in Obj : Stage(p) /\ Owned(p) /\ Watched(p))' /\ Stacked'
  <2>1. /\ m_tracked[o] # COUNT_DESTROYING /\ memory[o] \in {"raw", "owned"}
        /\ m_tracked' = [m_tracked EXCEPT ![o] = Acquired(@)]
        /\ ~Exceeded(m_tracked'[o])
        /\ strong' = [strong EXCEPT ![s] = o]
        /\ memory' = [memory EXCEPT ![o] = "owned"]
    BY <1>5 DEF Acquire
  <2>2. m_tracked'[o] = Acquired(m_tracked[o]) /\ m_tracked'[o] <= COUNT_MAX
    BY <1>1, <1>2, <2>1, RefAssumption DEF Exceeded, Counter, COUNT_DESTROYING
  <2>3. /\ Owners(o)' = Owners(o) \cup {s}
        /\ \A p \in Obj : p # o => Owners(p)' = Owners(p)
        /\ Cardinality(Owners(o)') = Cardinality(Owners(o)) + 1
    BY <2>1, OwnersAdded
  <2>4. \A p \in Obj : p # o => m_tracked'[p] = m_tracked[p] /\ memory'[p] = memory[p]
    BY <1>1, <2>1
  <2>5. memory'[o] = "owned"
    BY <1>1, <2>1
  <2>6. m_tracked'[o] = Cardinality(Owners(o)') /\ m_tracked'[o] \in 1..COUNT_MAX
    <3>1. CASE memory[o] = "raw"
      <4>1. m_tracked[o] = COUNT_UNCLAIMED /\ Owners(o) = {}
        BY <1>1, <3>1 DEF Inv, Stage, Owned
      <4>2. m_tracked'[o] = 1 /\ Cardinality(Owners(o)) = 0
        BY <1>2, <2>2, <4>1, AcquiredCounts, FS_EmptySet
      <4>3. QED BY <2>3, <4>2, RefAssumption
    <3>2. CASE memory[o] = "owned"
      <4>1. m_tracked[o] \in 1..COUNT_MAX /\ m_tracked[o] = Cardinality(Owners(o))
        BY <3>2 DEF Inv, Stage, Owned
      <4>2. m_tracked'[o] = m_tracked[o] + 1
        BY <1>2, <2>2, <4>1, AcquiredCounts, RefAssumption
      <4>3. QED BY <2>2, <2>3, <4>1, <4>2, RefAssumption
    <3>3. QED BY <2>1, <3>1, <3>2
  <2>7. ASSUME NEW p \in Obj PROVE Stage(p)'
    <3>1. CASE p = o
      <4>1. m_target[o] /\ m_count[o] \in 0..COUNT_MAX
        BY <1>1, <2>1 DEF Stage
      <4>2. m_tracked'[o] \notin {COUNT_UNCLAIMED, COUNT_DESTROYING, 0}
        BY <2>6, RefAssumption DEF COUNT_UNCLAIMED, COUNT_DESTROYING
      <4>3. QED BY <2>5, <2>6, <3>1, <4>1, <4>2 DEF Stage, trackers
    <3>2. CASE p # o
      BY <2>4, <3>2 DEF Inv, Stage, trackers
    <3>3. QED BY <3>1, <3>2
  <2>8. ASSUME NEW p \in Obj PROVE Owned(p)'
    <3>1. CASE p = o
      BY <2>3, <2>5, <2>6, <3>1 DEF Owned
    <3>2. CASE p # o
      <4>1. Owned(p) /\ Owners(p)' = Owners(p)
        BY <2>3, <3>2 DEF Inv
      <4>2. QED BY <2>4, <3>2, <4>1 DEF Owned
    <3>3. QED BY <3>1, <3>2
  <2>9. ASSUME NEW p \in Obj PROVE Watched(p)'
    <3>1. Watched(p) /\ Watchers(p)' = Watchers(p)
      BY DEF Inv, Watchers
    <3>2. memory'[p] = memory[p] \/ (p = o /\ memory[p] \in {"raw", "owned"} /\ memory'[p] = "owned")
      BY <2>1, <2>4, <2>5
    <3>3. QED BY <3>1, <3>2 DEF Watched, trackers
  <2>10. Stacked'
    <3>1. ASSUME NEW k \in 1..Len(stack)
          PROVE /\ strong'[stack[k]] = strong[stack[k]]
                /\ memory'[strong[stack[k]]] \in {"dtor", "members"}
                /\ \A t \in OwnAt(k + 1) :
                     strong[t] \in Obj /\ memory[strong[t]] = "owned"
                       => strong'[t] = strong[t] /\ memory'[strong[t]] = "owned"
      <4>1. /\ strong[stack[k]] \in Obj
            /\ memory[strong[stack[k]]] \in {"dtor", "members"}
        BY DEF Inv, Stacked
      <4>2. strong[stack[k]] # o /\ stack[k] # s
        BY <2>1, <4>1, RefAssumption
      <4>3. ASSUME NEW t, strong[t] \in Obj, memory[strong[t]] = "owned"
            PROVE strong'[t] = strong[t] /\ memory'[strong[t]] = "owned"
        BY <1>1, <2>1, <2>4, <2>5, <4>3, RefAssumption
      <4>4. QED BY <1>1, <2>1, <2>4, <4>1, <4>2, <4>3
    <3>2. QED BY <3>1, StackKept
  <2>11. QED BY <2>7, <2>8, <2>9, <2>10
<1>6. QED
  BY <1>4, <1>5 DEF Inv

\* FRefTracker::acquire does.  Nobody watches an object whose tracker is deleted.
LEMMA WAcquireInv ==
  ASSUME Inv, ~threw, NEW w \in WSlot, weak[w] = Null, NEW o \in Obj,
         memory[o] # "fresh", o \notin freed,
         WAcquire(w, o), UNCHANGED <<strong, objects, freed, stack>>
  PROVE  Inv'
<1>1. /\ weak \in [WSlot -> Obj \cup {Null}] /\ m_count \in [Obj -> Counter]
      /\ Null \notin Obj
  BY RefAssumption DEF Inv, Types
<1>2. m_count[o] \in Counter /\ Acquired(m_count[o]) \in Counter
  BY <1>1, AcquiredCounts
<1>3. m_count[o] \in 0..COUNT_MAX /\ Acquired(m_count[o]) = m_count[o] + 1
  BY <1>2, AcquiredCounts DEF Inv, Stage
<1>4. m_count' = [m_count EXCEPT ![o] = m_count[o] + 1] /\ threw' = Exceeded(m_count'[o])
  BY <1>3 DEF WAcquire
<1>5. Types'
  <2>1. threw' \in BOOLEAN
    <3>1. Exceeded(m_count'[o]) \in BOOLEAN
      BY DEF Exceeded
    <3>2. QED BY <1>4, <3>1
  <2>2. m_count' \in [Obj -> Counter]
    BY <1>1, <1>2, <1>3, <1>4
  <2>3. weak' \in [WSlot -> Obj \cup {Null}]
    BY <1>1 DEF WAcquire
  <2>4. QED BY <2>1, <2>2, <2>3 DEF Inv, Types, objects
<1>6. ASSUME ~threw' PROVE (\A p \in Obj : Stage(p) /\ Owned(p) /\ Watched(p))' /\ Stacked'
  <2>1. weak' = [weak EXCEPT ![w] = o] /\ m_count[o] + 1 <= COUNT_MAX
    <3>1. ~(m_count'[o] > COUNT_MAX) /\ m_count'[o] = m_count[o] + 1
      BY <1>1, <1>4, <1>6 DEF Exceeded
    <3>2. QED BY <1>3, <1>6, <3>1, RefAssumption DEF WAcquire
  <2>2. Watchers(o)' = Watchers(o) \cup {w} /\ w \notin Watchers(o)
    BY <1>1, <2>1 DEF Watchers
  <2>3. ASSUME NEW p \in Obj PROVE Stage(p)' /\ Owned(p)'
    <3>1. Stage(p) /\ Owned(p) /\ UNCHANGED <<m_tracked, memory, m_target>>
      BY DEF Inv, objects
    <3>2. Owners(p)' = Owners(p)
      BY DEF Owners, Releasing
    <3>3. m_count'[p] \in 0..COUNT_MAX
      BY <1>1, <1>3, <1>4, <2>1, <3>1, RefAssumption DEF Stage
    <3>4. Stage(p)'
      BY <3>1, <3>3 DEF Stage
    <3>5. QED BY <3>1, <3>2, <3>4 DEF Owned
  <2>4. ASSUME NEW p \in Obj PROVE Watched(p)'
    <3>1. Watched(p) /\ UNCHANGED <<memory, freed>>
      BY DEF Inv, objects
    <3>2. CASE p = o
      <4>1. Cardinality(Watchers(o)') = Cardinality(Watchers(o)) + 1
        BY <2>2, CountedFinite, FS_AddElement
      <4>2. m_count'[o] = Cardinality(Watchers(o)')
        BY <1>1, <1>3, <1>4, <3>1, <3>2, <4>1 DEF Watched
      <4>3. QED BY <2>2, <3>1, <3>2, <4>2 DEF Watched
    <3>3. CASE p # o
      <4>1. Watchers(p)' = Watchers(p) /\ m_count'[p] = m_count[p]
        BY <1>1, <1>4, <2>1, <3>3 DEF Watchers
      <4>2. QED BY <3>1, <4>1 DEF Watched
    <3>4. QED BY <3>2, <3>3
  <2>5. Stacked'
    <3>1. UNCHANGED <<memory, strong, stack>> /\ Stacked
      BY DEF Inv, objects
    <3>2. QED BY <3>1, StackKept DEF Stacked
  <2>6. QED BY <2>3, <2>4, <2>5
<1>7. QED
  BY <1>5, <1>6 DEF Inv

-----------------------------------------------------------------------------
(* Client code.                                                            *)

\* A move changes who owns the object, not how many do.
LEMMA MoveInv ==
  ASSUME Inv, NEW s \in Reachable, NEW t \in Reachable, Move(s, t)
  PROVE  Inv'
<1>1. ~threw /\ {s, t} \subseteq Slot /\ strong[s] = Null /\ strong[t] # Null /\ t \notin Releasing
  BY ReachableSlots DEF Move, Running
<1>2. /\ strong \in [Slot -> Obj \cup {Null}] /\ Null \notin Obj
      /\ strong' = [strong EXCEPT ![s] = strong[t], ![t] = Null]
      /\ UNCHANGED <<weak, m_tracked, m_target, memory, m_count, freed, stack, threw>>
  BY RefAssumption DEF Inv, Types, Move, objects, trackers
<1>3. s \notin Releasing
  <2>1. DOMAIN stack = 1..Len(stack)
    BY LenProperties DEF Inv, Types
  <2>2. QED BY <1>1, <1>2, <2>1 DEF Inv, Stacked, Releasing
<1>4. PICK o \in Obj : strong[t] = o
  BY <1>1, <1>2
<1>5. Types'
  BY <1>2, <1>4 DEF Inv, Types
<1>6. ASSUME NEW p \in Obj PROVE Owned(p)'
  <2>1. Owned(p) /\ Releasing' = Releasing
    BY <1>1, <1>2 DEF Inv, Releasing
  <2>2. CASE p = o
    <3>1. Owners(o)' = (Owners(o) \ {t}) \cup {s} /\ t \in Owners(o) /\ s \notin Owners(o)
      BY <1>1, <1>2, <1>3, <1>4, <2>1 DEF Owners
    <3>2. Cardinality(Owners(o)') = Cardinality(Owners(o))
      <4>1. IsFiniteSet(Owners(o)) /\ IsFiniteSet(Owners(o) \ {t})
        BY CountedFinite, FS_RemoveElement
      <4>2. Cardinality(Owners(o) \ {t}) = Cardinality(Owners(o)) - 1
        BY <3>1, <4>1, FS_RemoveElement
      <4>3. Cardinality(Owners(o)') = Cardinality(Owners(o) \ {t}) + 1
        BY <3>1, <4>1, FS_AddElement
      <4>4. QED BY <4>1, <4>2, <4>3, FS_CardinalityType
    <3>3. QED BY <1>2, <2>1, <2>2, <3>1, <3>2 DEF Owned
  <2>3. CASE p # o
    <3>1. Owners(p)' = Owners(p)
      BY <1>1, <1>2, <1>3, <1>4, <2>1, <2>3 DEF Owners
    <3>2. QED BY <1>2, <2>1, <3>1 DEF Owned
  <2>4. QED BY <2>2, <2>3
<1>7. Stacked'
  <2>1. ASSUME NEW k \in 1..Len(stack)
        PROVE /\ strong'[stack[k]] = strong[stack[k]]
              /\ memory'[strong[stack[k]]] \in {"dtor", "members"}
              /\ \A a \in OwnAt(k + 1) :
                   strong[a] \in Obj /\ memory[strong[a]] = "owned"
                     => strong'[a] = strong[a] /\ memory'[strong[a]] = "owned"
    <3>1. strong[stack[k]] \in Obj /\ memory[strong[stack[k]]] \in {"dtor", "members"}
      BY <1>1 DEF Inv, Stacked
    <3>2. stack[k] \in Slot /\ stack[k] \in Releasing
      BY LenProperties, ElementOfSeq DEF Inv, Types, Releasing
    <3>3. ASSUME NEW a \in OwnAt(k + 1), strong[a] \in Obj PROVE strong'[a] = strong[a]
      BY <1>1, <1>2, <3>3, OutOfReach, LevelSlots
    <3>4. QED BY <1>1, <1>2, <1>3, <3>1, <3>2, <3>3
  <2>2. QED BY <1>1, <1>2, <2>1, StackKept
<1>8. ASSUME NEW p \in Obj PROVE Stage(p)' /\ Watched(p)'
  <2>1. Stage(p) /\ Watched(p) /\ Watchers(p)' = Watchers(p)
    BY <1>1, <1>2 DEF Inv, Watchers
  <2>2. QED BY <1>2, <2>1 DEF Stage, Watched
<1>9. QED
  BY <1>5, <1>6, <1>7, <1>8 DEF Inv

\* new T: an object nobody points to begins its life.
LEMMA ConstructInv ==
  ASSUME Inv, NEW o \in Obj, Construct(o)
  PROVE  Inv'
<1>1. /\ ~threw /\ memory[o] = "fresh" /\ memory' = [memory EXCEPT ![o] = "raw"]
      /\ memory \in [Obj -> Lives]
      /\ UNCHANGED <<strong, weak, m_tracked, m_target, m_count, freed, stack, threw>>
  BY DEF Construct, Running, trackers, Inv, Types
<1>2. Types'
  BY <1>1 DEF Inv, Types, Lives
<1>3. ASSUME NEW p \in Obj PROVE Stage(p)' /\ Owned(p)' /\ Watched(p)'
  <2>1. Stage(p) /\ Owned(p) /\ Watched(p)
    BY <1>1 DEF Inv
  <2>2. Owners(p)' = Owners(p) /\ Watchers(p)' = Watchers(p)
    BY <1>1 DEF Owners, Watchers, Releasing
  <2>3. memory'[p] = IF p = o THEN "raw" ELSE memory[p]
    BY <1>1
  <2>4. Stage(p)'
    BY <1>1, <2>1, <2>3 DEF Stage
  <2>5. Owned(p)'
    BY <1>1, <2>1, <2>2, <2>3 DEF Owned
  <2>6. Watched(p)'
    BY <1>1, <2>1, <2>2, <2>3 DEF Watched
  <2>7. QED BY <2>4, <2>5, <2>6
<1>4. Stacked'
  <2>1. ASSUME NEW p \in Obj, memory[p] # "fresh" PROVE memory'[p] = memory[p]
    BY <1>1, <2>1
  <2>2. QED BY <1>1, <2>1, StackKept DEF Inv, Stacked
<1>5. QED
  BY <1>2, <1>3, <1>4 DEF Inv

-----------------------------------------------------------------------------
(* The counters are reduced.                                               *)

\* The pointers ~FPtr is called for: those the running code can reach, and the
\* members of the object whose members are being destroyed.
Releasable == Reachable \cup (IF stack = <<>> THEN {} ELSE {Dying} \X Member)

\* The last owner goes: the destructor of the object begins, one level further in.
LEMMA PushInv ==
  ASSUME Inv, ~threw, NEW s \in Releasable, s \in Slot, s \notin Releasing,
         NEW o \in Obj, strong[s] = o, m_tracked[o] = 1,
         m_tracked' = [m_tracked EXCEPT ![o] = COUNT_DESTROYING],
         memory' = [memory EXCEPT ![o] = "dtor"],
         stack' = <<s>> \o stack,
         UNCHANGED <<strong, weak, m_target, m_count, freed, threw>>
  PROVE  Inv'
<1>1. /\ stack \in Seq(Slot) /\ Len(stack) \in Nat /\ memory \in [Obj -> Lives]
      /\ DOMAIN stack = 1..Len(stack)
      /\ m_tracked \in [Obj -> Counter] /\ Null \notin Obj
  BY LenProperties, RefAssumption DEF Inv, Types
<1>2. /\ stack' \in Seq(Slot) /\ Len(stack') = Len(stack) + 1
      /\ stack'[1] = s /\ \A k \in 1..Len(stack) : stack'[k + 1] = stack[k]
      /\ DOMAIN stack' = 1..Len(stack) + 1
  <2>1. <<s>> \in Seq(Slot) /\ Len(<<s>>) = 1 /\ <<s>>[1] = s
    OBVIOUS
  <2>2. stack' \in Seq(Slot) /\ Len(stack') = Len(stack) + 1
    BY <1>1, <2>1, ConcatProperties
  <2>3. \A i \in 1..Len(stack) + 1 : stack'[i] = IF i <= 1 THEN <<s>>[i] ELSE stack[i - 1]
    BY <1>1, <2>1, ConcatProperties
  <2>4. QED BY <1>1, <2>1, <2>2, <2>3, LenProperties
<1>3. Types'
  <2>1. COUNT_DESTROYING \in Counter /\ "dtor" \in Lives
    BY RefAssumption DEF Counter, COUNT_DESTROYING, Lives
  <2>2. QED BY <1>1, <1>2, <2>1 DEF Inv, Types
<1>4. memory[o] = "owned" /\ Owners(o) = {s}
  <2>1. s \in Owners(o)
    BY DEF Owners
  <2>2. memory[o] = "owned" /\ Cardinality(Owners(o)) = 1
    BY <2>1 DEF Inv, Owned
  <2>3. \E x : Owners(o) = {x}
    BY <2>2, CountedFinite, FS_Singleton
  <2>4. QED BY <2>1, <2>2, <2>3
<1>5. Releasing' = Releasing \cup {s}
  <2>1. Releasing' = {stack'[k] : k \in 1..Len(stack) + 1}
    BY <1>2 DEF Releasing
  <2>2. \A k \in 1..Len(stack) + 1 : k = 1 \/ k - 1 \in 1..Len(stack)
    BY <1>1
  <2>3. \A k \in 1..Len(stack) : k + 1 \in 1..Len(stack) + 1 /\ (k + 1) - 1 = k
    BY <1>1
  <2>4. \A k \in 1..Len(stack) + 1 : stack'[k] = s \/ stack'[k] \in Releasing
    <3> TAKE k \in 1..Len(stack) + 1
    <3>1. CASE k = 1
      BY <1>2, <3>1
    <3>2. CASE k - 1 \in 1..Len(stack)
      <4>1. stack'[(k - 1) + 1] = stack[k - 1]
        BY <1>2, <3>2
      <4>2. (k - 1) + 1 = k
        OBVIOUS
      <4>3. QED BY <1>1, <3>2, <4>1, <4>2 DEF Releasing
    <3>3. QED BY <2>2, <3>1, <3>2
  <2>5. Releasing \subseteq Releasing'
    <3>1. \A k \in 1..Len(stack) : stack[k] = stack'[k + 1] /\ k + 1 \in 1..Len(stack) + 1
      BY <1>2, <2>3
    <3>2. \A k \in 1..Len(stack) : stack[k] \in Releasing'
      BY <2>1, <3>1
    <3>3. QED BY <1>1, <3>2 DEF Releasing
  <2>6. s \in Releasing'
    BY <1>1, <1>2, <2>1
  <2>7. QED BY <2>1, <2>4, <2>5, <2>6
<1>6. ASSUME NEW p \in Obj PROVE Stage(p)' /\ Owned(p)' /\ Watched(p)'
  <2>1. Stage(p) /\ Owned(p) /\ Watched(p)
    BY DEF Inv
  <2>2. /\ memory'[p] = IF p = o THEN "dtor" ELSE memory[p]
        /\ m_tracked'[p] = IF p = o THEN COUNT_DESTROYING ELSE m_tracked[p]
    BY <1>1
  <2>3. Owners(p)' = Owners(p) \ {s} /\ Watchers(p)' = Watchers(p)
    BY <1>5 DEF Owners, Watchers
  <2>4. p # o => s \notin Owners(p)
    BY DEF Owners
  <2>5. COUNT_DESTROYING \notin {COUNT_UNCLAIMED, 0}
    BY RefAssumption DEF COUNT_DESTROYING, COUNT_UNCLAIMED
  <2>6. Stage(p)'
    BY <1>4, <2>1, <2>2, <2>5 DEF Stage
  <2>7. Owned(p)'
    <3>1. CASE p = o
      BY <1>4, <2>2, <2>3, <3>1 DEF Owned
    <3>2. CASE p # o
      <4>1. Owners(p)' = Owners(p)
        BY <2>3, <2>4, <3>2
      <4>2. QED BY <2>1, <2>2, <3>2, <4>1 DEF Owned
    <3>3. QED BY <3>1, <3>2
  <2>8. Watched(p)'
    BY <1>4, <2>1, <2>2, <2>3 DEF Watched
  <2>9. QED BY <2>6, <2>7, <2>8
<1>7. ASSUME NEW k \in 1..Len(stack) + 1
      PROVE /\ strong'[stack'[k]] \in Obj
            /\ memory'[strong'[stack'[k]]] \in {"dtor", "members"}
            /\ Anchored(k)'
            /\ k # 1 => strong'[stack'[k]] # o
  <2>1. ASSUME NEW l \in Nat \ {0} PROVE OwnAt(l + 1)' = OwnAt(l)
    <3>1. CASE l > Len(stack)
      BY <1>1, <1>2, <3>1 DEF OwnAt
    <3>2. CASE ~(l > Len(stack))
      BY <1>1, <1>2, <3>2 DEF OwnAt
    <3>3. QED BY <3>1, <3>2
  <2>2. CASE k = 1
    <3>1. stack'[1] = s /\ memory'[o] = "dtor"
      BY <1>1, <1>2
    <3>2. OwnAt(2)' = Own
      BY <2>1, RunningLevel
    <3>3. Anchored(1)'
      <4>1. CASE s \in Own
        BY <3>1, <3>2, <4>1 DEF Anchored
      <4>2. CASE s \in Held \X Member
        <5>1. PICK p \in Held, m \in Member : s = <<p, m>>
          BY <4>2
        <5>2. PICK a \in Own : strong[a] = p
          BY <5>1 DEF Held
        <5>3. memory[p] = "owned" /\ p \in Obj
          BY <5>1 DEF Held
        <5>4. p # o
          <6>1. a \in Slot /\ a \notin Releasing
            BY <5>2, <5>3, Pointers, ReachableSlots, <1>1
          <6>2. p = o => a = s
            BY <1>4, <5>2, <6>1 DEF Owners
          <6>3. CASE stack = <<>>
            BY <4>2, <5>2, <6>2, <6>3, RefAssumption DEF Own, Held
          <6>4. CASE stack # <<>>
            <7>1. Dying \in Obj /\ memory[Dying] \in {"dtor", "members"}
              BY <6>4, RunningLevel, <1>1 DEF Inv, Stacked
            <7>2. PICK n \in Member : a = <<Dying, n>>
              BY <5>2, <6>4 DEF Own
            <7>3. a = s => Dying = p
              BY <5>1, <7>2
            <7>4. QED BY <5>3, <6>2, <7>1, <7>3
          <6>5. QED BY <6>3, <6>4
        <5>5. memory'[p] = "owned"
          BY <1>1, <5>3, <5>4
        <5>6. QED BY <3>1, <3>2, <5>1, <5>2, <5>3, <5>5 DEF Anchored
      <4>3. CASE stack # <<>> /\ s \in {Dying} \X Member
        BY <3>1, <3>2, <4>3 DEF Anchored, Own
      <4>4. QED BY <4>1, <4>2, <4>3 DEF Releasable, Reachable
    <3>4. QED BY <2>2, <3>1, <3>3
  <2>3. CASE k # 1
    <3> DEFINE l == k - 1
    <3>1. l \in 1..Len(stack) /\ l + 1 = k /\ stack'[k] = stack[l]
      BY <1>1, <1>2, <2>3
    <3> HIDE DEF l
    <3>2. /\ strong[stack[l]] \in Obj /\ memory[strong[stack[l]]] \in {"dtor", "members"}
          /\ Anchored(l)
      BY <3>1 DEF Inv, Stacked
    <3>3. strong[stack[l]] # o
      BY <1>4, <3>2
    <3>4. OwnAt(k + 1)' = OwnAt(l + 1)
      BY <1>1, <2>1, <3>1
    <3>5. Anchored(k)'
      <4>1. CASE stack[l] \in OwnAt(l + 1)
        BY <3>1, <3>4, <4>1 DEF Anchored
      <4>2. CASE \E a \in OwnAt(l + 1), p \in Obj, m \in Member :
                   stack[l] = <<p, m>> /\ strong[a] = p /\ memory[p] = "owned"
        <5>1. PICK a \in OwnAt(l + 1), p \in Obj, m \in Member :
                     stack[l] = <<p, m>> /\ strong[a] = p /\ memory[p] = "owned"
          BY <4>2
        <5>2. a \in Slot /\ a # s
          <6>1. l + 1 \in Nat \ {0}
            BY <1>1, <3>1
          <6>2. s \in Reachable \/ s \in {Dying} \X Member
            BY DEF Releasable
          <6>3. QED BY <3>1, <5>1, <6>1, <6>2, LevelSlots, OutOfReach
        <5>3. a \in Owners(p)
          BY <5>1, <5>2, <1>1, Pointers DEF Owners
        <5>4. p # o
          BY <1>4, <5>2, <5>3
        <5>5. memory'[p] = "owned"
          BY <1>1, <5>1, <5>4
        <5>6. QED BY <3>1, <3>4, <5>1, <5>5 DEF Anchored
      <4>3. QED BY <3>2, <4>1, <4>2 DEF Anchored
    <3>6. memory'[strong[stack[l]]] = memory[strong[stack[l]]]
      BY <1>1, <3>2, <3>3
    <3>7. QED BY <3>1, <3>2, <3>3, <3>5, <3>6
  <2>4. QED BY <2>2, <2>3
<1>8. Stacked'
  <2>1. ASSUME NEW k \in 1..Len(stack) + 1, NEW l \in 1..Len(stack) + 1,
               strong'[stack'[k]] = strong'[stack'[l]]
        PROVE k = l
    <3>1. CASE k = 1 \/ l = 1
      <4>1. CASE k = 1 /\ l = 1
        BY <4>1
      <4>2. CASE k = 1 /\ l # 1
        BY <1>2, <1>7, <2>1, <4>2
      <4>3. CASE k # 1 /\ l = 1
        BY <1>2, <1>7, <2>1, <4>3
      <4>4. QED BY <3>1, <4>1, <4>2, <4>3
    <3>2. CASE k # 1 /\ l # 1
      <4>1. k - 1 \in 1..Len(stack) /\ l - 1 \in 1..Len(stack)
        BY <1>1, <3>2
      <4>2. stack'[(k - 1) + 1] = stack[k - 1] /\ stack'[(l - 1) + 1] = stack[l - 1]
        BY <1>2, <4>1
      <4>3. (k - 1) + 1 = k /\ (l - 1) + 1 = l
        OBVIOUS
      <4>4. strong[stack[k - 1]] = strong[stack[l - 1]]
        BY <2>1, <4>2, <4>3
      <4>5. k - 1 = l - 1
        BY <4>1, <4>4 DEF Inv, Stacked
      <4>6. QED BY <4>3, <4>5
    <3>3. QED BY <3>1, <3>2
  <2>2. 1..Len(stack)' = 1..Len(stack) + 1
    BY <1>2
  <2>3. \A k, l \in 1..Len(stack)' : strong'[stack'[k]] = strong'[stack'[l]] => k = l
    BY <2>1, <2>2
  <2>4. QED BY <1>7, <2>2, <2>3 DEF Stacked
<1>9. QED
  BY <1>3, <1>6, <1>8 DEF Inv

\* An owner of several goes.
LEMMA ReduceInv ==
  ASSUME Inv, ~threw, NEW s \in Releasable, s \in Slot, s \notin Releasing,
         NEW o \in Obj, strong[s] = o, m_tracked[o] # 1,
         m_tracked' = [m_tracked EXCEPT ![o] = @ - 1],
         strong' = [strong EXCEPT ![s] = Null],
         UNCHANGED <<weak, m_target, memory, m_count, freed, stack, threw>>
  PROVE  Inv'
<1>1. /\ strong \in [Slot -> Obj \cup {Null}] /\ m_tracked \in [Obj -> Counter]
      /\ Null \notin Obj /\ COUNT_MAX \in Nat
  BY RefAssumption DEF Inv, Types
<1>2. s \in Owners(o) /\ Releasing' = Releasing
  BY DEF Owners, Releasing
<1>3. /\ memory[o] = "owned" /\ m_tracked[o] \in 1..COUNT_MAX
      /\ m_tracked[o] = Cardinality(Owners(o))
  BY <1>2 DEF Inv, Stage, Owned
<1>4. /\ m_tracked'[o] = m_tracked[o] - 1 /\ m_tracked'[o] \in 1..COUNT_MAX
      /\ m_tracked'[o] \in Counter
  BY <1>1, <1>3 DEF Counter, COUNT_DESTROYING
<1>5. Types'
  <2>1. strong' \in [Slot -> Obj \cup {Null}]
    BY <1>1
  <2>2. m_tracked' \in [Obj -> Counter]
    BY <1>1, <1>4
  <2>3. QED BY <2>1, <2>2 DEF Inv, Types
<1>6. ASSUME NEW p \in Obj PROVE Stage(p)' /\ Owned(p)' /\ Watched(p)'
  <2>1. Stage(p) /\ Owned(p) /\ Watched(p)
    BY DEF Inv
  <2>2. Watchers(p)' = Watchers(p)
    BY DEF Watchers
  <2>3. CASE p = o
    <3>1. Owners(o)' = Owners(o) \ {s}
      BY <1>1, <1>2 DEF Owners
    <3>2. Cardinality(Owners(o)') = Cardinality(Owners(o)) - 1
      BY <1>2, <3>1, CountedFinite, FS_RemoveElement
    <3>3. Owners(o)' # {}
      <4>1. Cardinality(Owners(o)') # 0
        BY <1>3, <1>4, <3>2
      <4>2. QED BY <4>1, FS_EmptySet
    <3>4. Owned(p)'
      BY <1>3, <1>4, <2>3, <3>2, <3>3 DEF Owned
    <3>5. m_tracked'[o] \notin {COUNT_UNCLAIMED, COUNT_DESTROYING, 0}
      BY <1>1, <1>4 DEF COUNT_UNCLAIMED, COUNT_DESTROYING
    <3>6. Stage(p)'
      BY <1>3, <1>4, <2>1, <2>3, <3>5 DEF Stage
    <3>7. Watched(p)'
      BY <2>1, <2>2 DEF Watched
    <3>8. QED BY <3>4, <3>6, <3>7
  <2>4. CASE p # o
    <3>1. Owners(p)' = Owners(p) /\ m_tracked'[p] = m_tracked[p]
      BY <1>1, <1>2, <2>4 DEF Owners
    <3>2. QED BY <2>1, <2>2, <3>1 DEF Stage, Owned, Watched
  <2>5. QED BY <2>3, <2>4
<1>7. Stacked'
  <2>1. ASSUME NEW k \in 1..Len(stack)
        PROVE /\ strong'[stack[k]] = strong[stack[k]]
              /\ memory'[strong[stack[k]]] \in {"dtor", "members"}
              /\ \A a \in OwnAt(k + 1) :
                   strong[a] \in Obj /\ memory[strong[a]] = "owned"
                     => strong'[a] = strong[a] /\ memory'[strong[a]] = "owned"
    <3>1. strong[stack[k]] \in Obj /\ memory[strong[stack[k]]] \in {"dtor", "members"}
      BY DEF Inv, Stacked
    <3>2. stack[k] \in Slot /\ stack[k] \in Releasing
      BY LenProperties, ElementOfSeq DEF Inv, Types, Releasing
    <3>3. ASSUME NEW a \in OwnAt(k + 1) PROVE strong'[a] = strong[a]
      <4>1. k + 1 \in Nat \ {0}
        BY LenProperties DEF Inv, Types
      <4>2. a # s
        BY OutOfReach DEF Releasable
      <4>3. a \in Slot
        BY <4>1, LevelSlots
      <4>4. QED BY <1>1, <4>2, <4>3
    <3>4. QED BY <1>1, <3>1, <3>2, <3>3
  <2>2. QED BY <2>1, StackKept
<1>8. QED
  BY <1>5, <1>6, <1>7 DEF Inv

\* ~FPtr: the two cases above.  Neither of the others can occur.
LEMMA ReleaseInv ==
  ASSUME Inv, ~threw, NEW s \in Releasable, s \in Slot, s \notin Releasing,
         strong[s] # Null, Release(s), UNCHANGED <<weak, m_target, trackers>>
  PROVE  Inv'
<1>1. PICK o \in Obj : o = strong[s]
  BY Pointers
<1>2. memory[o] = "owned"
  BY <1>1, Pointers
<1>3. m_tracked[o] \notin {COUNT_DESTROYING, COUNT_UNCLAIMED, 0}
  BY <1>2 DEF Inv, Stage
<1>4. CASE m_tracked[o] = 1
  <2>1. /\ m_tracked' = [m_tracked EXCEPT ![o] = COUNT_DESTROYING]
        /\ memory' = [memory EXCEPT ![o] = "dtor"]
        /\ stack' = <<s>> \o stack
        /\ UNCHANGED <<strong, threw>>
    BY <1>1, <1>3, <1>4 DEF Release
  <2>2. QED BY <1>1, <1>4, <2>1, PushInv DEF trackers
<1>5. CASE m_tracked[o] # 1
  <2>1. /\ m_tracked' = [m_tracked EXCEPT ![o] = @ - 1]
        /\ strong' = [strong EXCEPT ![s] = Null]
        /\ UNCHANGED <<memory, stack, threw>>
    BY <1>1, <1>3, <1>5 DEF Release
  <2>2. QED BY <1>1, <1>5, <2>1, ReduceInv DEF trackers
<1>6. QED BY <1>4, <1>5

\* ~FWeakPtr, and the deletion of a tracker nothing points to any more.
LEMMA WReleaseInv ==
  ASSUME Inv, ~threw, NEW w \in WSlot, weak[w] # Null, WRelease(w),
         UNCHANGED <<strong, m_tracked, memory, stack>>
  PROVE  Inv'
<1>1. /\ weak \in [WSlot -> Obj \cup {Null}] /\ m_count \in [Obj -> Counter]
      /\ Null \notin Obj /\ COUNT_MAX \in Nat /\ freed \subseteq Obj
  BY RefAssumption DEF Inv, Types
<1>2. PICK o \in Obj : o = weak[w]
  BY <1>1
<1>3. w \in Watchers(o)
  BY <1>2 DEF Watchers
<1>4. m_count[o] \in 1..COUNT_MAX /\ m_count[o] = Cardinality(Watchers(o)) /\ o \notin freed
  <2>1. m_count[o] = Cardinality(Watchers(o)) /\ m_count[o] \in 0..COUNT_MAX /\ o \notin freed
    BY <1>3 DEF Inv, Watched, Stage
  <2>2. m_count[o] # 0
    BY <1>3, <2>1, CountedFinite, FS_EmptySet
  <2>3. QED BY <2>1, <2>2
<1>5. /\ m_count' = [m_count EXCEPT ![o] = @ - 1]
      /\ weak' = [weak EXCEPT ![w] = Null]
      /\ UNCHANGED <<m_target, threw>>
      /\ TrackerDone(o)
  <2>1. m_count[o] \notin {COUNT_UNCLAIMED, 0}
    BY <1>1, <1>4 DEF COUNT_UNCLAIMED
  <2>2. QED BY <1>2, <2>1 DEF WRelease
<1>6. m_count'[o] = m_count[o] - 1 /\ m_count'[o] \in 0..COUNT_MAX /\ m_count'[o] \in Counter
  BY <1>1, <1>4, <1>5 DEF Counter, COUNT_DESTROYING
<1>7. /\ Watchers(o)' = Watchers(o) \ {w}
      /\ Cardinality(Watchers(o)') = m_count'[o]
      /\ \A p \in Obj : p # o => Watchers(p)' = Watchers(p) /\ m_count'[p] = m_count[p]
  <2>1. Watchers(o)' = Watchers(o) \ {w}
    BY <1>1, <1>2, <1>5 DEF Watchers
  <2>2. Cardinality(Watchers(o)') = Cardinality(Watchers(o)) - 1
    BY <1>3, <2>1, CountedFinite, FS_RemoveElement
  <2>3. \A p \in Obj : p # o => Watchers(p)' = Watchers(p) /\ m_count'[p] = m_count[p]
    BY <1>1, <1>2, <1>5 DEF Watchers
  <2>4. QED BY <1>4, <1>6, <2>1, <2>2, <2>3
<1>8. Types'
  <2>1. weak' \in [WSlot -> Obj \cup {Null}]
    BY <1>1, <1>5
  <2>2. m_count' \in [Obj -> Counter]
    BY <1>1, <1>5, <1>6
  <2>3. freed' \subseteq Obj
    BY <1>1, <1>5 DEF TrackerDone
  <2>4. QED BY <1>5, <2>1, <2>2, <2>3 DEF Inv, Types
<1>9. ASSUME NEW p \in Obj PROVE Stage(p)' /\ Owned(p)' /\ Watched(p)'
  <2>1. Stage(p) /\ Owned(p) /\ Watched(p)
    BY DEF Inv
  <2>2. m_count'[p] \in 0..COUNT_MAX
    BY <1>6, <1>7, <2>1 DEF Stage
  <2>3. Stage(p)'
    BY <1>5, <2>1, <2>2 DEF Stage
  <2>4. Owned(p)'
    <3>1. Owners(p)' = Owners(p)
      BY DEF Owners, Releasing
    <3>2. QED BY <2>1, <3>1 DEF Owned
  <2>5. Watched(p)'
    <3>1. CASE p = o
      <4>1. m_count'[o] = 0 <=> Watchers(o)' = {}
        BY <1>7, FS_EmptySet, CountedFinite, FS_RemoveElement
      <4>2. o \in freed' <=> memory[o] = "deleted" /\ Watchers(o)' = {}
        BY <1>4, <1>5, <2>1, <3>1, <4>1 DEF TrackerDone, Stage
      <4>3. memory[o] = "fresh" => Watchers(o)' = {}
        BY <1>7, <2>1, <3>1 DEF Watched
      <4>4. QED BY <1>7, <3>1, <4>2, <4>3 DEF Watched
    <3>2. CASE p # o
      <4>1. p \in freed' <=> p \in freed
        BY <1>5, <3>2 DEF TrackerDone
      <4>2. QED BY <1>7, <2>1, <3>2, <4>1 DEF Watched
    <3>3. QED BY <3>1, <3>2
  <2>6. QED BY <2>3, <2>4, <2>5
<1>10. Stacked'
  BY StackKept DEF Inv, Stacked
<1>11. QED
  BY <1>8, <1>9, <1>10 DEF Inv

-----------------------------------------------------------------------------
(* A destructor goes on.                                                   *)

\* The body of a destructor returns.
LEMMA BodyDoneInv == Inv /\ BodyDone => Inv'
<1> SUFFICES ASSUME Inv, BodyDone PROVE Inv'
  OBVIOUS
<1>1. /\ ~threw /\ Dying \in Obj /\ memory[Dying] = "dtor"
      /\ memory' = [memory EXCEPT ![Dying] = "members"]
      /\ UNCHANGED <<strong, weak, m_tracked, m_target, m_count, freed, stack, threw>>
  BY ReachableSlots DEF BodyDone, trackers
<1>2. memory \in [Obj -> Lives]
  BY DEF Inv, Types
<1>3. Types'
  BY <1>1, <1>2 DEF Inv, Types, Lives
<1>4. ASSUME NEW p \in Obj
      PROVE memory'[p] = IF p = Dying THEN "members" ELSE memory[p]
  BY <1>1, <1>2
<1>5. ASSUME NEW p \in Obj PROVE Stage(p)' /\ Owned(p)' /\ Watched(p)'
  <2>1. Stage(p) /\ Owned(p) /\ Watched(p)
    BY <1>1 DEF Inv
  <2>2. Owners(p)' = Owners(p) /\ Watchers(p)' = Watchers(p)
    BY <1>1 DEF Owners, Watchers, Releasing
  <2>3. Stage(p)'
    BY <1>1, <1>4, <2>1 DEF Stage
  <2>4. Owned(p)'
    BY <1>1, <1>4, <2>1, <2>2 DEF Owned
  <2>5. Watched(p)'
    BY <1>1, <1>4, <2>1, <2>2 DEF Watched
  <2>6. QED BY <2>3, <2>4, <2>5
<1>6. Stacked'
  BY <1>1, <1>4, StackKept DEF Inv, Stacked
<1>7. QED
  BY <1>3, <1>5, <1>6 DEF Inv

\* While the members of an object are destroyed none of them is being released
\* further out: that level would have to run code of the object, or of one that
\* owns it.
LEMMA MembersFree ==
  ASSUME Inv, ~threw, stack # <<>>, memory[Dying] = "members", NEW m \in Member
  PROVE  <<Dying, m>> \notin Releasing
<1>1. /\ Len(stack) \in Nat \ {0} /\ Dying = strong[stack[1]] /\ DOMAIN stack = 1..Len(stack)
      /\ Dying \in Obj
  BY RunningLevel, ReachableSlots, LenProperties DEF Inv, Types
<1>2. SUFFICES ASSUME NEW k \in 1..Len(stack), stack[k] = <<Dying, m>> PROVE FALSE
  BY <1>1 DEF Releasing
<1>3. Anchored(k)
  BY DEF Inv, Stacked
<1>4. CASE stack[k] \in OwnAt(k + 1)
  <2>1. stack[k] # <<Dying, m>>
    BY <1>4, OutOfReach
  <2>2. QED BY <1>2, <2>1
<1>5. CASE \E s \in OwnAt(k + 1), o \in Obj, n \in Member :
             stack[k] = <<o, n>> /\ strong[s] = o /\ memory[o] = "owned"
  BY <1>2, <1>5
<1>6. QED BY <1>3, <1>4, <1>5 DEF Anchored

\* A member goes.
LEMMA DestroyMemberInv == Inv /\ DestroyMember => Inv'
<1> SUFFICES ASSUME Inv, DestroyMember PROVE Inv'
  OBVIOUS
<1>1. ~threw /\ stack # <<>> /\ memory[Dying] = "members" /\ Dying \in Obj
  BY ReachableSlots DEF DestroyMember
<1>2. ASSUME NEW m \in Member, strong[<<Dying, m>>] # Null, Release(<<Dying, m>>),
             UNCHANGED <<weak, m_target, trackers>>
      PROVE Inv'
  <2>1. <<Dying, m>> \in Slot /\ <<Dying, m>> \in Releasable
    BY <1>1 DEF Slot, Releasable
  <2>2. QED BY <1>1, <1>2, <2>1, MembersFree, ReleaseInv
<1>3. ASSUME NEW m \in WMember, weak[<<Dying, m>>] # Null, WRelease(<<Dying, m>>),
             UNCHANGED <<strong, m_tracked, memory, stack>>
      PROVE Inv'
  <2>1. <<Dying, m>> \in WSlot
    BY <1>1 DEF WSlot
  <2>2. QED BY <1>1, <1>3, <2>1, WReleaseInv
<1>4. QED
  BY <1>2, <1>3 DEF DestroyMember

\* The object is gone: its level ends, and its pointer is null.
LEMMA DestroyedInv == Inv /\ Destroyed => Inv'
<1> SUFFICES ASSUME Inv, Destroyed PROVE Inv'
  OBVIOUS
<1> DEFINE d == Dying
           h == stack[1]
<1>1. /\ ~threw /\ stack # <<>> /\ memory[d] = "members" /\ d \in Obj
      /\ Len(stack) \in Nat \ {0} /\ d = strong[h] /\ Head(stack) = h
      /\ h \in Slot /\ stack \in Seq(Slot) /\ DOMAIN stack = 1..Len(stack)
  BY ReachableSlots, RunningLevel, LenProperties, ElementOfSeq DEF Destroyed, Inv, Types
<1>2. /\ memory' = [memory EXCEPT ![d] = "deleted"]
      /\ m_tracked' = [m_tracked EXCEPT ![d] = 0]
      /\ m_target' = [m_target EXCEPT ![d] = FALSE]
      /\ strong' = [strong EXCEPT ![h] = Null]
      /\ stack' = Tail(stack)
      /\ UNCHANGED <<weak, m_count, threw>>
      /\ TrackerDone(d)
  BY <1>1 DEF Destroyed
<1>3. /\ strong \in [Slot -> Obj \cup {Null}] /\ m_tracked \in [Obj -> Counter]
      /\ memory \in [Obj -> Lives] /\ m_target \in [Obj -> BOOLEAN]
      /\ Null \notin Obj /\ COUNT_MAX \in Nat /\ freed \subseteq Obj
  BY RefAssumption DEF Inv, Types
<1> HIDE DEF d, h
<1>4. /\ stack' \in Seq(Slot) /\ Len(stack') = Len(stack) - 1
      /\ \A k \in 1..Len(stack') : stack'[k] = stack[k + 1]
      /\ DOMAIN stack' = 1..Len(stack')
  <2>1. stack' \in Seq(Slot) /\ Len(stack') = Len(stack) - 1
        /\ \A k \in 1..Len(stack') : stack'[k] = stack[k + 1]
    BY <1>1, <1>2, HeadTailProperties
  <2>2. QED BY <2>1, LenProperties
<1>5. Types'
  <2>1. 0 \in Counter /\ "deleted" \in Lives
    BY <1>3 DEF Counter, COUNT_DESTROYING, Lives
  <2>2. freed' \subseteq Obj
    BY <1>1, <1>2, <1>3 DEF TrackerDone
  <2>3. strong' \in [Slot -> Obj \cup {Null}]
    BY <1>2, <1>3
  <2>4. m_tracked' \in [Obj -> Counter]
    BY <1>2, <1>3, <2>1
  <2>5. memory' \in [Obj -> Lives] /\ m_target' \in [Obj -> BOOLEAN]
    BY <1>2, <1>3, <2>1
  <2>6. QED BY <1>2, <1>4, <2>2, <2>3, <2>4, <2>5 DEF Inv, Types
<1>6. /\ \A k \in 1..Len(stack') : /\ k + 1 \in 1..Len(stack) /\ k + 1 # 1
                                  /\ stack'[k] = stack[k + 1]
                                  /\ strong[stack[k + 1]] # d /\ stack[k + 1] # h
      /\ \A k \in 1..Len(stack) : k = 1 \/ k - 1 \in 1..Len(stack')
  <2>1. ASSUME NEW k \in 1..Len(stack')
        PROVE k + 1 \in 1..Len(stack) /\ k + 1 # 1 /\ strong[stack[k + 1]] # d
    <3>1. k + 1 \in 1..Len(stack) /\ k + 1 # 1 /\ 1 \in 1..Len(stack)
      BY <1>1, <1>4
    <3>2. QED BY <1>1, <3>1 DEF Inv, Stacked, h
  <2>2. \A k \in 1..Len(stack) : k = 1 \/ k - 1 \in 1..Len(stack')
    BY <1>1, <1>4
  <2>3. QED BY <1>1, <1>4, <2>1, <2>2
<1>7. Releasing' = Releasing \ {h}
  <2>1. Releasing' = {stack'[k] : k \in 1..Len(stack')} /\ Releasing = {stack[k] : k \in 1..Len(stack)}
    BY <1>1, <1>4 DEF Releasing
  <2>2. Releasing' \subseteq Releasing \ {h}
    BY <1>6, <2>1
  <2>3. ASSUME NEW k \in 1..Len(stack), stack[k] # h PROVE stack[k] \in Releasing'
    <3>1. k # 1 /\ k - 1 \in 1..Len(stack')
      BY <1>6, <2>3 DEF h
    <3>2. stack'[k - 1] = stack[(k - 1) + 1] /\ (k - 1) + 1 = k
      BY <1>6, <3>1
    <3>3. QED BY <2>1, <3>1, <3>2
  <2>4. QED BY <2>1, <2>2, <2>3
<1>8. ASSUME NEW p \in Obj
      PROVE /\ Owners(p)' = Owners(p) /\ Watchers(p)' = Watchers(p)
            /\ memory'[p] = IF p = d THEN "deleted" ELSE memory[p]
            /\ m_tracked'[p] = IF p = d THEN 0 ELSE m_tracked[p]
            /\ m_target'[p] = IF p = d THEN FALSE ELSE m_target[p]
  <2>1. h \in Releasing
    BY <1>1 DEF Releasing, h
  <2>2. \A s \in Slot : s # h => strong'[s] = strong[s]
    BY <1>2, <1>3
  <2>3. strong'[h] = Null
    BY <1>1, <1>2, <1>3
  <2>4. Owners(p)' = Owners(p)
    BY <1>3, <1>7, <2>1, <2>2, <2>3 DEF Owners
  <2>5. Watchers(p)' = Watchers(p)
    BY <1>2 DEF Watchers
  <2>6. QED BY <1>2, <1>3, <2>4, <2>5
<1>9. ASSUME NEW p \in Obj PROVE Stage(p)' /\ Owned(p)' /\ Watched(p)'
  <2>1. Stage(p) /\ Owned(p) /\ Watched(p)
    BY <1>1 DEF Inv
  <2>2. COUNT_UNCLAIMED # 0 /\ COUNT_DESTROYING # 0
    BY <1>3 DEF COUNT_UNCLAIMED, COUNT_DESTROYING
  <2>3. Stage(p)'
    <3>1. CASE p = d
      <4>1. memory'[d] = "deleted" /\ m_tracked'[d] = 0 /\ m_target'[d] = FALSE
        BY <1>1, <1>8
      <4>2. m_count'[d] \in 0..COUNT_MAX
        BY <1>2, <2>1, <3>1 DEF Stage
      <4>3. QED BY <2>2, <3>1, <4>1, <4>2 DEF Stage
    <3>2. CASE p # d
      BY <1>2, <1>8, <2>1, <3>2 DEF Stage
    <3>3. QED BY <3>1, <3>2
  <2>4. Owned(p)'
    BY <1>1, <1>8, <2>1 DEF Owned
  <2>5. Watched(p)'
    <3>1. CASE p = d
      <4>1. m_count[p] = 0 <=> Watchers(p) = {}
        BY <2>1, FS_EmptySet, CountedFinite DEF Watched
      <4>2. m_target'[p] = FALSE /\ freed' = IF m_count'[p] = 0 THEN freed \cup {p} ELSE freed
        BY <1>2, <1>8, <3>1 DEF TrackerDone
      <4>3. p \in freed' <=> Watchers(p) = {}
        BY <1>1, <1>2, <2>1, <3>1, <4>1, <4>2 DEF Watched
      <4>4. memory'[p] = "deleted" /\ Watchers(p)' = Watchers(p)
        BY <1>8, <3>1
      <4>5. m_count'[p] = Cardinality(Watchers(p)')
        BY <1>2, <2>1, <4>4 DEF Watched
      <4>6. QED BY <4>3, <4>4, <4>5 DEF Watched
    <3>2. CASE p # d
      <4>1. p \in freed' <=> p \in freed
        BY <1>2, <3>2 DEF TrackerDone
      <4>2. QED BY <1>2, <1>8, <2>1, <3>2, <4>1 DEF Watched
    <3>3. QED BY <3>1, <3>2
  <2>6. QED BY <2>3, <2>4, <2>5
<1>10. ASSUME NEW k \in 1..Len(stack')
       PROVE /\ strong'[stack'[k]] = strong[stack[k + 1]]
             /\ strong'[stack'[k]] \in Obj
             /\ memory'[strong'[stack'[k]]] \in {"dtor", "members"}
             /\ Anchored(k)'
  <2>1. /\ k + 1 \in 1..Len(stack) /\ stack'[k] = stack[k + 1] /\ stack[k + 1] # h
        /\ strong[stack[k + 1]] # d
    BY <1>6
  <2>2. /\ strong[stack[k + 1]] \in Obj
        /\ memory[strong[stack[k + 1]]] \in {"dtor", "members"}
        /\ Anchored(k + 1)
    BY <1>1, <2>1 DEF Inv, Stacked
  <2>3. stack[k + 1] \in Slot
    BY <1>1, <2>1, ElementOfSeq
  <2>4. strong'[stack'[k]] = strong[stack[k + 1]]
    BY <1>2, <1>3, <2>1, <2>3
  <2>5. OwnAt(k + 1)' = OwnAt((k + 1) + 1)
    <3>1. CASE k + 1 > Len(stack')
      BY <1>1, <1>4, <3>1 DEF OwnAt
    <3>2. CASE ~(k + 1 > Len(stack'))
      <4>1. k + 1 \in 1..Len(stack') /\ ~((k + 1) + 1 > Len(stack))
        BY <1>1, <1>4, <3>2
      <4>2. stack'[k + 1] = stack[(k + 1) + 1] /\ stack[(k + 1) + 1] # h
            /\ (k + 1) + 1 \in 1..Len(stack)
        BY <1>6, <4>1
      <4>3. strong'[stack'[k + 1]] = strong[stack[(k + 1) + 1]]
        BY <1>1, <1>2, <1>3, <4>2, ElementOfSeq
      <4>4. QED BY <3>2, <4>1, <4>3 DEF OwnAt
    <3>3. QED BY <3>1, <3>2
  <2>6. Anchored(k)'
    <3>1. CASE stack[k + 1] \in OwnAt((k + 1) + 1)
      BY <2>1, <2>5, <3>1 DEF Anchored
    <3>2. CASE \E s \in OwnAt((k + 1) + 1), o \in Obj, m \in Member :
                 stack[k + 1] = <<o, m>> /\ strong[s] = o /\ memory[o] = "owned"
      <4>1. PICK s \in OwnAt((k + 1) + 1), o \in Obj, m \in Member :
                   stack[k + 1] = <<o, m>> /\ strong[s] = o /\ memory[o] = "owned"
        BY <3>2
      <4>2. (k + 1) + 1 \in Nat \ {0}
        BY <1>1, <2>1
      <4>3. s \in Slot
        BY <1>1, <4>1, <4>2, LevelSlots
      <4>4. o # d /\ s # h
        BY <1>1, <4>1
      <4>5. strong'[s] = o /\ memory'[o] = "owned"
        BY <1>2, <1>3, <4>1, <4>3, <4>4
      <4>6. QED BY <2>1, <2>5, <4>1, <4>5 DEF Anchored
    <3>3. QED BY <2>2, <3>1, <3>2 DEF Anchored
  <2>7. memory'[strong[stack[k + 1]]] = memory[strong[stack[k + 1]]]
    BY <1>2, <1>3, <2>1, <2>2
  <2>8. QED BY <2>2, <2>4, <2>6, <2>7
<1>11. Stacked'
  <2>1. ASSUME NEW k \in 1..Len(stack'), NEW l \in 1..Len(stack'),
               strong'[stack'[k]] = strong'[stack'[l]]
        PROVE k = l
    <3>1. strong[stack[k + 1]] = strong[stack[l + 1]]
      BY <1>10, <2>1
    <3>2. k + 1 = l + 1
      BY <1>1, <1>6, <3>1 DEF Inv, Stacked
    <3>3. QED BY <3>2
  <2>2. QED BY <1>10, <2>1 DEF Stacked
<1>12. QED
  BY <1>5, <1>9, <1>11 DEF Inv

-----------------------------------------------------------------------------
(* Every step, and what follows for the specification.                     *)

\* Before anything is allocated.
LEMMA InitInv == Init => Inv
<1> SUFFICES ASSUME Init PROVE Inv
  OBVIOUS
<1>1. COUNT_MAX \in Nat \ {0} /\ Null \notin Obj
  BY RefAssumption
<1>2. Types
  <2>1. COUNT_UNCLAIMED \in Counter /\ 0 \in Counter /\ "fresh" \in Lives
    BY <1>1 DEF Counter, COUNT_UNCLAIMED, COUNT_DESTROYING, Lives
  <2>2. strong \in [Slot -> Obj \cup {Null}] /\ weak \in [WSlot -> Obj \cup {Null}]
    BY DEF Init
  <2>3. m_tracked \in [Obj -> Counter] /\ m_count \in [Obj -> Counter]
    BY <2>1 DEF Init
  <2>4. m_target \in [Obj -> BOOLEAN] /\ memory \in [Obj -> Lives]
    BY <2>1 DEF Init
  <2>5. freed \subseteq Obj /\ stack \in Seq(Slot) /\ threw \in BOOLEAN
    BY EmptySeq DEF Init
  <2>6. QED BY <2>2, <2>3, <2>4, <2>5 DEF Types
<1>3. Len(stack) = 0 /\ Releasing = {}
  BY DEF Init, Releasing
<1>4. ASSUME NEW o \in Obj PROVE Stage(o) /\ Owned(o) /\ Watched(o)
  <2>1. memory[o] = "fresh" /\ m_tracked[o] = COUNT_UNCLAIMED /\ m_count[o] = 0
        /\ m_target[o] = TRUE /\ freed = {}
    BY DEF Init
  <2>2. Owners(o) = {} /\ Watchers(o) = {}
    BY <1>1 DEF Init, Owners, Watchers
  <2>3. Stage(o)
    BY <1>1, <2>1 DEF Stage, COUNT_UNCLAIMED, COUNT_DESTROYING
  <2>4. Owned(o) /\ Watched(o)
    BY <2>1, <2>2, FS_EmptySet DEF Owned, Watched
  <2>5. QED BY <2>3, <2>4
<1>5. Stacked
  BY <1>3 DEF Stacked
<1>6. QED
  BY <1>2, <1>4, <1>5 DEF Inv

\* new T is owned by its first FPtr, or the limit is exceeded.
LEMMA ClaimInv ==
  ASSUME Inv, NEW s \in Own, NEW o \in Obj, Claim(s, o)
  PROVE  Inv'
<1>1. ~threw /\ s \in Slot /\ strong[s] = Null /\ memory[o] = "raw"
  BY ReachableSlots DEF Claim, Running
<1>2. memory' = [memory EXCEPT ![o] = "owned"] /\ memory' \in [Obj -> Lives]
  BY DEF Claim, Inv, Types, Lives
<1>3. QED
  BY <1>1, <1>2, AcquireInv DEF Claim

\* A copy of a pointer owns what the pointer does; a copy of one that is being
\* released throws.
LEMMA CopyInv ==
  ASSUME Inv, NEW s \in Reachable, NEW t \in Reachable, Copy(s, t)
  PROVE  Inv'
<1>1. ~threw /\ s \in Slot /\ t \in Slot /\ strong[s] = Null /\ strong[t] # Null
  BY ReachableSlots DEF Copy, Running
<1>2. PICK o \in Obj : o = strong[t]
  BY <1>1, Pointers
<1>3. m_tracked[o] = COUNT_DESTROYING \/ memory[o] = "owned"
  BY <1>1, <1>2, Pointers DEF Inv, Stage
<1>4. memory' = memory /\ memory \in [Obj -> Lives]
  BY DEF Copy, Inv, Types
<1>5. memory[o] \in {"raw", "owned"} => memory' = [memory EXCEPT ![o] = "owned"]
  <2>1. memory[o] # "raw"
    BY <1>1, <1>3 DEF Inv, Stage, COUNT_DESTROYING, COUNT_UNCLAIMED
  <2>2. QED BY <1>4, <2>1
<1>6. QED
  BY <1>1, <1>2, <1>3, <1>4, <1>5, AcquireInv DEF Copy

\* lock() owns an object that is not destroyed, or throws.
LEMMA LockInv ==
  ASSUME Inv, NEW s \in Own, NEW w \in WReachable, Lock(s, w)
  PROVE  Inv'
<1>1. ~threw /\ s \in Slot /\ w \in WSlot /\ strong[s] = Null /\ weak[w] # Null
  BY ReachableSlots DEF Lock, Running
<1>2. PICK o \in Obj : o = weak[w]
  BY <1>1 DEF Inv, Types
<1>3. /\ memory[o] # "raw" /\ memory' = memory /\ memory \in [Obj -> Lives]
      /\ UNCHANGED <<weak, m_target, trackers, stack>>
  BY <1>2 DEF Lock, Inv, Types
<1>4. CASE m_tracked[o] = 0
  <2>1. threw' = TRUE /\ UNCHANGED <<strong, m_tracked>>
    BY <1>2, <1>4 DEF Lock
  <2>2. QED BY <1>3, <2>1 DEF Inv, Types, trackers
<1>5. CASE m_tracked[o] # 0
  <2>1. Acquire(s, o)
    BY <1>2, <1>5 DEF Lock
  <2>2. memory[o] # "fresh"
    <3>1. w \in Watchers(o)
      BY <1>1, <1>2 DEF Watchers
    <3>2. QED BY <1>1, <3>1 DEF Inv, Watched
  <2>3. m_tracked[o] = COUNT_DESTROYING \/ memory[o] = "owned"
    BY <1>1, <1>3, <1>5, <2>2 DEF Inv, Types, Stage, Lives
  <2>4. memory[o] \in {"raw", "owned"} => memory' = [memory EXCEPT ![o] = "owned"]
    BY <1>3
  <2>5. QED BY <1>1, <1>3, <2>1, <2>3, <2>4, AcquireInv
<1>6. QED BY <1>4, <1>5

\* What can be watched is alive, if only in its constructor.
LEMMA WatchInv ==
  ASSUME Inv, NEW w \in WReachable, NEW o \in Obj, Watch(w, o)
  PROVE  Inv'
<1>1. ~threw /\ w \in WSlot /\ weak[w] = Null
  BY ReachableSlots DEF Watch, Running
<1>2. memory[o] \notin {"fresh", "deleted"}
  <2>1. CASE memory[o] = "raw"
    BY <2>1
  <2>2. CASE \E s \in Reachable : o = strong[s]
    <3>1. PICK s \in Reachable : o = strong[s]
      BY <2>2
    <3>2. s \in Slot /\ strong[s] # Null
      BY <1>1, <3>1, ReachableSlots, RefAssumption
    <3>3. QED BY <1>1, <3>1, <3>2, Pointers
  <2>3. QED BY <2>1, <2>2 DEF Watch
<1>3. o \notin freed
  BY <1>1, <1>2 DEF Inv, Watched
<1>4. QED
  BY <1>1, <1>2, <1>3, WAcquireInv DEF Watch

\* A weak pointer keeps the tracker that its copy acquires.
LEMMA WCopyInv ==
  ASSUME Inv, NEW w \in WReachable, NEW v \in WReachable, WCopy(w, v)
  PROVE  Inv'
<1>1. ~threw /\ w \in WSlot /\ v \in WSlot /\ weak[w] = Null /\ weak[v] # Null
  BY ReachableSlots DEF WCopy, Running
<1>2. PICK o \in Obj : o = weak[v]
  BY <1>1 DEF Inv, Types
<1>3. v \in Watchers(o)
  BY <1>1, <1>2 DEF Watchers
<1>4. memory[o] # "fresh" /\ o \notin freed
  BY <1>1, <1>3 DEF Inv, Watched
<1>5. QED
  BY <1>1, <1>2, <1>4, WAcquireInv DEF WCopy

\* No step breaks the invariant.
LEMMA StepInv == Inv /\ [Next]_vars => Inv'
<1> SUFFICES ASSUME Inv, [Next]_vars PROVE Inv'
  OBVIOUS
<1>1. ASSUME NEW o \in Obj, Construct(o) PROVE Inv'
  BY <1>1, ConstructInv
<1>2. ASSUME NEW o \in Obj, NEW s \in Own, Claim(s, o) PROVE Inv'
  BY <1>2, ClaimInv
<1>3. ASSUME NEW s \in Reachable, NEW t \in Reachable, Copy(s, t) \/ Move(s, t) PROVE Inv'
  BY <1>3, CopyInv, MoveInv
<1>4. ASSUME NEW w \in WReachable, NEW o \in Obj, Watch(w, o) PROVE Inv'
  BY <1>4, WatchInv
<1>5. ASSUME NEW w \in WReachable, NEW v \in WReachable, WCopy(w, v) PROVE Inv'
  BY <1>5, WCopyInv
<1>6. ASSUME NEW s \in Own, NEW w \in WReachable, Lock(s, w) PROVE Inv'
  BY <1>6, LockInv
<1>7. ASSUME NEW s \in Reachable, Drop(s) PROVE Inv'
  <2>1. ~threw /\ s \in Slot /\ s \in Releasable /\ s \notin Releasing /\ strong[s] # Null
    BY <1>7, ReachableSlots DEF Drop, Running, Releasable
  <2>2. QED BY <1>7, <2>1, ReleaseInv DEF Drop
<1>8. ASSUME NEW w \in WReachable, WDrop(w) PROVE Inv'
  BY <1>8, ReachableSlots, WReleaseInv DEF WDrop, Running
<1>9. CASE Unwind
  BY <1>9, BodyDoneInv, DestroyMemberInv, DestroyedInv DEF Unwind
<1>10. CASE UNCHANGED vars
  <2>1. /\ UNCHANGED <<strong, weak, m_tracked, m_target, memory, m_count, freed, stack, threw>>
    BY <1>10 DEF vars, objects, trackers
  <2>2. Types'
    BY <2>1 DEF Inv, Types
  <2>3. ASSUME ~threw PROVE Stacked'
    BY <2>1, <2>3, StackKept DEF Inv, Stacked
  <2>4. ASSUME ~threw, NEW o \in Obj PROVE Stage(o)' /\ Owned(o)' /\ Watched(o)'
    <3>1. Stage(o) /\ Owned(o) /\ Watched(o)
      BY <2>4 DEF Inv
    <3>2. Owners(o)' = Owners(o) /\ Watchers(o)' = Watchers(o)
      BY <2>1 DEF Owners, Watchers, Releasing
    <3>3. QED BY <2>1, <3>1, <3>2 DEF Stage, Owned, Watched
  <2>5. QED BY <2>1, <2>2, <2>3, <2>4 DEF Inv
<1>11. QED
  BY <1>1, <1>2, <1>3, <1>4, <1>5, <1>6, <1>7, <1>8, <1>9, <1>10 DEF Next, Client

\* The invariant holds in every state the pointers can reach.
THEOREM Invariance == Spec => []Inv
  BY InitInv, StepInv, PTL DEF Spec

\* The variables have their types, and counting never reaches a value of
\* m_tracked that stands for a stage of an object's life, for any number of
\* objects and pointers and any limit.
THEOREM TypeCorrect == Spec => []TypeOK
<1>1. Inv => TypeOK
  BY DEF Inv, Types, Stage, TypeOK
<1>2. QED
  BY Invariance, <1>1, PTL

\* m_tracked and m_count are the numbers of pointers there are, and an object is
\* owned as long as there is an FPtr to it that is not being released.
THEOREM CountsCorrect == Spec => []CountsPointers
<1>1. Inv => CountsPointers
  BY DEF Inv, Owned, Watched, CountsPointers
<1>2. QED
  BY Invariance, <1>1, PTL

\* A tracker is deleted when its object is and no FWeakPtr points to it, and not
\* before: lock() always finds the tracker to ask.
THEOREM TrackersCorrect == Spec => []TrackerOutlives
<1>1. Inv => TrackerOutlives
  BY DEF Inv, Watched, TrackerOutlives
<1>2. QED
  BY Invariance, <1>1, PTL

\* However deep destructors run inside one another, each destroys an object of
\* its own, and none of these gets an owner again.
THEOREM DestructionCorrect == Spec => []NoResurrection
<1>1. ASSUME Inv, ~threw, NEW k \in DOMAIN stack
      PROVE LET o == strong[stack[k]] IN
              /\ o # Null /\ m_tracked[o] = COUNT_DESTROYING /\ Owners(o) = {}
              /\ memory[o] \in {"dtor", "members"}
              /\ \A l \in DOMAIN stack : strong[stack[l]] = o => l = k
  <2>1. k \in 1..Len(stack) /\ DOMAIN stack = 1..Len(stack)
    BY <1>1, LenProperties DEF Inv, Types
  <2>2. strong[stack[k]] \in Obj /\ memory[strong[stack[k]]] \in {"dtor", "members"}
    BY <1>1, <2>1 DEF Inv, Stacked
  <2>3. m_tracked[strong[stack[k]]] = COUNT_DESTROYING /\ Owners(strong[stack[k]]) = {}
    BY <1>1, <2>2 DEF Inv, Stage, Owned
  <2>4. \A l \in DOMAIN stack : strong[stack[l]] = strong[stack[k]] => l = k
    BY <1>1, <2>1 DEF Inv, Stacked
  <2>5. QED BY <2>2, <2>3, <2>4, RefAssumption
<1>2. Inv => NoResurrection
  BY <1>1 DEF NoResurrection
<1>3. QED
  BY Invariance, <1>2, PTL
=============================================================================
