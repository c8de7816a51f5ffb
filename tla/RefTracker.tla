------------------------------ MODULE RefTracker ------------------------------
(***************************************************************************)
(* Reference counting: FObject and its FRefTracker (util/object/), FPtr    *)
(* and FWeakPtr (util/ptr.hpp).  Every structure of the compiler is held   *)
(* together by these pointers.                                             *)
(*                                                                         *)
(* An FPtr counts in m_tracked, an FWeakPtr in m_count of the tracker of   *)
(* its object.  The FPtr that brings m_tracked to 0 destroys the object:   *)
(* its destructor, which may run client code, then its members, which may  *)
(* destroy further objects.  These nested calls are the stack; an          *)
(* assignment `p = q` is the destruction of p followed by a copy.          *)
(***************************************************************************)
EXTENDS Naturals, Sequences, FiniteSets

CONSTANTS
  Obj,       \* the FObjects that may be allocated (an address is not reused)
  Local,     \* the FPtr variables of the running functions
  Member,    \* the FPtr members of an object
  WLocal,    \* the FWeakPtr variables of the running functions
  WMember,   \* the FWeakPtr members of an object
  Null,
  COUNT_MAX  \* bound: 0xfffffffd in the program

COUNT_UNCLAIMED == COUNT_MAX + 1
COUNT_DESTROYING == COUNT_MAX + 2

Slot == Local \cup (Obj \X Member)      \* every FPtr
WSlot == WLocal \cup (Obj \X WMember)   \* every FWeakPtr

ASSUME RefAssumption ==
  /\ COUNT_MAX \in Nat \ {0}
  /\ Null \notin Obj
  /\ IsFiniteSet(Slot) /\ IsFiniteSet(WSlot)
  /\ Local \cap (Obj \X Member) = {} /\ WLocal \cap (Obj \X WMember) = {}

VARIABLES
  strong,     \* FPtr::m_ptr of every slot
  weak,       \* FWeakPtr::m_ptr, by the object of the tracker
  m_tracked,  \* FRefTracker::m_tracked
  m_count,    \* FRefTracker::m_count
  m_target,   \* FRefTracker::m_target: is it not null?
  memory,     \* the life of an object: see Lives
  freed,      \* the trackers that have been deleted
  stack,      \* the FPtrs whose release() is destroying an object, innermost first
  threw       \* an exception has been thrown: nothing catches it but main()

objects == <<m_tracked, m_target, memory>>
trackers == <<m_count, freed>>
vars == <<strong, weak, objects, trackers, stack, threw>>

\* Not allocated, in its constructor, owned, in its destructor, having its
\* members destroyed, deleted.
Lives == {"fresh", "raw", "owned", "dtor", "members", "deleted"}

Init ==
  /\ strong = [s \in Slot |-> Null] /\ weak = [w \in WSlot |-> Null]
  /\ m_tracked = [o \in Obj |-> COUNT_UNCLAIMED] /\ m_count = [o \in Obj |-> 0]
  /\ m_target = [o \in Obj |-> TRUE]
  /\ memory = [o \in Obj |-> "fresh"] /\ freed = {}
  /\ stack = <<>> /\ threw = FALSE

-----------------------------------------------------------------------------
(* What client code can reach.                                             *)

\* The object being destroyed by the innermost release().
Dying == strong[Head(stack)]

\* The FPtrs that are being destroyed: they are nulled when release() returns.
Releasing == {stack[k] : k \in DOMAIN stack}

\* Client code runs in a function, in a constructor or in a destructor, not
\* while the members of an object are destroyed.
Running == ~threw /\ (stack # <<>> => memory[Dying] = "dtor")

\* The FPtrs that belong to the running code: the variables of a function; in a
\* destructor the members of its object, which stand for its variables too.
Own == IF stack = <<>> THEN Local ELSE {Dying} \X Member
WOwn == IF stack = <<>> THEN WLocal ELSE {Dying} \X WMember

\* The objects these own, whose members the running code can name.
Held == {o \in Obj : memory[o] = "owned" /\ \E s \in Own : strong[s] = o}

Reachable == Own \cup (Held \X Member)
WReachable == WOwn \cup (Held \X WMember)

-----------------------------------------------------------------------------
(* The counters.                                                           *)

\* RC_ACQUIRE: what the counter holds afterwards; it is an unsigned int.
Acquired(counter) ==
  IF counter = COUNT_UNCLAIMED THEN 1 ELSE (counter + 1) % (COUNT_DESTROYING + 1)

\* Mutated form: the limit is off by one.
Exceeded_Late(counter) == counter > COUNT_MAX + 1

\* RC_ACQUIRE: "reference limit exceeded".
Exceeded(counter) == counter > COUNT_MAX

\* Mutated form: no "use during free".
Acquire_Unchecked(s, o) ==
  /\ m_tracked' = [m_tracked EXCEPT ![o] = Acquired(@)]
  /\ threw' = Exceeded(m_tracked'[o])
  /\ strong' = IF threw' THEN strong ELSE [strong EXCEPT ![s] = o]

\* FObject::acquire from the constructor of an FPtr in slot s.
Acquire(s, o) ==
  IF m_tracked[o] = COUNT_DESTROYING
  THEN threw' = TRUE /\ UNCHANGED <<strong, m_tracked>>
  ELSE /\ m_tracked' = [m_tracked EXCEPT ![o] = Acquired(@)]
       /\ threw' = Exceeded(m_tracked'[o])
       /\ strong' = IF threw' THEN strong ELSE [strong EXCEPT ![s] = o]

\* FRefTracker::acquire from the constructor of an FWeakPtr in slot w.
WAcquire(w, o) ==
  /\ m_count' = [m_count EXCEPT ![o] = Acquired(@)]
  /\ threw' = Exceeded(m_count'[o])
  /\ weak' = IF threw' THEN weak ELSE [weak EXCEPT ![w] = o]

-----------------------------------------------------------------------------
(* Client code.                                                            *)

\* new T: the constructor starts.
Construct(o) ==
  /\ Running /\ memory[o] = "fresh"
  /\ memory' = [memory EXCEPT ![o] = "raw"]
  /\ UNCHANGED <<strong, weak, m_tracked, m_target, trackers, stack, threw>>

\* FPtr<T>(new T): the constructor is through.
Claim(s, o) ==
  /\ Running /\ memory[o] = "raw" /\ s \in Own /\ strong[s] = Null
  /\ Acquire(s, o)
  /\ memory' = [memory EXCEPT ![o] = "owned"]
  /\ UNCHANGED <<weak, m_target, trackers, stack>>

\* FPtr(const FPtr &) and the second half of operator=.
Copy(s, t) ==
  /\ Running /\ {s, t} \subseteq Reachable /\ strong[s] = Null /\ strong[t] # Null
  /\ Acquire(s, strong[t])
  /\ UNCHANGED <<weak, m_target, memory, trackers, stack>>

\* Mutated form: the moved-from pointer keeps its object.
Move_Keeps(s, t) ==
  /\ Running /\ {s, t} \subseteq Reachable /\ strong[s] = Null /\ strong[t] # Null
  /\ t \notin Releasing
  /\ strong' = [strong EXCEPT ![s] = strong[t]]
  /\ UNCHANGED <<weak, objects, trackers, stack, threw>>

\* FPtr(FPtr &&) and the second half of the moving operator=.
Move(s, t) ==
  /\ Running /\ {s, t} \subseteq Reachable /\ strong[s] = Null /\ strong[t] # Null
  /\ t \notin Releasing
  /\ strong' = [strong EXCEPT ![s] = strong[t], ![t] = Null]
  /\ UNCHANGED <<weak, objects, trackers, stack, threw>>

\* fun::weak(ptr), or fun::weak(this) in a constructor.
Watch(w, o) ==
  /\ Running /\ w \in WReachable /\ weak[w] = Null
  /\ o \in {strong[s] : s \in Reachable} \cup {p \in Obj : memory[p] = "raw"}
  /\ WAcquire(w, o)
  /\ UNCHANGED <<strong, objects, freed, stack>>

\* FWeakPtr(const FWeakPtr &) and the second half of operator=.
WCopy(w, v) ==
  /\ Running /\ {w, v} \subseteq WReachable /\ weak[w] = Null /\ weak[v] # Null
  /\ WAcquire(w, weak[v])
  /\ UNCHANGED <<strong, objects, freed, stack>>

\* FWeakPtr::lock().  No constructor locks a weak pointer to its own object.
Lock(s, w) ==
  /\ Running /\ w \in WReachable /\ weak[w] # Null /\ s \in Own /\ strong[s] = Null
  /\ memory[weak[w]] # "raw"
  /\ IF m_tracked[weak[w]] = 0
     THEN threw' = TRUE /\ UNCHANGED <<strong, m_tracked>>
     ELSE Acquire(s, weak[w])
  /\ UNCHANGED <<weak, m_target, memory, trackers, stack>>

-----------------------------------------------------------------------------
(* release() and tryDestroy().                                             *)

\* Mutated form: the weak pointers are not asked.
TrackerDone_Early(o) == freed' = IF ~m_target'[o] THEN freed \cup {o} ELSE freed

\* The second half of tryDestroy, for the tracker of o: `delete this`.
TrackerDone(o) ==
  freed' = IF ~m_target'[o] /\ m_count'[o] = 0 THEN freed \cup {o} ELSE freed

\* ~FPtr of slot s: RC_REDUCE on m_tracked and the first half of tryDestroy.
Release(s) ==
  LET o == strong[s] IN
    CASE m_tracked[o] = COUNT_DESTROYING ->  \* ignored, with a warning
           strong' = [strong EXCEPT ![s] = Null] /\ UNCHANGED <<m_tracked, memory, stack, threw>>
      [] m_tracked[o] \in {COUNT_UNCLAIMED, 0} ->
           threw' = TRUE /\ UNCHANGED <<strong, m_tracked, memory, stack>>
      [] m_tracked[o] = 1 ->
           /\ m_tracked' = [m_tracked EXCEPT ![o] = COUNT_DESTROYING]
           /\ memory' = [memory EXCEPT ![o] = "dtor"]
           /\ stack' = <<s>> \o stack
           /\ UNCHANGED <<strong, threw>>
      [] OTHER ->
           /\ m_tracked' = [m_tracked EXCEPT ![o] = @ - 1]
           /\ strong' = [strong EXCEPT ![s] = Null]
           /\ UNCHANGED <<memory, stack, threw>>

\* Client code destroys an FPtr: the end of a scope, the first half of operator=.
Drop(s) ==
  /\ Running /\ s \in Reachable /\ strong[s] # Null
  /\ s \notin Releasing
  /\ Release(s)
  /\ UNCHANGED <<weak, m_target, trackers>>

\* ~FWeakPtr of slot w: RC_REDUCE on m_count, which never holds
\* COUNT_DESTROYING in a tracker that is not deleted.
WRelease(w) ==
  LET o == weak[w] IN
    IF m_count[o] \in {COUNT_UNCLAIMED, 0}
    THEN threw' = TRUE /\ UNCHANGED <<weak, trackers, m_target>>
    ELSE /\ m_count' = [m_count EXCEPT ![o] = @ - 1]
         /\ weak' = [weak EXCEPT ![w] = Null]
         /\ UNCHANGED <<m_target, threw>>
         /\ TrackerDone(o)

WDrop(w) ==
  /\ Running /\ w \in WReachable /\ weak[w] # Null
  /\ WRelease(w)
  /\ UNCHANGED <<strong, m_tracked, memory, stack>>

\* The body of the destructor returns.
BodyDone ==
  /\ ~threw /\ stack # <<>> /\ memory[Dying] = "dtor"
  /\ memory' = [memory EXCEPT ![Dying] = "members"]
  /\ UNCHANGED <<strong, weak, m_tracked, m_target, trackers, stack, threw>>

\* The destructor of a member; a class may declare its members in any order.
DestroyMember ==
  /\ ~threw /\ stack # <<>> /\ memory[Dying] = "members"
  /\ \/ \E m \in Member : /\ strong[<<Dying, m>>] # Null
                          /\ Release(<<Dying, m>>)
        /\ UNCHANGED <<weak, m_target, trackers>>
     \/ \E m \in WMember : /\ weak[<<Dying, m>>] # Null
                           /\ WRelease(<<Dying, m>>)
        /\ UNCHANGED <<strong, m_tracked, memory, stack>>

\* Mutated form: the object is kept for as long as an FWeakPtr watches it.
Destroyed_Watched ==
  /\ ~threw /\ stack # <<>> /\ memory[Dying] = "members" /\ m_count[Dying] = 0
  /\ \A m \in Member : strong[<<Dying, m>>] = Null
  /\ memory' = [memory EXCEPT ![Dying] = "deleted"]
  /\ m_tracked' = [m_tracked EXCEPT ![Dying] = 0]
  /\ m_target' = [m_target EXCEPT ![Dying] = FALSE]
  /\ UNCHANGED <<weak, m_count, threw>>
  /\ TrackerDone(Dying)
  /\ strong' = [strong EXCEPT ![Head(stack)] = Null]
  /\ stack' = Tail(stack)

\* ~FObject, the rest of tryDestroy, and `m_ptr = nullptr` in ~FPtr.
Destroyed ==
  /\ ~threw /\ stack # <<>> /\ memory[Dying] = "members"
  /\ \A m \in Member : strong[<<Dying, m>>] = Null
  /\ \A m \in WMember : weak[<<Dying, m>>] = Null
  /\ memory' = [memory EXCEPT ![Dying] = "deleted"]
  /\ m_tracked' = [m_tracked EXCEPT ![Dying] = 0]
  /\ m_target' = [m_target EXCEPT ![Dying] = FALSE]
  /\ UNCHANGED <<weak, m_count, threw>>
  /\ TrackerDone(Dying)
  /\ strong' = [strong EXCEPT ![Head(stack)] = Null]
  /\ stack' = Tail(stack)

Unwind == BodyDone \/ DestroyMember \/ Destroyed

Client ==
  \/ \E o \in Obj : Construct(o) \/ \E s \in Own : Claim(s, o)
  \/ \E s, t \in Reachable : Copy(s, t) \/ Move(s, t)
  \/ \E w \in WReachable : \E o \in Obj : Watch(w, o)
  \/ \E w, v \in WReachable : WCopy(w, v)
  \/ \E s \in Own, w \in WReachable : Lock(s, w)
  \/ \E s \in Reachable : Drop(s)
  \/ \E w \in WReachable : WDrop(w)

Next == Client \/ Unwind

Spec == Init /\ [][Next]_vars

\* A destructor's body ends, and what the compiler generates behind it runs.
FairSpec == Spec /\ WF_vars(Unwind)

-----------------------------------------------------------------------------
(* Properties.                                                             *)

Counter == 0..COUNT_DESTROYING

\* Every variable holds what its declaration says; as long as nothing was
\* thrown a value of m_tracked that stands for a stage of the object's life is
\* never reached by counting.
TypeOK ==
  /\ strong \in [Slot -> Obj \cup {Null}] /\ weak \in [WSlot -> Obj \cup {Null}]
  /\ m_tracked \in [Obj -> Counter] /\ m_count \in [Obj -> Counter]
  /\ m_target \in [Obj -> BOOLEAN] /\ memory \in [Obj -> Lives]
  /\ freed \subseteq Obj /\ stack \in Seq(Slot) /\ threw \in BOOLEAN
  /\ ~threw => \A o \in Obj :
       /\ m_tracked[o] = COUNT_UNCLAIMED <=> memory[o] \in {"fresh", "raw"}
       /\ m_tracked[o] = COUNT_DESTROYING <=> memory[o] \in {"dtor", "members"}
       /\ m_tracked[o] = 0 <=> memory[o] = "deleted"

Owners(o) == {s \in Slot \ Releasing : strong[s] = o}
Watchers(o) == {w \in WSlot : weak[w] = o}

\* RC_ACQUIRE and RC_REDUCE through copies, moves, locks and destructors that
\* run inside one another: the counters are exact, and an object is destroyed
\* exactly when its last FPtr goes.
CountsPointers ==
  ~threw => \A o \in Obj :
    /\ memory[o] = "owned" <=> Owners(o) # {}
    /\ memory[o] = "owned" => m_tracked[o] = Cardinality(Owners(o))
    /\ m_count[o] = Cardinality(Watchers(o))

\* tryDestroy: a tracker is deleted once, with the object it tracks and after
\* the last FWeakPtr to it; until then lock() finds the tracker to ask.
TrackerOutlives ==
  ~threw => \A o \in Obj :
    o \in freed <=> memory[o] = "deleted" /\ Watchers(o) = {}

\* The destructors on the stack are those of distinct objects, none of which
\* gets an owner again (the "use during free" of RC_ACQUIRE).
NoResurrection ==
  ~threw => \A k \in DOMAIN stack :
    LET o == strong[stack[k]] IN
      /\ o # Null /\ m_tracked[o] = COUNT_DESTROYING /\ Owners(o) = {}
      /\ memory[o] \in {"dtor", "members"}
      /\ \A l \in DOMAIN stack : strong[stack[l]] = o => l = k

\* A cascade of destructors ends, however long the chain of owners.
CascadeEnds == stack # <<>> ~> stack = <<>> \/ threw
=============================================================================
