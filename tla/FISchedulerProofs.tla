--------------------------- MODULE FISchedulerProofs ---------------------------
(***************************************************************************)
(* Proofs about the scheduler, for any number of blocks and functions and  *)
(* any nesting of them.  What the dependency graph promises is taken from  *)
(* DepsGraphProofs: the scheduler only has to show that the graph it       *)
(* builds is one of the graphs those proofs are about.                     *)
(***************************************************************************)
EXTENDS FIScheduler, FiniteSetTheorems, SequenceTheorems, TLAPS

GP == INSTANCE DepsGraphProofs WITH Node <- PipeNode, Edge <- PipeEdge, MaxLinks <- 0

Kind == {"input", "compiled", "verified", "output"}
Rule == {"compile", "verify", "dump"}

\* A program: where its units are written, and what they load.
IsProgram ==
  /\ Len(encl) \in Unit /\ Units = 1..Len(encl)
  /\ encl \in Program(Len(encl))
  /\ literal \in [Units -> String]

\* The units the walker has visited have their pipelines, and no others.
Pipelines ==
  /\ visited \in 0..Len(encl)
  /\ m_funcs = {v \in 1..visited : encl[v] # 0}
  /\ m_depQ \in Seq(1..visited)
  /\ ToSet(m_nodes) = (1..visited) \X Kind
  /\ ToSet(m_edges) = (1..visited) \X Rule
  /\ \A u \in 1..visited :
       /\ <<u, "input">> \in ToSet(edgeIns[<<u, "compile">>])
       /\ edgeIns[<<u, "verify">>] = <<<<u, "compiled">>>>
       /\ edgeIns[<<u, "dump">>] = <<<<u, "verified">>>>
       /\ \A rule \in Rule : edgeOuts[<<u, rule>>] = PipeOuts(u)[rule]
  /\ pc # "build" => visited = Len(encl) /\ m_depQ = <<>>

\* A unit whose DepWalker has walked waits for everything inside it.
Waits ==
  \A u \in 1..visited :
    u \in ToSet(m_depQ)
      \/ \A v \in Inside(u) : <<v, "output">> \in ToSet(edgeIns[<<u, "compile">>])

\* A store: each number has its value, each value its number.
StoreOK(store, S) ==
  /\ store.m_values \in Seq(S)
  /\ DOMAIN store.m_keys \subseteq S
  /\ \A v \in DOMAIN store.m_keys :
       holds(store, key(store, v)) /\ value(store, key(store, v)) = v
  /\ \A k \in 0..next(store) - 1 :
       found(store, value(store, k)) /\ key(store, value(store, k)) = k

\* What the rules share is well formed, and only strings of the program are
\* interned.
Tables ==
  /\ StoreOK(assem, Units) /\ StoreOK(strings, String)
  /\ \A s \in DOMAIN strings.m_keys : \E u \in Units : literal[u] = s
  /\ data \in [Unit -> Id \cup {NoId}] /\ ids \in [Unit -> Id \cup {NoId}]
  /\ ldstr \in [Unit -> Id \cup {NoId}] /\ dumped \in Seq(Id)

\* What the rules have left behind for each unit.
Results ==
  \A u \in Units :
    /\ ids[u] # NoId <=> m_state[<<u, "compile">>] = "Done"
    /\ ids[u] # NoId =>
         /\ found(assem, u) /\ ids[u] = key(assem, u) /\ data[u] = ids[u]
         /\ found(strings, literal[u]) /\ ldstr[u] = key(strings, literal[u])
    /\ m_state[<<u, "dump">>] = "Done" => \E k \in DOMAIN dumped : dumped[k] = ids[u]

Inv ==
  /\ IsProgram /\ GP!IInv /\ Pipelines /\ Waits /\ Tables /\ Results
  /\ pc # "aborted"

-----------------------------------------------------------------------------
(* The units inside a unit.                                                *)

\* The walker meets the units inside u one after the other, right after u.
LEMMA InsideIsInterval ==
  ASSUME IsProgram, NEW u \in Units
  PROVE  /\ Cardinality(Inside(u)) \in Nat
         /\ Inside(u) = u + 1..u + Cardinality(Inside(u))
<1> DEFINE c == Cardinality(Inside(u))
<1>1. u \in Nat /\ Len(encl) \in Nat /\ Units = 1..Len(encl)
  BY SchedulerAssumption DEF IsProgram, Unit
<1>2. IsFiniteSet(Inside(u)) /\ c \in Nat
  <2>1. IsFiniteSet(1..Len(encl)) /\ Inside(u) \subseteq 1..Len(encl)
    BY <1>1, FS_Interval DEF Inside
  <2>2. QED BY <2>1, FS_Subset, FS_CardinalityType
\* With a unit, all between u and it are inside u.
<1>3. ASSUME NEW v \in Inside(u) PROVE u + 1..v \subseteq Inside(u)
  <2>1. v \in Units /\ v > u /\ \A w \in u + 1..v : encl[w] >= u
    BY DEF Inside
  <2>2. ASSUME NEW w \in u + 1..v PROVE w \in Inside(u)
    <3>1. w \in Units /\ w > u /\ u + 1..w \subseteq u + 1..v
      BY <1>1, <2>1
    <3>2. QED BY <2>1, <3>1 DEF Inside
  <2>3. QED BY <2>2
<1>4. ASSUME NEW v \in Inside(u) PROVE v \in u + 1..u + c
  <2>1. v \in Nat /\ v > u
    BY <1>1 DEF Inside
  <2>2. Cardinality(u + 1..v) = v - u
    BY <1>1, <2>1, FS_Interval
  <2>3. Cardinality(u + 1..v) <= c
    BY <1>2, <1>3, FS_Subset
  <2>4. QED BY <1>1, <1>2, <2>1, <2>2, <2>3
<1>5. ASSUME NEW v \in u + 1..u + c, v \notin Inside(u) PROVE FALSE
  <2>1. v \in Nat /\ v >= u + 1 /\ v <= u + c
    BY <1>1, <1>2
  <2>2. Inside(u) \subseteq u + 1..v - 1
    <3>1. ASSUME NEW w \in Inside(u) PROVE w \in u + 1..v - 1
      <4>1. w \in Nat /\ w > u
        BY <1>1 DEF Inside
      <4>2. ~(w >= v)
        BY <1>1, <1>3, <1>5, <2>1, <4>1
      <4>3. QED BY <1>1, <2>1, <4>1, <4>2
    <3>2. QED BY <3>1
  <2>3. IsFiniteSet(u + 1..v - 1) /\ Cardinality(u + 1..v - 1) = v - 1 - u
    <3>1. \A a, b \in Int : a <= b + 1 =>
            IsFiniteSet(a..b) /\ Cardinality(a..b) = b - a + 1
      BY FS_Interval
    <3>2. u + 1 \in Int /\ v - 1 \in Int /\ u + 1 <= v - 1 + 1
      BY <1>1, <2>1
    <3>3. /\ IsFiniteSet(u + 1..v - 1)
          /\ Cardinality(u + 1..v - 1) = v - 1 - (u + 1) + 1
      BY <3>1, <3>2
    <3>4. v - 1 - (u + 1) + 1 = v - 1 - u
      BY <1>1, <2>1
    <3>5. QED BY <3>3, <3>4
  <2>4. c <= v - 1 - u
    <3>1. c <= Cardinality(u + 1..v - 1)
      BY <2>2, <2>3, FS_Subset
    <3>2. QED BY <2>3, <3>1
  <2>5. QED BY <1>1, <1>2, <2>1, <2>4
<1>6. QED BY <1>2, <1>4, <1>5

-----------------------------------------------------------------------------
(* The links of a pipeline.                                                *)

\* What two sequences hold together.
LEMMA ConcatSet ==
  ASSUME NEW S, NEW s \in Seq(S), NEW t \in Seq(S)
  PROVE  s \o t \in Seq(S) /\ ToSet(s \o t) = ToSet(s) \cup ToSet(t)
<1>1. /\ s \o t \in Seq(S) /\ Len(s) \in Nat /\ Len(t) \in Nat
      /\ Len(s \o t) = Len(s) + Len(t)
      /\ DOMAIN s = 1..Len(s) /\ DOMAIN t = 1..Len(t) /\ DOMAIN (s \o t) = 1..Len(s) + Len(t)
      /\ \A k \in 1..Len(s) + Len(t) : (s \o t)[k] = IF k <= Len(s) THEN s[k] ELSE t[k - Len(s)]
  BY ConcatProperties, LenProperties
<1>2. ASSUME NEW x \in ToSet(s \o t) PROVE x \in ToSet(s) \cup ToSet(t)
  <2>1. PICK k \in 1..Len(s) + Len(t) : x = (s \o t)[k]
    BY <1>1 DEF ToSet
  <2>2. CASE k <= Len(s)
    BY <1>1, <2>1, <2>2 DEF ToSet
  <2>3. CASE ~(k <= Len(s))
    <3>1. k - Len(s) \in 1..Len(t) /\ x = t[k - Len(s)]
      BY <1>1, <2>1, <2>3
    <3>2. QED BY <1>1, <3>1 DEF ToSet
  <2>4. QED BY <2>2, <2>3
<1>3. ASSUME NEW x \in ToSet(s) PROVE x \in ToSet(s \o t)
  <2>1. PICK k \in 1..Len(s) : x = s[k]
    BY <1>1 DEF ToSet
  <2>2. k \in 1..Len(s) + Len(t) /\ (s \o t)[k] = x
    BY <1>1, <2>1
  <2>3. QED BY <1>1, <2>2 DEF ToSet
<1>4. ASSUME NEW x \in ToSet(t) PROVE x \in ToSet(s \o t)
  <2>1. PICK k \in 1..Len(t) : x = t[k]
    BY <1>1 DEF ToSet
  <2>2. Len(s) + k \in 1..Len(s) + Len(t) /\ (s \o t)[Len(s) + k] = x
    BY <1>1, <2>1
  <2>3. QED BY <1>1, <2>2 DEF ToSet
<1>5. QED BY <1>1, <1>2, <1>3, <1>4

\* What a sequence of one and the empty one hold.
LEMMA SingleSet ==
  ASSUME NEW x
  PROVE  ToSet(<<x>>) = {x} /\ ToSet(<<>>) = {}
BY DEF ToSet

\* The edges at a node are those that have it among their links.
LEMMA EndsSet ==
  ASSUME NEW of, NEW u \in Unit, NEW x
  PROVE  /\ Ends(of, u, x) \in Seq({u} \X Rule)
         /\ \A e \in PipeEdge :
              e \in ToSet(Ends(of, u, x)) <=> e[1] = u /\ x \in ToSet(of[e[2]])
<1> DEFINE S == {u} \X Rule
           end(rule) == IF x \in ToSet(of[rule]) THEN <<<<u, rule>>>> ELSE <<>>
<1>1. \A rule \in Rule :
        /\ end(rule) \in Seq(S)
        /\ \A y : y \in ToSet(end(rule)) <=> x \in ToSet(of[rule]) /\ y = <<u, rule>>
  <2>1. TAKE rule \in Rule
  <2>2. CASE x \in ToSet(of[rule])
    <3>1. <<u, rule>> \in S /\ end(rule) = <<<<u, rule>>>>
      BY <2>2
    <3> HIDE DEF end, S
    <3>2. end(rule) \in Seq(S) /\ ToSet(end(rule)) = {<<u, rule>>}
      BY <3>1 DEF ToSet
    <3>3. QED BY <2>2, <3>2
  <2>3. CASE x \notin ToSet(of[rule])
    <3>1. end(rule) = <<>>
      BY <2>3
    <3>2. <<>> \in Seq(S) /\ ToSet(<<>>) = {}
      BY DEF ToSet
    <3> HIDE DEF end, S
    <3>3. QED BY <2>3, <3>1, <3>2
  <2>4. QED BY <2>2, <2>3
<1>2. Ends(of, u, x) = end("compile") \o end("verify") \o end("dump")
  BY DEF Ends
<1>3. "compile" \in Rule /\ "verify" \in Rule /\ "dump" \in Rule
  BY DEF Rule
<1> HIDE DEF end, S
<1>4. /\ Ends(of, u, x) \in Seq(S)
      /\ ToSet(Ends(of, u, x)) =
           ToSet(end("compile")) \cup ToSet(end("verify")) \cup ToSet(end("dump"))
  <2> DEFINE a == end("compile")
             b == end("verify")
             c == end("dump")
             ab == a \o b
  <2>1. a \in Seq(S) /\ b \in Seq(S) /\ c \in Seq(S)
    BY <1>1, <1>3
  <2>2. Ends(of, u, x) = ab \o c
    BY <1>2
  <2> HIDE DEF a, b, c
  <2>3. ab \in Seq(S) /\ ToSet(ab) = ToSet(a) \cup ToSet(b)
    BY <2>1, ConcatSet
  <2> HIDE DEF ab
  <2>4. ab \o c \in Seq(S) /\ ToSet(ab \o c) = ToSet(ab) \cup ToSet(c)
    BY <2>1, <2>3, ConcatSet
  <2>5. QED BY <2>2, <2>3, <2>4 DEF a, b, c
<1>5. ASSUME NEW e \in PipeEdge
      PROVE  e \in ToSet(Ends(of, u, x)) <=> e[1] = u /\ x \in ToSet(of[e[2]])
  <2>1. e = <<e[1], e[2]>> /\ e[2] \in Rule
    BY DEF PipeEdge, Rule
  <2>2. e \in ToSet(Ends(of, u, x)) <=>
          \E rule \in Rule : x \in ToSet(of[rule]) /\ e = <<u, rule>>
    BY <1>1, <1>3, <1>4 DEF Rule
  <2>3. QED BY <2>1, <2>2
<1>6. QED BY <1>4, <1>5 DEF S

\* Each edge of a pipeline has one input and one output, nodes of the pipeline.
LEMMA PipeLinks ==
  ASSUME NEW u \in Unit, NEW rule \in Rule
  PROVE  /\ PipeIns(u)[rule] \in Seq(PipeNode) /\ PipeOuts(u)[rule] \in Seq(PipeNode)
         /\ PipeIns(u)[rule] # <<>> /\ PipeOuts(u)[rule] # <<>>
         /\ ToSet(PipeIns(u)[rule]) \subseteq {u} \X Kind
         /\ ToSet(PipeOuts(u)[rule]) \subseteq {u} \X Kind
<1>1. \E a, b \in Kind : PipeIns(u)[rule] = <<<<u, a>>>> /\ PipeOuts(u)[rule] = <<<<u, b>>>>
  <2>1. "input" \in Kind /\ "compiled" \in Kind /\ "verified" \in Kind /\ "output" \in Kind
    BY DEF Kind
  <2>2. CASE rule = "compile"
    BY <2>1, <2>2 DEF PipeIns, PipeOuts
  <2>3. CASE rule = "verify"
    BY <2>1, <2>3 DEF PipeIns, PipeOuts
  <2>4. CASE rule = "dump"
    BY <2>1, <2>4 DEF PipeIns, PipeOuts
  <2>5. QED BY <2>2, <2>3, <2>4 DEF Rule
<1>2. PICK a, b \in Kind : PipeIns(u)[rule] = <<<<u, a>>>> /\ PipeOuts(u)[rule] = <<<<u, b>>>>
  BY <1>1
<1>3. <<u, a>> \in PipeNode /\ <<u, b>> \in PipeNode
  BY DEF PipeNode, Kind
<1>4. /\ <<<<u, a>>>> \in Seq(PipeNode) /\ <<<<u, b>>>> \in Seq(PipeNode)
      /\ <<<<u, a>>>> # <<>> /\ <<<<u, b>>>> # <<>>
  BY <1>3
<1>5. ToSet(<<<<u, a>>>>) = {<<u, a>>} /\ ToSet(<<<<u, b>>>>) = {<<u, b>>}
  BY DEF ToSet
<1>6. QED BY <1>2, <1>4, <1>5
-----------------------------------------------------------------------------
(* The graph of the scheduler is the graph of DepsGraphProofs.             *)

\* Both instances of the graph make the same steps.
LEMMA SameGraph ==
  /\ G!TypeOK <=> GP!TypeOK
  /\ G!Init <=> GP!Init
  /\ G!Run <=> GP!Run
  /\ G!RuleReturns <=> GP!RuleReturns
  /\ G!RuleThrows <=> GP!RuleThrows
  /\ G!Walk <=> GP!Walk
<1>1. G!TypeOK <=> GP!TypeOK
  BY DEF G!TypeOK, GP!TypeOK, G!Places, GP!Places, G!Current, GP!Current
<1>2. G!Init <=> GP!Init
  BY DEF G!Init, GP!Init
<1>3. G!Run <=> GP!Run
  BY DEF G!Run, GP!Run, G!shape, GP!shape
<1>4. G!RuleReturns <=> GP!RuleReturns
  BY DEF G!RuleReturns, GP!RuleReturns, G!shape, GP!shape, G!Current, GP!Current
<1>5. G!RuleThrows <=> GP!RuleThrows
  BY DEF G!RuleThrows, GP!RuleThrows, G!shape, GP!shape
<1>6. G!Walk <=> GP!Walk
  BY DEF G!Walk, GP!Walk, G!StatSelf, GP!StatSelf, G!NodesSeen, GP!NodesSeen,
     G!StatEdge, GP!StatEdge, G!EdgesSeen, GP!EdgesSeen, G!TakeFront, GP!TakeFront,
     G!StatOut, GP!StatOut, G!StatReader, GP!StatReader, G!Pop, GP!Pop,
     G!Finish, GP!Finish, G!shape, GP!shape, G!Current, GP!Current,
     G!EdgeStat, GP!EdgeStat, G!Opens, GP!Opens, G!BecomesReady, GP!BecomesReady,
     G!WritersDone, GP!WritersDone, G!RunAssertions, GP!RunAssertions
<1>7. QED BY <1>1, <1>2, <1>3, <1>4, <1>5, <1>6

\* A step that builds the graph only has to keep the links in order.
LEMMA BuildStep ==
  ASSUME GP!IInv, GP!TypeOK', pc = "build",
         UNCHANGED <<m_q, m_run, m_ready, m_state, pc, i, j>>, GP!Linked', GP!Declared'
  PROVE  GP!IInv'
<1>1. GP!Inv'
  BY GP!BuildInv, SchedulerAssumption DEF GP!IInv, GP!running
<1>2. GP!Settled'
  BY DEF GP!Settled, GP!NodePending, GP!EdgePending
<1>3. GP!Drained'
  BY DEF GP!IInv, GP!Inv, GP!Fresh, GP!Drained
<1>4. QED BY <1>1, <1>2, <1>3 DEF GP!IInv

\* What the graph does when it runs.
LEMMA RunStep ==
  ASSUME GP!IInv, GP!Run \/ GP!Walk \/ GP!RuleReturns \/ GP!RuleThrows
  PROVE  GP!IInv'
BY GP!IInvStep, SchedulerAssumption DEF GP!Next

\* Nothing but the rule of an edge makes the edge Done.
LEMMA WalkKeepsDone ==
  ASSUME GP!IInv, GP!Walk
  PROVE  \A e \in PipeEdge : m_state'[e] = "Done" <=> m_state[e] = "Done"
<1>1. m_state \in [PipeEdge -> {"Closed", "Open", "Done"}]
  BY DEF GP!IInv, GP!Inv, GP!TypeOK
<1>2. ASSUME NEW d, GP!EdgeStat(d)
      PROVE  \A e \in PipeEdge : m_state'[e] = "Done" <=> m_state[e] = "Done"
  BY <1>1, <1>2 DEF GP!EdgeStat, GP!Opens
<1>3. QED
  BY <1>2 DEF GP!Walk, GP!StatSelf, GP!NodesSeen, GP!StatEdge, GP!EdgesSeen, GP!TakeFront,
     GP!StatOut, GP!StatReader, GP!Pop, GP!Finish

-----------------------------------------------------------------------------
(* The tables.                                                             *)

\* intern() gives a value a number and changes no other number.
LEMMA Interned ==
  ASSUME NEW S, NEW store, StoreOK(store, S), NEW v \in S, NEW new, new = intern(store, v)
  PROVE  /\ StoreOK(new, S)
         /\ DOMAIN new.m_keys = DOMAIN store.m_keys \cup {v}
         /\ \A w \in DOMAIN store.m_keys : key(new, w) = key(store, w)
<1> DEFINE vals == store.m_values
           keys == store.m_keys
<1>1. /\ vals \in Seq(S) /\ DOMAIN keys \subseteq S
      /\ \A w \in DOMAIN keys : keys[w] \in 0..Len(vals) - 1 /\ vals[keys[w] + 1] = w
      /\ \A k \in 0..Len(vals) - 1 : vals[k + 1] \in DOMAIN keys /\ keys[vals[k + 1]] = k
  BY DEF StoreOK, holds, key, value, found, next
<1>2. CASE found(store, v)
  <2>1. new = store /\ v \in DOMAIN store.m_keys
    BY <1>2 DEF intern, found
  <2>2. QED BY <2>1
<1>3. CASE ~found(store, v)
  <2> DEFINE vals2 == Append(vals, v)
             keys2 == [x \in DOMAIN keys \cup {v} |-> IF x = v THEN Len(vals) ELSE keys[x]]
  <2>1. v \notin DOMAIN keys /\ new = [m_values |-> vals2, m_keys |-> keys2]
    BY <1>3 DEF intern, found, add, put, next
  <2>2. new.m_values = vals2 /\ new.m_keys = keys2
    BY <2>1
  <2> DEFINE n == Len(vals)
  <2>3. n \in Nat
    BY <1>1
  <2>4. /\ vals2 \in Seq(S) /\ Len(vals2) = n + 1 /\ vals2[n + 1] = v
        /\ \A k \in 1..n : vals2[k] = vals[k]
    BY <1>1
  <2>5. /\ DOMAIN keys2 = DOMAIN keys \cup {v} /\ keys2[v] = n
        /\ \A w \in DOMAIN keys : keys2[w] = keys[w]
    BY <2>1
  <2>6. DOMAIN keys2 \subseteq S
    BY <1>1, <2>5
  <2>7. ASSUME NEW w \in DOMAIN keys2
        PROVE  keys2[w] \in 0..Len(vals2) - 1 /\ vals2[keys2[w] + 1] = w
    <3> HIDE DEF vals2, keys2, vals, keys
    <3>1. CASE w = v
      BY <2>3, <2>4, <2>5, <3>1
    <3>2. CASE w # v
      <4>1. w \in DOMAIN keys /\ keys2[w] = keys[w]
        BY <2>5, <2>7, <3>2
      <4>2. keys[w] \in 0..n - 1 /\ vals[keys[w] + 1] = w
        BY <1>1, <4>1
      <4>3. keys[w] + 1 \in 1..n /\ keys[w] \in 0..n + 1 - 1
        BY <2>3, <4>2
      <4>4. QED BY <2>4, <4>1, <4>2, <4>3
    <3>3. QED BY <3>1, <3>2
  <2>8. ASSUME NEW k \in 0..Len(vals2) - 1
        PROVE  vals2[k + 1] \in DOMAIN keys2 /\ keys2[vals2[k + 1]] = k
    <3> HIDE DEF vals2, keys2, vals, keys
    <3>1. CASE k = n
      BY <2>3, <2>4, <2>5, <3>1
    <3>2. CASE k # n
      <4>1. k \in 0..n - 1 /\ k + 1 \in 1..n
        BY <2>3, <2>4, <3>2
      <4>2. vals[k + 1] \in DOMAIN keys /\ keys[vals[k + 1]] = k /\ vals2[k + 1] = vals[k + 1]
        BY <1>1, <2>4, <4>1
      <4>3. QED BY <2>5, <4>2
    <3>3. QED BY <3>1, <3>2
  <2> HIDE DEF vals2, keys2, vals, keys
  <2>9. StoreOK(new, S)
    BY <2>2, <2>4, <2>6, <2>7, <2>8 DEF StoreOK, holds, key, value, found, next
  <2>10. QED BY <2>2, <2>5, <2>9 DEF key, keys
<1>4. QED BY <1>2, <1>3

\* The first m numbers.
LEMMA IntervalSize ==
  \A m \in Nat : IsFiniteSet(1..m) /\ Cardinality(1..m) = m
<1>1. TAKE m \in Nat
<1>2. \A a, b \in Int : a <= b + 1 => IsFiniteSet(a..b) /\ Cardinality(a..b) = b - a + 1
  BY FS_Interval
<1>3. 1 \in Int /\ m \in Int /\ 1 <= m + 1 /\ m - 1 + 1 = m
  BY <1>1
<1>4. IsFiniteSet(1..m) /\ Cardinality(1..m) = m - 1 + 1
  BY <1>2, <1>3
<1>5. QED BY <1>3, <1>4

\* There are no more numbers than units whose values are interned.
LEMMA StoreBound ==
  ASSUME IsProgram, NEW S, NEW store, StoreOK(store, S), NEW of,
         \A v \in DOMAIN store.m_keys : \E u \in Units : of[u] = v
  PROVE  next(store) \in Nat /\ next(store) <= MaxUnits
<1> DEFINE n == Len(store.m_values)
           unit == [k \in 1..n |-> CHOOSE u \in Units : of[u] = store.m_values[k]]
<1>1. /\ n \in Nat
      /\ \A k \in 0..n - 1 : /\ store.m_values[k + 1] \in DOMAIN store.m_keys
                             /\ store.m_keys[store.m_values[k + 1]] = k
  BY DEF StoreOK, next, found, key, value
<1>2. ASSUME NEW k \in 1..n
      PROVE  /\ store.m_values[k] \in DOMAIN store.m_keys
             /\ store.m_keys[store.m_values[k]] = k - 1
  <2>1. k - 1 \in 0..n - 1 /\ (k - 1) + 1 = k
    BY <1>1
  <2>2. QED BY <1>1, <2>1
<1>3. ASSUME NEW k \in 1..n PROVE unit[k] \in Units /\ of[unit[k]] = store.m_values[k]
  BY <1>2
<1>4. unit \in [1..n -> Units]
  BY <1>3
<1>5. \A k, l \in 1..n : unit[k] = unit[l] => k = l
  <2>1. TAKE k, l \in 1..n
  <2>2. HAVE unit[k] = unit[l]
  <2>3. store.m_values[k] = store.m_values[l]
    BY <1>3, <2>2
  <2>4. k - 1 = l - 1
    BY <1>2, <2>3
  <2>5. QED BY <1>1, <2>4
<1>6. /\ Len(encl) \in Nat /\ Len(encl) <= MaxUnits /\ Units = 1..Len(encl)
      /\ MaxUnits \in Nat
  BY SchedulerAssumption DEF IsProgram, Unit
<1>7. IsFiniteSet(Units) /\ Cardinality(Units) = Len(encl)
  BY <1>6, IntervalSize
<1>8. Cardinality(1..n) = n
  BY <1>1, IntervalSize
<1> HIDE DEF unit
<1>9. Cardinality(1..n) <= Cardinality(Units)
  <2>1. unit \in Injection(1..n, Units)
    BY <1>4, <1>5 DEF Injection, IsInjective
  <2>2. QED BY <1>7, <2>1, FS_Injection DEF ExistsInjection
<1>10. n <= MaxUnits
  BY <1>1, <1>6, <1>7, <1>8, <1>9
<1>11. QED BY <1>1, <1>10 DEF next

-----------------------------------------------------------------------------
(* Building the graph.                                                     *)

\* What the invariant says of the types of the graph.
LEMMA GraphTypes ==
  ASSUME GP!IInv
  PROVE  /\ m_nodes \in Seq(PipeNode) /\ m_edges \in Seq(PipeEdge) /\ m_q \in Seq(PipeEdge)
         /\ nodeIns \in [PipeNode -> Seq(PipeEdge)] /\ nodeOuts \in [PipeNode -> Seq(PipeEdge)]
         /\ edgeIns \in [PipeEdge -> Seq(PipeNode)] /\ edgeOuts \in [PipeEdge -> Seq(PipeNode)]
         /\ m_ready \in [PipeNode -> BOOLEAN]
         /\ m_state \in [PipeEdge -> {"Closed", "Open", "Done"}]
         /\ pc \in {"rule", "outs", "stat"} => m_q # <<>>
BY DEF GP!IInv, GP!Inv, GP!TypeOK

\* The links of the graph, both ways, and what they name.
LEMMA GraphLinks ==
  ASSUME GP!IInv
  PROVE  /\ \A e \in PipeEdge, x \in PipeNode :
              /\ x \in ToSet(edgeOuts[e]) <=> e \in ToSet(nodeIns[x])
              /\ x \in ToSet(edgeIns[e]) <=> e \in ToSet(nodeOuts[x])
         /\ \A x \in PipeNode : ToSet(nodeIns[x]) \cup ToSet(nodeOuts[x]) \subseteq ToSet(m_edges)
         /\ \A e \in PipeEdge : ToSet(edgeIns[e]) \cup ToSet(edgeOuts[e]) \subseteq ToSet(m_nodes)
<1>1. \A s : GP!ToSet(s) = ToSet(s)
  BY DEF ToSet, GP!ToSet
<1>2. GP!Linked /\ GP!Declared
  BY DEF GP!IInv, GP!Inv
<1>3. QED BY <1>1, <1>2 DEF GP!Linked, GP!Declared, GP!Nodes, GP!Edges

\* The units of a program.
LEMMA UnitsAre ==
  ASSUME IsProgram
  PROVE  /\ Len(encl) \in Nat /\ Units = 1..Len(encl) /\ Units \subseteq Unit
         /\ Unit \subseteq Nat /\ Len(encl) <= MaxUnits /\ MaxUnits \in Nat
BY SchedulerAssumption DEF IsProgram, Unit

\* The next unit's pipeline is added to the graph.
LEMMA ScheduleGraph ==
  ASSUME IsProgram, GP!IInv, Pipelines, Schedule
  PROVE  /\ GP!IInv'
         /\ ToSet(m_nodes') = (1..visited + 1) \X Kind
         /\ ToSet(m_edges') = (1..visited + 1) \X Rule
<1> DEFINE u == visited + 1
           pns == <<<<u, "input">>, <<u, "compiled">>, <<u, "verified">>, <<u, "output">>>>
           pes == <<<<u, "compile">>, <<u, "verify">>, <<u, "dump">>>>
<1>1. /\ visited \in Nat /\ u \in Unit /\ u \in Units /\ visited' = u
      /\ u \notin 1..visited /\ 1..u = (1..visited) \cup {u}
  <2>1. visited \in 0..Len(encl) /\ visited < Len(encl) /\ visited' = visited + 1
    BY DEF Pipelines, Schedule
  <2>2. visited \in Nat /\ u \in 1..Len(encl) /\ u \notin 1..visited
    BY <2>1, UnitsAre
  <2>3. 1..u = (1..visited) \cup {u}
    BY <2>2
  <2>4. QED BY <2>1, <2>2, <2>3, UnitsAre
<1>2. /\ pc = "build" /\ Pipeline(u)
      /\ UNCHANGED <<m_q, m_run, m_ready, m_state, pc, i, j, links>>
  BY DEF Schedule
<1> HIDE DEF u
<1>3. /\ m_nodes' = m_nodes \o pns /\ m_edges' = m_edges \o pes
      /\ edgeIns' = [e \in PipeEdge |-> IF e[1] = u THEN PipeIns(u)[e[2]] ELSE edgeIns[e]]
      /\ edgeOuts' = [e \in PipeEdge |-> IF e[1] = u THEN PipeOuts(u)[e[2]] ELSE edgeOuts[e]]
      /\ nodeIns' = [x \in PipeNode |-> IF x[1] = u THEN Ends(PipeOuts(u), u, x) ELSE nodeIns[x]]
      /\ nodeOuts' = [x \in PipeNode |-> IF x[1] = u THEN Ends(PipeIns(u), u, x) ELSE nodeOuts[x]]
  BY <1>2 DEF Pipeline
<1>4. pns \in Seq(PipeNode) /\ ToSet(pns) = {u} \X Kind
  <2>1. \A kind \in Kind : <<u, kind>> \in PipeNode
    BY <1>1 DEF PipeNode, Kind
  <2>2. ToSet(pns) = {<<u, "input">>, <<u, "compiled">>, <<u, "verified">>, <<u, "output">>}
    BY DEF ToSet
  <2>3. {u} \X Kind = {<<u, "input">>, <<u, "compiled">>, <<u, "verified">>, <<u, "output">>}
    BY DEF Kind
  <2>4. QED BY <2>1, <2>2, <2>3 DEF Kind
<1>5. pes \in Seq(PipeEdge) /\ ToSet(pes) = {u} \X Rule
  <2>1. \A rule \in Rule : <<u, rule>> \in PipeEdge
    BY <1>1 DEF PipeEdge, Rule
  <2>2. ToSet(pes) = {<<u, "compile">>, <<u, "verify">>, <<u, "dump">>}
    BY DEF ToSet
  <2>3. {u} \X Rule = {<<u, "compile">>, <<u, "verify">>, <<u, "dump">>}
    BY DEF Rule
  <2>4. QED BY <2>1, <2>2, <2>3 DEF Rule
<1> HIDE DEF pns, pes
<1>6. /\ m_nodes' \in Seq(PipeNode) /\ ToSet(m_nodes') = ToSet(m_nodes) \cup {u} \X Kind
      /\ m_edges' \in Seq(PipeEdge) /\ ToSet(m_edges') = ToSet(m_edges) \cup {u} \X Rule
  <2>1. m_nodes \o pns \in Seq(PipeNode) /\ ToSet(m_nodes \o pns) = ToSet(m_nodes) \cup ToSet(pns)
    BY <1>4, GraphTypes, ConcatSet
  <2>2. m_edges \o pes \in Seq(PipeEdge) /\ ToSet(m_edges \o pes) = ToSet(m_edges) \cup ToSet(pes)
    BY <1>5, GraphTypes, ConcatSet
  <2>3. QED BY <1>3, <1>4, <1>5, <2>1, <2>2
<1>7. /\ ToSet(m_nodes') = (1..u) \X Kind /\ ToSet(m_edges') = (1..u) \X Rule
      /\ ToSet(m_nodes) = (1..visited) \X Kind /\ ToSet(m_edges) = (1..visited) \X Rule
  BY <1>1, <1>6 DEF Pipelines
<1>8. \A e \in PipeEdge : e[2] \in Rule
  BY DEF PipeEdge, Rule
<1>9. \A x \in PipeNode :
        /\ Ends(PipeOuts(u), u, x) \in Seq({u} \X Rule)
        /\ Ends(PipeIns(u), u, x) \in Seq({u} \X Rule)
        /\ \A e \in PipeEdge :
             /\ e \in ToSet(Ends(PipeOuts(u), u, x)) <=> e[1] = u /\ x \in ToSet(PipeOuts(u)[e[2]])
             /\ e \in ToSet(Ends(PipeIns(u), u, x)) <=> e[1] = u /\ x \in ToSet(PipeIns(u)[e[2]])
  BY <1>1, EndsSet
<1>10. \A rule \in Rule :
         /\ PipeIns(u)[rule] \in Seq(PipeNode) /\ PipeOuts(u)[rule] \in Seq(PipeNode)
         /\ ToSet(PipeIns(u)[rule]) \subseteq {u} \X Kind
         /\ ToSet(PipeOuts(u)[rule]) \subseteq {u} \X Kind
  BY <1>1, PipeLinks
<1>11. /\ edgeIns' \in [PipeEdge -> Seq(PipeNode)] /\ edgeOuts' \in [PipeEdge -> Seq(PipeNode)]
       /\ nodeIns' \in [PipeNode -> Seq(PipeEdge)] /\ nodeOuts' \in [PipeNode -> Seq(PipeEdge)]
  <2>1. {u} \X Rule \subseteq PipeEdge
    BY <1>1 DEF PipeEdge, Rule
  <2>2. \A s : s \in Seq({u} \X Rule) => s \in Seq(PipeEdge)
    BY <2>1
  <2>3. edgeIns' \in [PipeEdge -> Seq(PipeNode)] /\ edgeOuts' \in [PipeEdge -> Seq(PipeNode)]
    BY <1>3, <1>8, <1>10, GraphTypes
  <2>4. nodeIns' \in [PipeNode -> Seq(PipeEdge)] /\ nodeOuts' \in [PipeNode -> Seq(PipeEdge)]
    BY <1>3, <1>9, <2>2, GraphTypes
  <2>5. QED BY <2>3, <2>4
<1>12. GP!TypeOK'
  <2>1. m_nodes' \in Seq(PipeNode) /\ m_edges' \in Seq(PipeEdge)
    BY <1>6
  <2>2. GP!TypeOK
    BY DEF GP!IInv, GP!Inv
  <2>3. QED BY <1>2, <1>11, <2>1, <2>2 DEF GP!TypeOK, GP!Places
<1>13. ASSUME NEW e \in PipeEdge, NEW x \in PipeNode
       PROVE  /\ x \in ToSet(edgeOuts'[e]) <=> e \in ToSet(nodeIns'[x])
              /\ x \in ToSet(edgeIns'[e]) <=> e \in ToSet(nodeOuts'[x])
  <2>1. /\ x[1] = u => x \notin (1..visited) \X Kind
        /\ e[1] = u => e \notin (1..visited) \X Rule
        /\ x[1] # u => x \notin {u} \X Kind
    BY <1>1
  <2>2. CASE e[1] = u /\ x[1] = u
    BY <1>3, <1>9, <2>2
  <2>3. CASE e[1] = u /\ x[1] # u
    <3>1. x \notin ToSet(edgeOuts'[e]) /\ x \notin ToSet(edgeIns'[e])
      BY <1>3, <1>8, <1>10, <2>1, <2>3
    <3>2. e \notin ToSet(nodeIns'[x]) /\ e \notin ToSet(nodeOuts'[x])
      BY <1>3, <1>7, <2>1, <2>3, GraphLinks
    <3>3. QED BY <3>1, <3>2
  <2>4. CASE e[1] # u /\ x[1] = u
    <3>1. x \notin ToSet(edgeOuts'[e]) /\ x \notin ToSet(edgeIns'[e])
      BY <1>3, <1>7, <2>1, <2>4, GraphLinks
    <3>2. e \notin ToSet(nodeIns'[x]) /\ e \notin ToSet(nodeOuts'[x])
      BY <1>3, <1>9, <2>4
    <3>3. QED BY <3>1, <3>2
  <2>5. CASE e[1] # u /\ x[1] # u
    BY <1>3, <2>5, GraphLinks
  <2>6. QED BY <2>2, <2>3, <2>4, <2>5
<1>0. \A s : GP!ToSet(s) = ToSet(s)
  BY DEF ToSet, GP!ToSet
<1>14. GP!Linked'
  BY <1>0, <1>13 DEF GP!Linked
<1>15. ASSUME NEW x \in PipeNode
       PROVE  ToSet(nodeIns'[x]) \cup ToSet(nodeOuts'[x]) \subseteq ToSet(m_edges')
  <2>1. CASE x[1] = u
    <3>1. nodeIns'[x] \in Seq({u} \X Rule) /\ nodeOuts'[x] \in Seq({u} \X Rule)
      BY <1>3, <1>9, <2>1
    <3>2. \A s \in Seq({u} \X Rule) : ToSet(s) \subseteq {u} \X Rule
      BY DEF ToSet
    <3>3. QED BY <1>6, <3>1, <3>2
  <2>2. CASE x[1] # u
    BY <1>3, <1>6, <2>2, GraphLinks
  <2>3. QED BY <2>1, <2>2
<1>16. ASSUME NEW e \in PipeEdge
       PROVE  ToSet(edgeIns'[e]) \cup ToSet(edgeOuts'[e]) \subseteq ToSet(m_nodes')
  <2>1. CASE e[1] = u
    BY <1>3, <1>6, <1>8, <1>10, <2>1
  <2>2. CASE e[1] # u
    BY <1>3, <1>6, <2>2, GraphLinks
  <2>3. QED BY <2>1, <2>2
<1>17. GP!Declared'
  BY <1>0, <1>15, <1>16 DEF GP!Declared, GP!Nodes, GP!Edges
<1>18. GP!IInv'
  BY <1>2, <1>12, <1>14, <1>17, BuildStep
<1>19. QED BY <1>7, <1>18 DEF u

\* What a DepWalker that starts at u visits is what is inside u.
LEMMA WaitedSet ==
  ASSUME IsProgram, NEW u \in Units
  PROVE  /\ Waited(u) \in Seq(Units) /\ DOMAIN Waited(u) = 1..Len(Waited(u))
         /\ ToSet(Waited(u)) = Inside(u)
<1> DEFINE c == Cardinality(Inside(u))
<1>1. c \in Nat /\ Inside(u) = u + 1..u + c /\ u \in Nat /\ Inside(u) \subseteq Units
  BY InsideIsInterval, UnitsAre DEF Inside
<1>2. Waited(u) = [k \in 1..c |-> u + k]
  BY DEF Waited
<1> HIDE DEF c
<1>3. \A k \in 1..c : u + k \in Inside(u)
  BY <1>1
<1>4. Waited(u) \in Seq(Units) /\ Len(Waited(u)) = c
  BY <1>1, <1>2, <1>3
<1>5. \A v \in Inside(u) : v - u \in 1..c /\ u + (v - u) = v
  BY <1>1
<1>6. ASSUME NEW v \in Inside(u) PROVE v \in ToSet(Waited(u))
  <2>1. v - u \in 1..c /\ Waited(u)[v - u] = v
    BY <1>2, <1>5
  <2>2. QED BY <1>2, <2>1 DEF ToSet
<1>7. ToSet(Waited(u)) \subseteq Inside(u)
  BY <1>2, <1>3 DEF ToSet
<1>8. QED BY <1>2, <1>4, <1>6, <1>7

\* The compile edge of a unit waits for the functions inside it.
LEMMA WalkDepsGraph ==
  ASSUME IsProgram, GP!IInv, Pipelines, WalkDeps
  PROVE  /\ GP!IInv'
         /\ Head(m_depQ) \in Units
         /\ \A e \in PipeEdge :
              ToSet(edgeIns'[e]) =
                ToSet(edgeIns[e]) \cup
                  (IF e = <<Head(m_depQ), "compile">>
                   THEN {<<v, "output">> : v \in Inside(Head(m_depQ))} ELSE {})
         /\ \A e \in PipeEdge : e # <<Head(m_depQ), "compile">> => edgeIns'[e] = edgeIns[e]
<1> DEFINE u == Head(m_depQ)
           c == <<u, "compile">>
           s == [k \in DOMAIN Waited(u) |-> WaitedFor(Waited(u)[k])]
           W == {<<v, "output">> : v \in Inside(u)}
<1>1. /\ visited = Len(encl) /\ u \in 1..visited /\ u \in Units /\ u \in Unit
  <2>1. m_depQ \in Seq(1..visited) /\ m_depQ # <<>> /\ visited = Len(encl)
    BY DEF Pipelines, WalkDeps
  <2>2. u \in 1..visited
    BY <2>1
  <2>3. QED BY <2>1, <2>2, UnitsAre
<1>2. /\ pc = "build"
      /\ edgeIns' = [edgeIns EXCEPT ![c] = @ \o s]
      /\ nodeOuts' = [x \in PipeNode |->
           IF \E v \in ToSet(Waited(u)) : x = WaitedFor(v)
           THEN Append(nodeOuts[x], c) ELSE nodeOuts[x]]
      /\ UNCHANGED <<m_nodes, m_edges, m_q, m_run, m_ready, nodeIns, edgeOuts, m_state,
                     pc, i, j, links>>
  BY DEF WalkDeps
<1>3. c \in PipeEdge /\ c \in ToSet(m_edges)
  BY <1>1 DEF PipeEdge, Pipelines, Rule
<1>4. W \subseteq PipeNode /\ W \subseteq ToSet(m_nodes)
  <2>1. \A v \in Inside(u) : v \in Unit /\ v \in 1..visited
    BY <1>1, UnitsAre DEF Inside
  <2>2. QED BY <2>1 DEF PipeNode, Pipelines, Kind
<1>5. s \in Seq(PipeNode) /\ ToSet(s) = W
  <2> HIDE DEF u
  <2>1. /\ Waited(u) \in Seq(Units) /\ DOMAIN Waited(u) = 1..Len(Waited(u))
        /\ ToSet(Waited(u)) = Inside(u)
    BY <1>1, WaitedSet
  <2>2. /\ \A k \in DOMAIN Waited(u) : Waited(u)[k] \in Inside(u)
        /\ \A v \in Inside(u) : \E k \in DOMAIN Waited(u) : v = Waited(u)[k]
    BY <2>1 DEF ToSet
  <2>3. DOMAIN s = DOMAIN Waited(u) /\ \A k \in DOMAIN s : s[k] = <<Waited(u)[k], "output">>
    BY DEF WaitedFor
  <2>4. \A k \in DOMAIN s : s[k] \in W
    BY <2>2, <2>3
  <2>5. ToSet(s) \subseteq W
    BY <2>4 DEF ToSet
  <2>6. ASSUME NEW x \in W PROVE x \in ToSet(s)
    <3>1. PICK v \in Inside(u) : x = <<v, "output">>
      OBVIOUS
    <3>2. PICK k \in DOMAIN Waited(u) : v = Waited(u)[k]
      BY <2>2
    <3>3. k \in DOMAIN s /\ s[k] = x
      BY <2>3, <3>1, <3>2
    <3>4. QED BY <3>3 DEF ToSet
  <2>7. s \in Seq(PipeNode)
    <3>1. Len(Waited(u)) \in Nat /\ DOMAIN s = 1..Len(Waited(u))
      BY <2>1, <2>3
    <3>2. s = [k \in 1..Len(Waited(u)) |-> s[k]]
      BY <3>1
    <3>3. \A k \in 1..Len(Waited(u)) : s[k] \in PipeNode
      BY <1>4, <2>4, <3>1
    <3> HIDE DEF s
    <3>4. QED BY <3>1, <3>2, <3>3
  <2>8. QED BY <2>5, <2>6, <2>7
<1> HIDE DEF u, s, c, W
<1>6. /\ edgeIns[c] \o s \in Seq(PipeNode)
      /\ ToSet(edgeIns[c] \o s) = ToSet(edgeIns[c]) \cup W
  <2>1. edgeIns[c] \in Seq(PipeNode)
    BY <1>3, GraphTypes
  <2>2. QED BY <1>5, <2>1, ConcatSet
<1>7. /\ edgeIns' \in [PipeEdge -> Seq(PipeNode)]
      /\ edgeIns'[c] = edgeIns[c] \o s
      /\ \A e \in PipeEdge : e # c => edgeIns'[e] = edgeIns[e]
  BY <1>2, <1>3, <1>6, GraphTypes
<1>8. \A x \in PipeNode : nodeOuts'[x] = IF x \in W THEN Append(nodeOuts[x], c) ELSE nodeOuts[x]
  <2>1. ToSet(Waited(u)) = Inside(u)
    BY <1>1, WaitedSet
  <2>2. \A x : (\E v \in ToSet(Waited(u)) : x = WaitedFor(v)) <=> x \in W
    BY <2>1 DEF W, WaitedFor
  <2>3. QED BY <1>2, <2>2
<1>9. \A x \in PipeNode :
        /\ nodeOuts'[x] \in Seq(PipeEdge)
        /\ ToSet(nodeOuts'[x]) = ToSet(nodeOuts[x]) \cup (IF x \in W THEN {c} ELSE {})
  <2>1. TAKE x \in PipeNode
  <2>2. nodeOuts[x] \in Seq(PipeEdge)
    BY GraphTypes
  <2>3. Append(nodeOuts[x], c) = nodeOuts[x] \o <<c>> /\ <<c>> \in Seq(PipeEdge)
    BY <1>3, <2>2
  <2>4. /\ Append(nodeOuts[x], c) \in Seq(PipeEdge)
        /\ ToSet(Append(nodeOuts[x], c)) = ToSet(nodeOuts[x]) \cup {c}
    <3>1. /\ nodeOuts[x] \o <<c>> \in Seq(PipeEdge)
          /\ ToSet(nodeOuts[x] \o <<c>>) = ToSet(nodeOuts[x]) \cup ToSet(<<c>>)
      <4> DEFINE last == <<c>>
      <4>1. last \in Seq(PipeEdge) /\ nodeOuts[x] \in Seq(PipeEdge)
        BY <2>2, <2>3
      <4> HIDE DEF last
      <4>2. /\ nodeOuts[x] \o last \in Seq(PipeEdge)
            /\ ToSet(nodeOuts[x] \o last) = ToSet(nodeOuts[x]) \cup ToSet(last)
        BY <4>1, ConcatSet
      <4>3. QED BY <4>2 DEF last
    <3>2. ToSet(<<c>>) = {c}
      BY SingleSet
    <3>3. QED BY <2>3, <3>1, <3>2
  <2>5. QED BY <1>8, <2>2, <2>4
<1>10. nodeOuts' \in [PipeNode -> Seq(PipeEdge)]
  BY <1>2, <1>9
<1>11. GP!TypeOK'
  <2>1. GP!TypeOK
    BY DEF GP!IInv, GP!Inv
  <2>2. QED BY <1>2, <1>7, <1>10, <2>1 DEF GP!TypeOK, GP!Places
<1>0. \A t : GP!ToSet(t) = ToSet(t)
  BY DEF ToSet, GP!ToSet
<1>12. ASSUME NEW e \in PipeEdge, NEW x \in PipeNode
       PROVE  /\ x \in ToSet(edgeOuts'[e]) <=> e \in ToSet(nodeIns'[x])
              /\ x \in ToSet(edgeIns'[e]) <=> e \in ToSet(nodeOuts'[x])
  <2>1. x \in ToSet(edgeOuts'[e]) <=> e \in ToSet(nodeIns'[x])
    BY <1>2, GraphLinks
  <2>2. CASE e = c
    <3>1. x \in ToSet(edgeIns'[e]) <=> x \in ToSet(edgeIns[e]) \/ x \in W
      BY <1>6, <1>7, <2>2
    <3>2. e \in ToSet(nodeOuts'[x]) <=> e \in ToSet(nodeOuts[x]) \/ x \in W
      BY <1>9, <2>2
    <3>3. QED BY <2>1, <3>1, <3>2, GraphLinks
  <2>3. CASE e # c
    <3>1. e \in ToSet(nodeOuts'[x]) <=> e \in ToSet(nodeOuts[x])
      BY <1>9, <2>3
    <3>2. QED BY <1>7, <2>1, <2>3, <3>1, GraphLinks
  <2>4. QED BY <2>2, <2>3
<1>13. GP!Linked'
  BY <1>0, <1>12 DEF GP!Linked
<1>14. \A x \in PipeNode : ToSet(nodeIns'[x]) \cup ToSet(nodeOuts'[x]) \subseteq ToSet(m_edges')
  <2>1. TAKE x \in PipeNode
  <2>2. /\ ToSet(nodeIns[x]) \subseteq ToSet(m_edges) /\ ToSet(nodeOuts[x]) \subseteq ToSet(m_edges)
        /\ m_edges' = m_edges /\ nodeIns' = nodeIns
    BY <1>2, GraphLinks
  <2>3. ToSet(nodeOuts'[x]) \subseteq ToSet(nodeOuts[x]) \cup {c}
    BY <1>9
  <2>4. QED BY <1>3, <2>2, <2>3
<1>15. \A e \in PipeEdge : ToSet(edgeIns'[e]) \cup ToSet(edgeOuts'[e]) \subseteq ToSet(m_nodes')
  BY <1>2, <1>4, <1>6, <1>7, GraphLinks
<1>16. GP!Declared'
  BY <1>0, <1>14, <1>15 DEF GP!Declared, GP!Nodes, GP!Edges
<1>17. GP!IInv'
  BY <1>2, <1>11, <1>13, <1>16, BuildStep
<1>18. \A e \in PipeEdge :
         ToSet(edgeIns'[e]) = ToSet(edgeIns[e]) \cup (IF e = c THEN W ELSE {})
  BY <1>6, <1>7
<1>19. QED BY <1>1, <1>7, <1>17, <1>18 DEF u, c, W

-----------------------------------------------------------------------------
(* The invariant.                                                          *)

LEMMA InvInit == Init => Inv
<1> SUFFICES ASSUME Init PROVE Inv
  OBVIOUS
<1>1. PICK n \in Unit : encl \in Program(n) /\ literal \in [1..n -> String]
  BY DEF Init
<1>2. encl \in [1..n -> 0..n - 1]
  BY <1>1 DEF Program
<1>3. n \in Nat /\ n >= 1
  BY SchedulerAssumption DEF Unit
<1>4. IsProgram
  <2>1. encl \in Seq(0..n - 1) /\ Len(encl) = n
    BY <1>2, <1>3
  <2>2. Units = 1..n
    BY <2>1 DEF Units
  <2>3. QED BY <1>1, <2>1, <2>2 DEF IsProgram
<1>5. GP!IInv
  BY GP!IInvInit, SchedulerAssumption, SameGraph DEF Init
<1>6. /\ m_nodes = <<>> /\ m_edges = <<>> /\ pc = "build"
      /\ m_state = [e \in PipeEdge |-> "Closed"]
      /\ visited = 0 /\ m_funcs = {} /\ m_depQ = <<>>
  BY DEF Init, G!Init
<1>7. 1..visited = {}
  BY <1>6
<1>8. Pipelines
  <2>1. visited \in 0..Len(encl)
    BY <1>4, <1>6, UnitsAre
  <2>2. m_depQ \in Seq(1..visited)
    BY <1>6
  <2>3. ToSet(m_nodes) = {} /\ ToSet(m_edges) = {}
    BY <1>6, SingleSet
  <2>4. (1..visited) \X Kind = {} /\ (1..visited) \X Rule = {}
    BY <1>7
  <2>5. QED BY <1>6, <1>7, <2>1, <2>2, <2>3, <2>4 DEF Pipelines
<1>9. Waits
  BY <1>7 DEF Waits
<1>10. /\ data = [u \in Unit |-> NoId] /\ ids = [u \in Unit |-> NoId]
       /\ ldstr = [u \in Unit |-> NoId] /\ dumped = <<>>
       /\ assem = emptyStore /\ strings = emptyStore
  BY DEF Init
<1>11. Tables
  <2>1. \A S : StoreOK(emptyStore, S)
    BY DEF StoreOK, emptyStore, next
  <2>2. DOMAIN strings.m_keys = {}
    BY <1>10 DEF emptyStore
  <2>3. dumped \in Seq(Id)
    BY <1>10
  <2>4. QED BY <1>10, <2>1, <2>2, <2>3 DEF Tables
<1>12. Results
  <2>1. \A u \in Units : ids[u] = NoId
    BY <1>4, <1>10, UnitsAre
  <2>2. \A u \in Units, rule \in Rule : m_state[<<u, rule>>] = "Closed"
    BY <1>4, <1>6, UnitsAre DEF PipeEdge, Rule
  <2>3. QED BY <2>1, <2>2 DEF Results, Rule
<1>13. QED BY <1>4, <1>5, <1>6, <1>8, <1>9, <1>11, <1>12 DEF Inv

\* The program never changes, and what a step leaves alone keeps its part of
\* the invariant.
LEMMA KeepsProgram ==
  ASSUME IsProgram, UNCHANGED program
  PROVE  IsProgram' /\ Units' = Units /\ encl' = encl /\ literal' = literal
         /\ \A u : Inside(u)' = Inside(u)
BY DEF IsProgram, program, Units, Inside, Program

LEMMA KeepsCompiler ==
  ASSUME Tables, Results, UNCHANGED program, UNCHANGED compiler,
         \A u \in Units, rule \in {"compile", "dump"} :
           m_state'[<<u, rule>>] = "Done" <=> m_state[<<u, rule>>] = "Done"
  PROVE  Tables' /\ Results'
<1>1. /\ encl' = encl /\ literal' = literal /\ data' = data /\ ids' = ids
      /\ assem' = assem /\ strings' = strings /\ ldstr' = ldstr /\ dumped' = dumped
      /\ Units' = Units
  BY DEF program, compiler, Units
<1>2. Tables'
  BY <1>1 DEF Tables, StoreOK, holds, key, value, found, next
<1>3. Results'
  BY <1>1 DEF Results, found, key
<1>4. QED BY <1>2, <1>3

LEMMA KeepsSchedule ==
  ASSUME Pipelines, Waits, UNCHANGED <<program, sched>>,
         UNCHANGED <<m_nodes, m_edges, edgeIns, edgeOuts>>,
         pc' = "build" => pc = "build",
         pc = "build" => visited = Len(encl) /\ m_depQ = <<>>
  PROVE  Pipelines' /\ Waits'
<1>1. /\ encl' = encl /\ visited' = visited /\ m_funcs' = m_funcs /\ m_depQ' = m_depQ
      /\ m_nodes' = m_nodes /\ m_edges' = m_edges /\ edgeIns' = edgeIns /\ edgeOuts' = edgeOuts
  BY DEF program, sched
<1>2. Pipelines'
  BY <1>1 DEF Pipelines
<1>3. Waits'
  BY <1>1 DEF Waits, Inside, Units
<1>4. QED BY <1>2, <1>3

LEMMA ScheduleInv == ASSUME Inv, Schedule PROVE Inv'
<1> DEFINE u == visited + 1
<1>1. IsProgram /\ GP!IInv /\ Pipelines /\ Waits /\ Tables /\ Results
  BY DEF Inv
<1>2. /\ pc = "build" /\ pc' = "build" /\ Pipeline(u) /\ visited' = u
      /\ visited < Len(encl) /\ m_depQ' = Append(m_depQ, u)
      /\ m_funcs' = IF encl[u] = 0 THEN m_funcs ELSE m_funcs \cup {u}
      /\ m_state' = m_state /\ UNCHANGED program /\ UNCHANGED compiler
  BY DEF Schedule
<1>3. /\ GP!IInv' /\ ToSet(m_nodes') = (1..u) \X Kind /\ ToSet(m_edges') = (1..u) \X Rule
  BY <1>1, ScheduleGraph
<1>4. /\ visited \in Nat /\ Len(encl) \in Nat /\ u \in 1..Len(encl) /\ u \in Unit
      /\ 1..u = (1..visited) \cup {u} /\ u \notin 1..visited
      /\ \A v \in 1..visited : v \in Unit
  <2>1. visited \in 0..Len(encl) /\ visited < Len(encl)
    BY <1>1, <1>2 DEF Pipelines
  <2>2. visited \in Nat /\ u \in 1..Len(encl) /\ u \notin 1..visited
    BY <1>1, <2>1, UnitsAre
  <2>3. 1..u = (1..visited) \cup {u}
    BY <2>2
  <2>4. \A v \in 1..Len(encl) : v \in Unit
    BY <1>1, UnitsAre
  <2>5. QED BY <1>1, <2>1, <2>2, <2>3, <2>4, UnitsAre
<1> HIDE DEF u
<1>5. /\ \A rule \in Rule : /\ edgeIns'[<<u, rule>>] = PipeIns(u)[rule]
                            /\ edgeOuts'[<<u, rule>>] = PipeOuts(u)[rule]
      /\ \A v \in 1..visited, rule \in Rule :
           /\ edgeIns'[<<v, rule>>] = edgeIns[<<v, rule>>]
           /\ edgeOuts'[<<v, rule>>] = edgeOuts[<<v, rule>>]
  <2>1. \A v \in Unit, rule \in Rule : <<v, rule>> \in PipeEdge
    BY DEF PipeEdge, Rule
  <2>2. /\ edgeIns' = [e \in PipeEdge |-> IF e[1] = u THEN PipeIns(u)[e[2]] ELSE edgeIns[e]]
        /\ edgeOuts' = [e \in PipeEdge |-> IF e[1] = u THEN PipeOuts(u)[e[2]] ELSE edgeOuts[e]]
    BY <1>2 DEF Pipeline
  <2>3. \A v \in 1..visited : v \in Unit /\ v # u
    BY <1>4
  <2>4. QED BY <1>4, <2>1, <2>2, <2>3
<1>6. encl' = encl /\ Units' = Units /\ IsProgram'
  BY <1>1, <1>2, KeepsProgram
<1>7. Pipelines'
  <2>1. visited' \in 0..Len(encl') /\ m_funcs' = {v \in 1..u : encl[v] # 0}
    <3>1. m_funcs = {v \in 1..visited : encl[v] # 0}
      BY <1>1 DEF Pipelines
    <3>2. visited' = u /\ encl' = encl /\ u \in 0..Len(encl)
      BY <1>2, <1>4, <1>6
    <3>3. m_funcs' = {v \in 1..u : encl[v] # 0}
      BY <1>2, <1>4, <3>1
    <3>4. QED BY <3>2, <3>3
  <2>2. m_depQ' \in Seq(1..visited')
    <3>1. m_depQ \in Seq(1..visited)
      BY <1>1 DEF Pipelines
    <3>2. m_depQ \in Seq(1..u)
      BY <1>4, <3>1
    <3>3. u \in 1..u
      BY <1>4
    <3>4. QED BY <1>2, <3>2, <3>3
  <2>3. ASSUME NEW v \in 1..u
        PROVE  /\ <<v, "input">> \in ToSet(edgeIns'[<<v, "compile">>])
               /\ edgeIns'[<<v, "verify">>] = <<<<v, "compiled">>>>
               /\ edgeIns'[<<v, "dump">>] = <<<<v, "verified">>>>
               /\ \A rule \in Rule : edgeOuts'[<<v, rule>>] = PipeOuts(v)[rule]
    <3>1. CASE v = u
      <4>1. /\ edgeIns'[<<v, "compile">>] = <<<<v, "input">>>>
            /\ edgeIns'[<<v, "verify">>] = <<<<v, "compiled">>>>
            /\ edgeIns'[<<v, "dump">>] = <<<<v, "verified">>>>
        BY <1>5, <3>1 DEF PipeIns, Rule
      <4>2. <<v, "input">> \in ToSet(edgeIns'[<<v, "compile">>])
        BY <4>1, SingleSet
      <4>3. QED BY <1>5, <3>1, <4>1, <4>2
    <3>2. CASE v # u
      <4>1. v \in 1..visited
        BY <1>4, <3>2
      <4>2. QED BY <1>1, <1>5, <4>1 DEF Pipelines, Rule
    <3>3. QED BY <3>1, <3>2
  <2>4. QED BY <1>2, <1>3, <1>6, <2>1, <2>2, <2>3 DEF Pipelines, PipeOuts
<1>8. Waits'
  <2>1. \A x : x \in ToSet(m_depQ') <=> x \in ToSet(m_depQ) \/ x = u
    <3>1. m_depQ \in Seq(1..u) /\ <<u>> \in Seq(1..u)
      BY <1>1, <1>4 DEF Pipelines
    <3>2. m_depQ' = m_depQ \o <<u>>
      BY <1>2, <3>1
    <3>3. ToSet(m_depQ \o <<u>>) = ToSet(m_depQ) \cup ToSet(<<u>>)
      <4> DEFINE last == <<u>>
      <4>1. last \in Seq(1..u)
        BY <3>1
      <4> HIDE DEF last
      <4>2. ToSet(m_depQ \o last) = ToSet(m_depQ) \cup ToSet(last)
        BY <3>1, <4>1, ConcatSet
      <4>3. QED BY <4>2 DEF last
    <3>4. ToSet(<<u>>) = {u}
      BY SingleSet
    <3>5. QED BY <3>2, <3>3, <3>4
  <2>2. ASSUME NEW v \in 1..u, v \notin ToSet(m_depQ')
        PROVE  \A w \in Inside(v) : <<w, "output">> \in ToSet(edgeIns'[<<v, "compile">>])
    <3>1. v \in 1..visited /\ v \notin ToSet(m_depQ)
      BY <1>4, <2>1, <2>2
    <3>2. edgeIns'[<<v, "compile">>] = edgeIns[<<v, "compile">>]
      BY <1>5, <3>1 DEF Rule
    <3>3. QED BY <1>1, <3>1, <3>2 DEF Waits
  <2>3. QED BY <1>2, <1>6, <2>2 DEF Waits, Inside
<1>9. Tables' /\ Results'
  BY <1>1, <1>2, KeepsCompiler
<1>10. QED BY <1>2, <1>3, <1>6, <1>7, <1>8, <1>9 DEF Inv

LEMMA WalkDepsInv == ASSUME Inv, WalkDeps PROVE Inv'
<1> DEFINE u == Head(m_depQ)
<1>1. IsProgram /\ GP!IInv /\ Pipelines /\ Waits /\ Tables /\ Results
  BY DEF Inv
<1>2. /\ pc = "build" /\ pc' = "build" /\ visited = Len(encl) /\ visited' = visited
      /\ m_depQ # <<>> /\ m_depQ' = Tail(m_depQ) /\ m_funcs' = m_funcs
      /\ m_nodes' = m_nodes /\ m_edges' = m_edges /\ edgeOuts' = edgeOuts
      /\ m_state' = m_state /\ UNCHANGED program /\ UNCHANGED compiler
  BY DEF WalkDeps
<1>3. /\ GP!IInv' /\ u \in Units
      /\ \A e \in PipeEdge :
           ToSet(edgeIns'[e]) =
             ToSet(edgeIns[e]) \cup
               (IF e = <<u, "compile">> THEN {<<v, "output">> : v \in Inside(u)} ELSE {})
      /\ \A e \in PipeEdge : e # <<u, "compile">> => edgeIns'[e] = edgeIns[e]
  BY <1>1, WalkDepsGraph
<1>4. m_depQ \in Seq(1..visited)
  BY <1>1 DEF Pipelines
<1> HIDE DEF u
<1>5. encl' = encl /\ Units' = Units /\ IsProgram'
  BY <1>1, <1>2, KeepsProgram
<1>6. \A v \in 1..visited, rule \in Rule : <<v, rule>> \in PipeEdge
  BY <1>1, <1>2, UnitsAre DEF PipeEdge, Rule
<1>7. Pipelines'
  <2>1. m_depQ' \in Seq(1..visited')
    BY <1>2, <1>4
  <2>2. ASSUME NEW v \in 1..visited
        PROVE  /\ <<v, "input">> \in ToSet(edgeIns'[<<v, "compile">>])
               /\ edgeIns'[<<v, "verify">>] = <<<<v, "compiled">>>>
               /\ edgeIns'[<<v, "dump">>] = <<<<v, "verified">>>>
    <3>1. /\ <<v, "compile">> \in PipeEdge /\ <<v, "verify">> \in PipeEdge
          /\ <<v, "dump">> \in PipeEdge
          /\ <<v, "verify">> # <<u, "compile">> /\ <<v, "dump">> # <<u, "compile">>
      BY <1>6 DEF Rule
    <3>2. /\ <<v, "input">> \in ToSet(edgeIns[<<v, "compile">>])
          /\ edgeIns[<<v, "verify">>] = <<<<v, "compiled">>>>
          /\ edgeIns[<<v, "dump">>] = <<<<v, "verified">>>>
      BY <1>1 DEF Pipelines
    <3>3. <<v, "input">> \in ToSet(edgeIns'[<<v, "compile">>])
      BY <1>3, <3>1, <3>2
    <3>4. QED BY <1>3, <3>1, <3>2, <3>3
  <2>3. QED BY <1>1, <1>2, <1>5, <2>1, <2>2 DEF Pipelines, PipeOuts
<1>8. Waits'
  <2>1. \A v : v \in ToSet(m_depQ) => v = u \/ v \in ToSet(m_depQ')
    <3>1. TAKE v
    <3>2. HAVE v \in ToSet(m_depQ)
    <3>3. PICK k \in 1..Len(m_depQ) : m_depQ[k] = v
      BY <1>4, <3>2 DEF ToSet
    <3>4. CASE k = 1
      BY <1>4, <3>3, <3>4 DEF u
    <3>5. CASE k # 1
      <4>1. k - 1 \in 1..Len(m_depQ') /\ m_depQ'[k - 1] = v
        BY <1>2, <1>4, <3>3, <3>5
      <4>2. k - 1 \in DOMAIN m_depQ'
        BY <1>2, <1>4, <4>1
      <4>3. QED BY <4>1, <4>2 DEF ToSet
    <3>6. QED BY <3>4, <3>5
  <2>2. ASSUME NEW v \in 1..visited, v \notin ToSet(m_depQ'),
               NEW w \in Inside(v)
        PROVE  <<w, "output">> \in ToSet(edgeIns'[<<v, "compile">>])
    <3>1. <<v, "compile">> \in PipeEdge
      BY <1>6 DEF Rule
    <3>2. CASE v = u
      BY <1>3, <2>2, <3>1, <3>2
    <3>3. CASE v # u
      <4>1. <<w, "output">> \in ToSet(edgeIns[<<v, "compile">>])
        BY <1>1, <2>1, <2>2, <3>3 DEF Waits
      <4>2. QED BY <1>3, <3>1, <4>1
    <3>4. QED BY <3>2, <3>3
  <2>3. QED BY <1>2, <1>5, <2>2 DEF Waits, Inside
<1>9. Tables' /\ Results'
  BY <1>1, <1>2, KeepsCompiler
<1>10. QED BY <1>2, <1>3, <1>5, <1>7, <1>8, <1>9 DEF Inv

\* run() finds a graph that has not run, and edges that have both ends.
LEMMA RunGraphInv == ASSUME Inv, RunGraph PROVE Inv'
<1>1. IsProgram /\ GP!IInv /\ Pipelines /\ Waits /\ Tables /\ Results
  BY DEF Inv
<1>2. GP!Run /\ visited = Len(encl) /\ m_depQ = <<>> /\ UNCHANGED <<program, sched, compiler>>
  BY SameGraph DEF RunGraph
<1>3. GP!IInv'
  BY <1>1, <1>2, RunStep
<1>4. ~m_run /\ pc = "build"
  BY <1>1, <1>2 DEF GP!Run, GP!IInv, GP!Inv, GP!Fresh
<1>5. pc' = "nodes" /\ m_state' = m_state /\ UNCHANGED <<m_nodes, m_edges, edgeIns, edgeOuts>>
  BY <1>2, <1>4 DEF GP!Run, GP!shape
<1>6. IsProgram' /\ Pipelines' /\ Waits' /\ Tables' /\ Results'
  BY <1>1, <1>2, <1>5, KeepsProgram, KeepsSchedule, KeepsCompiler
<1>7. QED BY <1>3, <1>5, <1>6 DEF Inv

\* An edge that is opened belongs to the pipeline of a unit that was visited.
LEMMA OfAPipeline ==
  ASSUME Inv, NEW e \in PipeEdge, m_state[e] # "Closed"
  PROVE  e \in (1..visited) \X Rule /\ e[1] \in 1..visited /\ e[1] \in Units /\ e[2] \in Rule
<1>1. e \in ToSet(m_edges)
  <2>1. GP!ToSet(m_edges) = ToSet(m_edges)
    BY DEF ToSet, GP!ToSet
  <2>2. QED BY <2>1 DEF Inv, GP!IInv, GP!Drained, GP!Edges
<1>2. e \in (1..visited) \X Rule
  BY <1>1 DEF Inv, Pipelines
<1>3. visited \in 0..Len(encl)
  BY DEF Inv, Pipelines
<1>4. e[1] \in 1..visited /\ e[2] \in Rule
  BY <1>2
<1>5. IsProgram
  BY DEF Inv
<1>6. QED BY <1>2, <1>3, <1>4, <1>5, UnitsAre

\* The edge whose rule is called or has returned is the front of the queue.
LEMMA FrontIs ==
  ASSUME Inv, m_q # <<>>
  PROVE  /\ Head(m_q) \in PipeEdge
         /\ pc \in {"loop", "rule"} => m_state[Head(m_q)] = "Open"
<1>1. m_q \in Seq(PipeEdge) /\ GP!QueueIsOpen
  BY DEF Inv, GP!IInv, GP!Inv, GP!TypeOK
<1>2. Head(m_q) \in PipeEdge /\ 1 \in 1..Len(m_q) /\ Head(m_q) = m_q[1]
  BY <1>1
<1>3. QED BY <1>1, <1>2 DEF GP!QueueIsOpen, GP!Through

LEMMA WalkGraphInv == ASSUME Inv, WalkGraph PROVE Inv'
<1>1. IsProgram /\ GP!IInv /\ Pipelines /\ Waits /\ Tables /\ Results /\ pc # "aborted"
  BY DEF Inv
<1>2. GP!Walk /\ UNCHANGED <<program, sched, compiler>>
  BY SameGraph DEF WalkGraph
<1>3. GP!IInv'
  BY <1>1, <1>2, RunStep
<1>4. /\ pc # "build" /\ pc' # "build"
      /\ UNCHANGED <<m_nodes, m_edges, edgeIns, edgeOuts>>
  <2>1. GP!Walk => pc # "build" /\ pc' # "build" /\ UNCHANGED GP!shape
    BY DEF GP!Walk, GP!StatSelf, GP!NodesSeen, GP!StatEdge, GP!EdgesSeen, GP!TakeFront,
       GP!StatOut, GP!StatReader, GP!Pop, GP!Finish
  <2>2. QED BY <1>2, <2>1 DEF GP!shape
<1>5. \A e \in PipeEdge : m_state'[e] = "Done" <=> m_state[e] = "Done"
  BY <1>1, <1>2, WalkKeepsDone
<1>6. \A u \in Units, rule \in {"compile", "dump"} :
        m_state'[<<u, rule>>] = "Done" <=> m_state[<<u, rule>>] = "Done"
  BY <1>1, <1>5, UnitsAre DEF PipeEdge
<1>7. IsProgram' /\ Pipelines' /\ Waits'
  BY <1>1, <1>2, <1>4, KeepsProgram, KeepsSchedule DEF Pipelines
<1>8. Tables' /\ Results'
  BY <1>1, <1>2, <1>6, KeepsCompiler
<1>9. pc' # "aborted"
  <2>1. CASE GP!TakeFront
    <3> DEFINE e == Head(m_q)
    <3>1. pc = "loop" /\ m_q # <<>>
      BY <2>1 DEF GP!TakeFront
    <3>2. e \in PipeEdge /\ m_state[e] = "Open"
      BY <3>1, FrontIs
    <3>3. e[1] \in 1..visited /\ e[2] \in Rule /\ e = <<e[1], e[2]>> /\ e[1] \in Unit
      BY <1>1, <3>2, OfAPipeline, UnitsAre
    <3> HIDE DEF e
    <3>4. edgeIns[e] # <<>>
      <4>1. ToSet(<<>>) = {} /\ <<<<e[1], "compiled">>>> # <<>> /\ <<<<e[1], "verified">>>> # <<>>
        BY SingleSet
      <4>2. /\ edgeIns[<<e[1], "compile">>] # <<>> /\ edgeIns[<<e[1], "verify">>] # <<>>
            /\ edgeIns[<<e[1], "dump">>] # <<>>
        BY <1>1, <3>3, <4>1 DEF Pipelines
      <4>3. QED BY <3>3, <4>2 DEF Rule
    <3>5. edgeOuts[e] # <<>>
      <4>1. edgeOuts[<<e[1], e[2]>>] = PipeOuts(e[1])[e[2]]
        BY <1>1, <3>3 DEF Pipelines
      <4>2. QED BY <3>3, <4>1, PipeLinks
    <3>6. GP!OnlyEmptyEdgesAbort
      BY <1>1, GP!AssertionsHold, SchedulerAssumption DEF GP!IInv
    <3>7. GP!RunAssertions(GP!Current)
      BY <3>1, <3>4, <3>5, <3>6 DEF GP!OnlyEmptyEdgesAbort, GP!Current, e
    <3>8. QED BY <2>1, <3>7 DEF GP!TakeFront
  <2>2. CASE ~GP!TakeFront
    BY <1>1, <1>2, <2>2 DEF GP!Walk, GP!StatSelf, GP!NodesSeen, GP!StatEdge, GP!EdgesSeen,
       GP!StatOut, GP!StatReader, GP!Pop, GP!Finish
  <2>3. QED BY <2>1, <2>2
<1>10. QED BY <1>3, <1>7, <1>8, <1>9 DEF Inv

-----------------------------------------------------------------------------
(* The rules.                                                              *)

\* Before an edge is opened, what writes its inputs is Done.
LEMMA WritersDone ==
  ASSUME Inv, NEW e \in PipeEdge, m_state[e] # "Closed", NEW d \in PipeEdge,
         NEW x \in PipeNode, x \in ToSet(edgeIns[e]), x \in ToSet(edgeOuts[d])
  PROVE  m_state[d] = "Done"
<1>1. GP!IInv /\ GP!InputsComplete
  BY DEF Inv, GP!IInv, GP!Inv
<1>2. PICK k \in DOMAIN edgeIns[e] : edgeIns[e][k] = x
  BY DEF ToSet
<1>3. m_ready[x]
  BY <1>1, <1>2 DEF GP!InputsComplete
<1>4. \A l \in DOMAIN nodeIns[x] : m_state[nodeIns[x][l]] = "Done"
  BY <1>1, <1>3 DEF GP!InputsComplete, GP!WritersDone
<1>5. d \in ToSet(nodeIns[x])
  BY <1>1, GraphLinks
<1>6. QED BY <1>4, <1>5 DEF ToSet

\* The edges of a pipeline run one after the other.
LEMMA Chain ==
  ASSUME Inv, NEW u \in Units
  PROVE  /\ m_state[<<u, "verify">>] # "Closed" => m_state[<<u, "compile">>] = "Done"
         /\ m_state[<<u, "dump">>] # "Closed" => m_state[<<u, "verify">>] = "Done"
<1>1. /\ <<u, "compile">> \in PipeEdge /\ <<u, "verify">> \in PipeEdge /\ <<u, "dump">> \in PipeEdge
      /\ <<u, "compiled">> \in PipeNode /\ <<u, "verified">> \in PipeNode
  BY UnitsAre DEF Inv, PipeEdge, PipeNode
<1>2. ASSUME m_state[<<u, "verify">>] # "Closed" PROVE m_state[<<u, "compile">>] = "Done"
  <2>1. u \in 1..visited
    BY <1>1, <1>2, OfAPipeline
  <2>2. /\ edgeIns[<<u, "verify">>] = <<<<u, "compiled">>>>
        /\ edgeOuts[<<u, "compile">>] = <<<<u, "compiled">>>>
    BY <2>1 DEF Inv, Pipelines, PipeOuts, Rule
  <2>3. ToSet(<<<<u, "compiled">>>>) = {<<u, "compiled">>}
    BY SingleSet
  <2>4. QED BY <1>1, <1>2, <2>2, <2>3, WritersDone
<1>3. ASSUME m_state[<<u, "dump">>] # "Closed" PROVE m_state[<<u, "verify">>] = "Done"
  <2>1. u \in 1..visited
    BY <1>1, <1>3, OfAPipeline
  <2>2. /\ edgeIns[<<u, "dump">>] = <<<<u, "verified">>>>
        /\ edgeOuts[<<u, "verify">>] = <<<<u, "verified">>>>
    BY <2>1 DEF Inv, Pipelines, PipeOuts, Rule
  <2>3. ToSet(<<<<u, "verified">>>>) = {<<u, "verified">>}
    BY SingleSet
  <2>4. QED BY <1>1, <1>3, <2>2, <2>3, WritersDone
<1>4. QED BY <1>2, <1>3

\* The rule that runs is one of the pipeline of its unit, and its edge is Open.
LEMMA RuleRuns ==
  ASSUME Inv, NEW rule, Running(rule)
  PROVE  /\ Subject \in Units /\ Subject \in 1..visited /\ rule \in Rule
         /\ Head(m_q) = <<Subject, rule>> /\ m_state[<<Subject, rule>>] = "Open"
         /\ visited = Len(encl) /\ m_depQ = <<>> /\ pc = "rule"
<1>1. pc = "rule" /\ Head(m_q)[2] = rule /\ m_q # <<>>
  BY GraphTypes DEF Running, Inv
<1>2. Head(m_q) \in PipeEdge /\ m_state[Head(m_q)] = "Open"
  BY <1>1, FrontIs
<1>3. Head(m_q) = <<Subject, rule>>
  BY <1>1, <1>2 DEF PipeEdge, Subject
<1>4. Subject \in 1..visited /\ Subject \in Units /\ rule \in Rule
  BY <1>1, <1>2, OfAPipeline DEF Subject
<1>5. QED BY <1>1, <1>2, <1>3, <1>4 DEF Inv, Pipelines

\* What the return of a rule does to the graph, and to the program's half of
\* the invariant.
LEMMA RuleGraph ==
  ASSUME Inv, NEW rule, Running(rule), G!RuleReturns, UNCHANGED <<program, sched>>
  PROVE  /\ IsProgram' /\ GP!IInv' /\ Pipelines' /\ Waits' /\ pc' = "outs"
         /\ encl' = encl /\ literal' = literal /\ Units' = Units
         /\ m_state' = [m_state EXCEPT ![<<Subject, rule>>] = "Done"]
         /\ \A u \in Units, r \in Rule :
              m_state'[<<u, r>>] =
                IF u = Subject /\ r = rule THEN "Done" ELSE m_state[<<u, r>>]
<1>1. IsProgram /\ GP!IInv /\ Pipelines /\ Waits
  BY DEF Inv
<1>2. GP!RuleReturns
  BY SameGraph
<1>3. GP!IInv'
  BY <1>1, <1>2, RunStep
<1>4. /\ pc = "rule" /\ pc' = "outs" /\ m_state' = [m_state EXCEPT ![Head(m_q)] = "Done"]
      /\ UNCHANGED <<m_nodes, m_edges, edgeIns, edgeOuts>>
  BY <1>2 DEF GP!RuleReturns, GP!shape, GP!Current
<1>5. Head(m_q) = <<Subject, rule>> /\ rule \in Rule /\ Subject \in Units
  BY RuleRuns
<1>6. IsProgram' /\ Pipelines' /\ Waits' /\ encl' = encl /\ literal' = literal /\ Units' = Units
  BY <1>1, <1>4, KeepsProgram, KeepsSchedule DEF Pipelines
<1>7. \A u \in Units, r \in Rule : <<u, r>> \in PipeEdge
  BY <1>1, UnitsAre DEF PipeEdge, Rule
<1>8. \A u \in Units, r \in Rule :
        m_state'[<<u, r>>] = IF u = Subject /\ r = rule THEN "Done" ELSE m_state[<<u, r>>]
  <2>1. TAKE u \in Units, r \in Rule
  <2>2. m_state' = [m_state EXCEPT ![<<Subject, rule>>] = "Done"] /\ <<u, r>> \in PipeEdge
    BY <1>4, <1>5, <1>7
  <2>3. m_state \in [PipeEdge -> {"Closed", "Open", "Done"}]
    BY <1>1, GraphTypes
  <2>4. CASE u = Subject /\ r = rule
    BY <2>2, <2>3, <2>4
  <2>5. CASE ~(u = Subject /\ r = rule)
    <3>1. <<u, r>> # <<Subject, rule>>
      BY <2>5
    <3>2. QED BY <2>2, <2>3, <2>5, <3>1
  <2>6. QED BY <2>4, <2>5
<1>9. QED BY <1>3, <1>4, <1>5, <1>6, <1>8

LEMMA CompileInv == ASSUME Inv, Compile PROVE Inv'
<1> DEFINE u == Subject
           s == literal[u]
<1>1. IsProgram /\ Tables /\ Results
  BY DEF Inv
<1>2. Running("compile") /\ G!RuleReturns /\ UNCHANGED <<program, sched>>
  BY DEF Compile
<1>3. /\ IsProgram' /\ GP!IInv' /\ Pipelines' /\ Waits' /\ pc' = "outs"
      /\ encl' = encl /\ literal' = literal /\ Units' = Units
      /\ \A v \in Units, r \in Rule :
           m_state'[<<v, r>>] = IF v = u /\ r = "compile" THEN "Done" ELSE m_state[<<v, r>>]
  BY <1>2, RuleGraph
<1>4. u \in Units /\ m_state[<<u, "compile">>] = "Open"
  BY <1>2, RuleRuns
<1>5. u \in Unit /\ s \in String
  BY <1>1, <1>4, UnitsAre DEF IsProgram
<1>6. /\ strings' = intern(strings, s) /\ assem' = intern(assem, u)
      /\ ldstr' = [ldstr EXCEPT ![u] = key(strings', s)]
      /\ ids' = [ids EXCEPT ![u] = key(assem', u)]
      /\ data' = [data EXCEPT ![u] = key(assem', u)]
      /\ dumped' = dumped
  BY DEF Compile
<1> HIDE DEF u, s
<1>7. /\ StoreOK(strings', String) /\ DOMAIN strings'.m_keys = DOMAIN strings.m_keys \cup {s}
      /\ \A t \in DOMAIN strings.m_keys : key(strings', t) = key(strings, t)
  BY <1>1, <1>5, <1>6, Interned DEF Tables
<1>8. /\ StoreOK(assem', Units) /\ DOMAIN assem'.m_keys = DOMAIN assem.m_keys \cup {u}
      /\ \A v \in DOMAIN assem.m_keys : key(assem', v) = key(assem, v)
  BY <1>1, <1>4, <1>6, Interned DEF Tables
<1>9. \A t \in DOMAIN strings'.m_keys : \E v \in Units : literal[v] = t
  BY <1>1, <1>4, <1>7 DEF Tables, s
<1>10. key(strings', s) \in Id /\ key(strings', s) # NoId
  <2>1. next(strings') \in Nat /\ next(strings') <= MaxUnits
    BY <1>1, <1>7, <1>9, StoreBound
  <2>2. key(strings', s) \in 0..next(strings') - 1
    BY <1>7 DEF StoreOK, holds
  <2>3. QED BY <1>1, <2>1, <2>2, UnitsAre DEF Id, NoId
<1>11. key(assem', u) \in Id /\ key(assem', u) # NoId
  <2> DEFINE self == [v \in Units |-> v]
  <2>1. \A v \in DOMAIN assem'.m_keys : \E w \in Units : self[w] = v
    BY <1>8 DEF StoreOK
  <2> HIDE DEF self
  <2>2. next(assem') \in Nat /\ next(assem') <= MaxUnits
    BY <1>1, <1>8, <2>1, StoreBound
  <2>3. key(assem', u) \in 0..next(assem') - 1
    BY <1>8 DEF StoreOK, holds
  <2>4. QED BY <1>1, <2>2, <2>3, UnitsAre DEF Id, NoId
<1>12. Tables'
  <2>1. /\ data' \in [Unit -> Id \cup {NoId}] /\ ids' \in [Unit -> Id \cup {NoId}]
        /\ ldstr' \in [Unit -> Id \cup {NoId}]
    BY <1>1, <1>5, <1>6, <1>10, <1>11 DEF Tables
  <2>2. dumped' \in Seq(Id)
    BY <1>1, <1>6 DEF Tables
  <2>3. QED BY <1>3, <1>7, <1>8, <1>9, <2>1, <2>2 DEF Tables
<1>13. Results'
  <2>1. ASSUME NEW v \in Units
        PROVE  /\ ids'[v] # NoId <=> m_state'[<<v, "compile">>] = "Done"
               /\ ids'[v] # NoId =>
                    /\ found(assem', v) /\ ids'[v] = key(assem', v) /\ data'[v] = ids'[v]
                    /\ found(strings', literal[v]) /\ ldstr'[v] = key(strings', literal[v])
               /\ m_state'[<<v, "dump">>] = "Done" =>
                    \E k \in DOMAIN dumped' : dumped'[k] = ids'[v]
    <3>1. v \in Unit /\ data \in [Unit -> Id \cup {NoId}] /\ ids \in [Unit -> Id \cup {NoId}]
          /\ ldstr \in [Unit -> Id \cup {NoId}]
      BY <1>1, UnitsAre DEF Tables
    <3>2. CASE v = u
      <4>1. m_state'[<<v, "compile">>] = "Done" /\ m_state'[<<v, "dump">>] = m_state[<<v, "dump">>]
        BY <1>3, <3>2 DEF Rule
      <4>2. m_state[<<v, "dump">>] # "Done"
        BY <1>4, <3>2, Chain
      <4>3. ids'[v] = key(assem', v) /\ data'[v] = key(assem', v) /\ ldstr'[v] = key(strings', s)
        BY <1>6, <3>1, <3>2
      <4>4. found(assem', v) /\ found(strings', s)
        BY <1>7, <1>8, <3>2 DEF found
      <4>5. QED BY <1>11, <3>2, <4>1, <4>2, <4>3, <4>4 DEF s
    <3>3. CASE v # u
      <4>1. /\ m_state'[<<v, "compile">>] = m_state[<<v, "compile">>]
            /\ m_state'[<<v, "dump">>] = m_state[<<v, "dump">>]
        BY <1>3, <3>3 DEF Rule
      <4>2. ids'[v] = ids[v] /\ data'[v] = data[v] /\ ldstr'[v] = ldstr[v]
        BY <1>6, <3>1, <3>3
      <4>3. /\ ids[v] # NoId <=> m_state[<<v, "compile">>] = "Done"
            /\ ids[v] # NoId =>
                 /\ found(assem, v) /\ ids[v] = key(assem, v) /\ data[v] = ids[v]
                 /\ found(strings, literal[v]) /\ ldstr[v] = key(strings, literal[v])
            /\ m_state[<<v, "dump">>] = "Done" => \E k \in DOMAIN dumped : dumped[k] = ids[v]
        BY <1>1 DEF Results
      <4>4. found(assem, v) => found(assem', v) /\ key(assem', v) = key(assem, v)
        BY <1>8 DEF found
      <4>5. found(strings, literal[v]) =>
              found(strings', literal[v]) /\ key(strings', literal[v]) = key(strings, literal[v])
        BY <1>7 DEF found
      <4>6. dumped' = dumped
        BY <1>6
      <4>7. QED BY <4>1, <4>2, <4>3, <4>4, <4>5, <4>6
    <3>4. QED BY <3>2, <3>3
  <2>2. QED BY <1>3, <2>1 DEF Results, found, key
<1>14. QED BY <1>3, <1>12, <1>13 DEF Inv

LEMMA VerifyInv == ASSUME Inv, Verify PROVE Inv'
<1>1. IsProgram /\ Tables /\ Results
  BY DEF Inv
<1>2. Running("verify") /\ G!RuleReturns /\ UNCHANGED <<program, sched>> /\ UNCHANGED compiler
  BY DEF Verify
<1>3. /\ IsProgram' /\ GP!IInv' /\ Pipelines' /\ Waits' /\ pc' = "outs"
      /\ encl' = encl /\ literal' = literal /\ Units' = Units
      /\ \A v \in Units, r \in Rule :
           m_state'[<<v, r>>] = IF v = Subject /\ r = "verify" THEN "Done" ELSE m_state[<<v, r>>]
  BY <1>2, RuleGraph
<1>4. \A v \in Units : /\ m_state'[<<v, "compile">>] = m_state[<<v, "compile">>]
                       /\ m_state'[<<v, "dump">>] = m_state[<<v, "dump">>]
  BY <1>3 DEF Rule
<1>5. Tables' /\ Results'
  BY <1>1, <1>2, <1>4, KeepsCompiler
<1>6. QED BY <1>3, <1>5 DEF Inv

LEMMA DumpInv == ASSUME Inv, Dump PROVE Inv'
<1> DEFINE u == Subject
<1>1. IsProgram /\ Tables /\ Results
  BY DEF Inv
<1>2. /\ Running("dump") /\ G!RuleReturns /\ UNCHANGED <<program, sched>>
      /\ dumped' = Append(dumped, data[u])
      /\ UNCHANGED <<data, ids, assem, strings, ldstr>>
  BY DEF Dump
<1>3. /\ IsProgram' /\ GP!IInv' /\ Pipelines' /\ Waits' /\ pc' = "outs"
      /\ encl' = encl /\ literal' = literal /\ Units' = Units
      /\ \A v \in Units, r \in Rule :
           m_state'[<<v, r>>] = IF v = u /\ r = "dump" THEN "Done" ELSE m_state[<<v, r>>]
  BY <1>2, RuleGraph
<1>4. u \in Units /\ m_state[<<u, "dump">>] = "Open"
  BY <1>2, RuleRuns
<1> HIDE DEF u
<1>5. m_state[<<u, "compile">>] = "Done"
  BY <1>4, Chain
<1>6. ids[u] # NoId /\ data[u] = ids[u]
  BY <1>1, <1>4, <1>5 DEF Results
<1>7. data[u] \in Id /\ dumped \in Seq(Id)
  BY <1>1, <1>4, <1>6, UnitsAre DEF Tables
<1>8. /\ dumped' \in Seq(Id) /\ DOMAIN dumped' = DOMAIN dumped \cup {Len(dumped) + 1}
      /\ \A k \in DOMAIN dumped : dumped'[k] = dumped[k]
      /\ dumped'[Len(dumped) + 1] = data[u]
  BY <1>2, <1>7
<1>9. Tables'
  BY <1>1, <1>2, <1>3, <1>8 DEF Tables, StoreOK, holds, key, value, found, next
<1>10. Results'
  <2>1. \A v \in Units : m_state'[<<v, "compile">>] = m_state[<<v, "compile">>]
    BY <1>3 DEF Rule
  <2>2. ASSUME NEW v \in Units, m_state'[<<v, "dump">>] = "Done"
        PROVE  \E k \in DOMAIN dumped' : dumped'[k] = ids[v]
    <3>1. CASE v = u
      BY <1>6, <1>8, <3>1
    <3>2. CASE v # u
      <4>1. m_state[<<v, "dump">>] = "Done"
        BY <1>3, <2>2, <3>2 DEF Rule
      <4>2. PICK k \in DOMAIN dumped : dumped[k] = ids[v]
        BY <1>1, <4>1 DEF Results
      <4>3. k \in DOMAIN dumped' /\ dumped'[k] = dumped[k]
        BY <1>8
      <4>4. QED BY <4>2, <4>3
    <3>3. QED BY <3>1, <3>2
  <2>3. ASSUME NEW v \in Units
        PROVE  /\ ids'[v] # NoId <=> m_state'[<<v, "compile">>] = "Done"
               /\ ids'[v] # NoId =>
                    /\ found(assem', v) /\ ids'[v] = key(assem', v) /\ data'[v] = ids'[v]
                    /\ found(strings', literal[v]) /\ ldstr'[v] = key(strings', literal[v])
    <3>1. /\ ids[v] # NoId <=> m_state[<<v, "compile">>] = "Done"
          /\ ids[v] # NoId =>
               /\ found(assem, v) /\ ids[v] = key(assem, v) /\ data[v] = ids[v]
               /\ found(strings, literal[v]) /\ ldstr[v] = key(strings, literal[v])
      BY <1>1 DEF Results
    <3>2. /\ ids' = ids /\ data' = data /\ assem' = assem /\ strings' = strings /\ ldstr' = ldstr
      BY <1>2
    <3>3. QED BY <2>1, <3>1, <3>2
  <2>4. ids' = ids
    BY <1>2
  <2>5. QED BY <1>3, <2>2, <2>3, <2>4 DEF Results, found, key
<1>11. QED BY <1>3, <1>9, <1>10 DEF Inv

LEMMA ThrowInv == ASSUME Inv, Throw PROVE Inv'
<1>1. IsProgram /\ GP!IInv /\ Pipelines /\ Waits /\ Tables /\ Results
  BY DEF Inv
<1>2. GP!RuleThrows /\ UNCHANGED <<program, sched, compiler>>
  BY SameGraph DEF Throw
<1>3. GP!IInv'
  BY <1>1, <1>2, RunStep
<1>4. /\ pc = "rule" /\ pc' = "thrown" /\ m_state' = m_state
      /\ UNCHANGED <<m_nodes, m_edges, edgeIns, edgeOuts>>
  BY <1>2 DEF GP!RuleThrows, GP!shape
<1>5. IsProgram' /\ Pipelines' /\ Waits'
  BY <1>1, <1>2, <1>4, KeepsProgram, KeepsSchedule DEF Pipelines
<1>6. Tables' /\ Results'
  BY <1>1, <1>2, <1>4, KeepsCompiler
<1>7. QED BY <1>3, <1>4, <1>5, <1>6 DEF Inv

\* Each step of the scheduler, of the graph or of a rule keeps the invariant.
LEMMA InvStep == ASSUME Inv, [Next]_vars PROVE Inv'
<1>1. CASE UNCHANGED vars
  <2>1. /\ UNCHANGED GP!vars /\ UNCHANGED <<program, sched, compiler>> /\ pc' = pc
        /\ m_state' = m_state /\ UNCHANGED <<m_nodes, m_edges, edgeIns, edgeOuts>>
    BY <1>1 DEF vars, graph, GP!vars, GP!shape
  <2>2. IsProgram /\ GP!IInv /\ Pipelines /\ Waits /\ Tables /\ Results
    BY DEF Inv
  <2>3. GP!IInv'
    BY <2>1, <2>2, GP!IInvStep, SchedulerAssumption
  <2>4. Tables' /\ Results'
    BY <2>1, <2>2, KeepsCompiler
  <2>5. IsProgram'
    BY <2>1, <2>2, KeepsProgram
  <2>6. /\ encl' = encl /\ visited' = visited /\ m_funcs' = m_funcs /\ m_depQ' = m_depQ
    BY <2>1 DEF program, sched
  <2>7. Pipelines' /\ Waits'
    BY <2>1, <2>2, <2>6 DEF Pipelines, Waits, Inside, Units
  <2>8. QED BY <2>1, <2>3, <2>4, <2>5, <2>7 DEF Inv
<1>2. CASE Next
  <2>1. CASE Terminated
    BY <1>1, <2>1 DEF Terminated
  <2>2. QED
    BY <1>2, <2>1, ScheduleInv, WalkDepsInv, RunGraphInv, WalkGraphInv, CompileInv,
       VerifyInv, DumpInv, ThrowInv
    DEF Next
<1>3. QED BY <1>1, <1>2

\* The graph is the one the program calls for, it is in order, and the rules
\* have filled their tables for exactly the units that are compiled.
THEOREM Invariance == Spec => []Inv
BY InvInit, InvStep, PTL DEF Spec

-----------------------------------------------------------------------------
(* What the invariant says.                                                *)

LEMMA InvTypeOK == Inv => TypeOK
<1> SUFFICES ASSUME Inv PROVE TypeOK
  OBVIOUS
<1>1. IsProgram /\ GP!TypeOK /\ Pipelines /\ Tables
  BY DEF Inv, GP!IInv, GP!Inv
<1>2. visited \in 0..Len(encl) /\ m_funcs \subseteq 1..visited /\ m_depQ \in Seq(1..visited)
  BY <1>1 DEF Pipelines
<1>3. 1..visited \subseteq Units
  BY <1>1, <1>2, UnitsAre
<1>4. m_funcs \subseteq Units /\ m_depQ \in Seq(Units)
  BY <1>2, <1>3
<1>5. assem.m_values \in Seq(Units) /\ strings.m_values \in Seq(String)
  BY <1>1 DEF Tables, StoreOK
<1>6. QED BY <1>1, <1>2, <1>4, <1>5, SameGraph DEF TypeOK, Tables

\* The tables of the scheduler and of the compiler hold what they are declared
\* to; in particular no id and no string number exceeds the number of units.
THEOREM TypeCorrect == Spec => []TypeOK
BY Invariance, InvTypeOK, PTL

LEMMA InvInnerFirst == Inv => InnerFirst
<1> SUFFICES ASSUME Inv, Running("compile"), NEW v \in Inside(Subject)
             PROVE  /\ ids[v] # NoId
                    /\ m_state[<<v, "dump">>] = "Done"
                    /\ \E k \in DOMAIN dumped : dumped[k] = ids[v]
  BY DEF InnerFirst
<1> DEFINE e == <<Subject, "compile">>
           d == <<v, "dump">>
           x == <<v, "output">>
<1>1. /\ Subject \in 1..visited /\ m_state[e] = "Open" /\ visited = Len(encl)
      /\ m_depQ = <<>> /\ Subject \in Units
  BY RuleRuns
<1>2. v \in Units /\ v \in 1..visited
  BY <1>1, UnitsAre DEF Inside, Inv
<1>3. e \in PipeEdge /\ d \in PipeEdge /\ x \in PipeNode
  BY <1>1, <1>2, UnitsAre DEF PipeEdge, PipeNode, Inv
<1>4. x \in ToSet(edgeIns[e])
  <2>1. ToSet(m_depQ) = {}
    BY <1>1, SingleSet
  <2>2. Waits
    BY DEF Inv
  <2>3. QED BY <1>1, <2>1, <2>2 DEF Waits
<1>5. x \in ToSet(edgeOuts[d])
  <2>1. edgeOuts[d] = <<x>>
    BY <1>2 DEF Inv, Pipelines, Rule, PipeOuts
  <2>2. QED BY <2>1, SingleSet
<1>6. m_state[d] = "Done"
  BY <1>1, <1>3, <1>4, <1>5, WritersDone
<1>7. m_state[<<v, "compile">>] = "Done"
  BY <1>2, <1>6, Chain
<1>8. QED BY <1>2, <1>6, <1>7 DEF Inv, Results

\* Whatever the nesting, when a block or a function starts to compile every
\* function inside it has been compiled, verified and dumped.
THEOREM InnerFirstCorrect == Spec => []InnerFirst
BY Invariance, InvInnerFirst, PTL

LEMMA InvReadsOwnFunction == Inv => ReadsOwnFunction
<1> SUFFICES ASSUME Inv, NEW rule \in {"verify", "dump"}, Running(rule)
             PROVE  /\ Known(data[Subject])
                    /\ value(assem, data[Subject]) = Subject
                    /\ ids[Subject] = data[Subject]
  BY DEF ReadsOwnFunction
<1>1. Subject \in Units /\ m_state[<<Subject, rule>>] = "Open"
  BY RuleRuns
<1>2. m_state[<<Subject, "compile">>] = "Done"
  BY <1>1, Chain
<1>3. found(assem, Subject) /\ ids[Subject] = key(assem, Subject) /\ data[Subject] = ids[Subject]
  BY <1>1, <1>2 DEF Inv, Results
<1>4. StoreOK(assem, Units)
  BY DEF Inv, Tables
<1>5. QED BY <1>3, <1>4 DEF StoreOK, found, Known

\* The verifier and the dumper look up the function their own pipeline has
\* compiled: not the -1 of a fresh data node, nor the function of another one.
THEOREM ReadsCorrect == Spec => []ReadsOwnFunction
BY Invariance, InvReadsOwnFunction, PTL

LEMMA InvStringsStay == Inv => StringsStay
<1> SUFFICES ASSUME Inv, NEW u \in Units, NEW v \in Units, ids[u] # NoId, ids[v] # NoId
             PROVE  /\ holds(strings, ldstr[u]) /\ value(strings, ldstr[u]) = literal[u]
                    /\ ldstr[u] = ldstr[v] <=> literal[u] = literal[v]
  BY DEF StringsStay
<1>1. /\ found(strings, literal[u]) /\ ldstr[u] = key(strings, literal[u])
      /\ found(strings, literal[v]) /\ ldstr[v] = key(strings, literal[v])
  BY DEF Inv, Results
<1>2. \A s \in DOMAIN strings.m_keys :
        holds(strings, key(strings, s)) /\ value(strings, key(strings, s)) = s
  BY DEF Inv, Tables, StoreOK
<1>3. QED BY <1>1, <1>2 DEF found

\* A string number in the code of a function stands for the string it was
\* written for, for ever, and equal strings have equal numbers.
THEOREM StringsCorrect == Spec => []StringsStay
BY Invariance, InvStringsStay, PTL

LEMMA InvNeverAborts == Inv => NeverAborts
BY DEF Inv, NeverAborts

\* No assertion of the graph fails, whatever the nesting of the program.
THEOREM NeverAbortsCorrect == Spec => []NeverAborts
BY Invariance, InvNeverAborts, PTL

\* The lookups that throw when they find nothing: m_funcs.at() of a DepWalker,
\* m_inputs->funcs().at() of the compile rule, value() of the verify and the
\* dump rules.
LookupsSucceed ==
  /\ pc = "build" /\ visited = Len(encl) /\ m_depQ # <<>> =>
       ToSet(Waited(Head(m_depQ))) \ {Head(m_depQ)} \subseteq m_funcs
  /\ Running("compile") => NamesFunctions(Subject)
  /\ Running("verify") \/ Running("dump") => Known(data[Subject])
  /\ Running("dump") => holds(strings, ldstr[value(assem, data[Subject])])

\* What is written in a unit is inside it.
LEMMA NestedInside ==
  ASSUME IsProgram, NEW u \in Units
  PROVE  Nested(u) \subseteq Inside(u)
<1> SUFFICES ASSUME NEW v \in Units, encl[v] = u PROVE v \in Inside(u)
  BY DEF Nested
<1>1. encl[v] < v /\ \A w \in encl[v] + 1..v - 1 : encl[w] >= encl[v]
  <2>1. encl \in Program(Len(encl)) /\ v \in 1..Len(encl)
    BY UnitsAre DEF IsProgram
  <2>2. QED BY <2>1 DEF Program
<1>2. u \in Nat /\ v \in Nat
  BY UnitsAre
<1>3. ASSUME NEW w \in u + 1..v PROVE encl[w] >= u
  <2>1. CASE w = v
    BY <1>2, <2>1
  <2>2. CASE w # v
    <3>1. w \in u + 1..v - 1
      BY <1>2, <2>2
    <3>2. QED BY <1>1, <3>1
  <2>3. QED BY <2>1, <2>2
<1>4. QED BY <1>1, <1>2, <1>3 DEF Inside

LEMMA InvLookupsSucceed == Inv => LookupsSucceed
<1> SUFFICES ASSUME Inv PROVE LookupsSucceed
  OBVIOUS
<1>1. IsProgram /\ Pipelines /\ InnerFirst /\ ReadsOwnFunction /\ StringsStay
  BY InvInnerFirst, InvReadsOwnFunction, InvStringsStay DEF Inv
<1>2. ASSUME visited = Len(encl), m_depQ # <<>>
      PROVE  ToSet(Waited(Head(m_depQ))) \subseteq m_funcs
  <2> DEFINE u == Head(m_depQ)
  <2>1. u \in Units /\ u > 0
    <3>1. m_depQ \in Seq(1..visited)
      BY <1>1 DEF Pipelines
    <3>2. u \in 1..visited
      BY <1>2, <3>1
    <3>3. QED BY <1>1, <1>2, <3>2, UnitsAre
  <2> HIDE DEF u
  <2>2. ToSet(Waited(u)) = Inside(u)
    BY <1>1, <2>1, WaitedSet
  <2>3. ASSUME NEW v \in Inside(u) PROVE v \in Units /\ encl[v] >= u
    <3>1. v \in Nat /\ u \in Nat /\ v > u /\ v \in Units
      BY <1>1, <2>1, UnitsAre DEF Inside
    <3>2. v \in u + 1..v
      BY <3>1
    <3>3. QED BY <3>1, <3>2 DEF Inside
  <2>4. \A v \in Inside(u) : v \in 1..visited /\ encl[v] # 0
    BY <1>1, <1>2, <2>1, <2>3, UnitsAre
  <2>5. Inside(u) \subseteq m_funcs
    BY <1>1, <2>4 DEF Pipelines
  <2>6. QED BY <2>2, <2>5 DEF u
<1>3. ASSUME Running("compile") PROVE NamesFunctions(Subject)
  BY <1>1, <1>3, RuleRuns, NestedInside DEF NamesFunctions, InnerFirst
<1>4. ASSUME Running("verify") \/ Running("dump") PROVE Known(data[Subject])
  BY <1>1, <1>4 DEF ReadsOwnFunction
<1>5. ASSUME Running("dump") PROVE holds(strings, ldstr[value(assem, data[Subject])])
  <2>1. Subject \in Units /\ m_state[<<Subject, "dump">>] = "Open"
    BY <1>5, RuleRuns
  <2>2. m_state[<<Subject, "compile">>] = "Done"
    BY <2>1, Chain
  <2>3. ids[Subject] # NoId
    BY <2>1, <2>2 DEF Inv, Results
  <2>4. value(assem, data[Subject]) = Subject
    BY <1>1, <1>5 DEF ReadsOwnFunction
  <2>5. QED BY <1>1, <2>1, <2>3, <2>4 DEF StringsStay
<1>6. QED BY <1>2, <1>3, <1>4, <1>5 DEF LookupsSucceed

\* No lookup by which the scheduler and the rules find one another's results
\* comes back empty, so that none of the exceptions they could throw is thrown.
THEOREM LookupsCorrect == Spec => []LookupsSucceed
BY Invariance, InvLookupsSucceed, PTL
=============================================================================
