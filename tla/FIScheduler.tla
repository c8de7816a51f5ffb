----------------------------- MODULE FIScheduler -----------------------------
(***************************************************************************)
(* The scheduler of the compiler (intermedia/scheduler.cpp) over the       *)
(* dependency graph: schedule() gives every prae block and every function  *)
(* of the program a compile, a verify and a dump edge, makes the compile   *)
(* edge of each wait for the functions inside it, and main() then runs the *)
(* graph.  The rules of the edges (compileEntryPoint, compileFunc,         *)
(* verifyFunc, dumpFunc) share FIInputs::m_funcs, FIAssembly::m_funcs and  *)
(* one data node per pipeline.                                             *)
(*                                                                         *)
(* The units of a program are numbered in the order the AST walker meets   *)
(* them; encl[u] is the unit u is written in, 0 for a prae block.          *)
(***************************************************************************)
EXTENDS Integers, Sequences, SequencesExt, FiniteSets, AtomStore

CONSTANTS
  MaxUnits,  \* bound: blocks and functions of the program
  String,    \* the literals of the program
  Asserts    \* as in DepsGraph

ASSUME SchedulerAssumption ==
  MaxUnits \in Nat \ {0} /\ Asserts \in BOOLEAN /\ String # {}

Unit == 1..MaxUnits
PipeNode == Unit \X {"input", "compiled", "verified", "output"}
PipeEdge == Unit \X {"compile", "verify", "dump"}

\* The -1 a data node holds until the compile rule writes it; also: no entry in
\* FIInputs::m_funcs.
NoId == -1
Id == 0..MaxUnits - 1

VARIABLES
  m_nodes, m_edges, m_q, m_run, nodeIns, nodeOuts, m_ready,
  edgeIns, edgeOuts, m_state, pc, i, j, links,   \* FIScheduler::m_graph
  encl,     \* the program: where each unit is written (never changes)
  literal,  \* the program: the string each unit loads (never changes)
  visited,  \* the units the Walker has scheduled: 1..visited
  m_funcs,  \* FIScheduler::m_funcs: the functions that have a pipeline
  m_depQ,   \* FIScheduler::m_depQ: the units whose DepWalker has not walked
  data,     \* compiledData: the data node of each pipeline
  ids,      \* FIInputs::m_funcs: the id of each compiled unit
  assem,    \* FIAssembly::m_funcs: the unit behind each id
  strings,  \* FIAssembly::m_strings
  ldstr,    \* the operand of the Ldstr each unit is compiled to
  dumped    \* the ids FIDumpFunction has printed, in order

G == INSTANCE DepsGraph WITH Node <- PipeNode, Edge <- PipeEdge, MaxLinks <- 0

program == <<encl, literal>>
compiler == <<data, ids, assem, strings, ldstr, dumped>>
sched == <<visited, m_funcs, m_depQ>>
graph == <<m_nodes, m_edges, m_q, m_run, nodeIns, nodeOuts, m_ready,
           edgeIns, edgeOuts, m_state, pc, i, j, links>>
vars == <<graph, program, sched, compiler>>

Units == DOMAIN encl
Nested(u) == {v \in Units : encl[v] = u}
\* Everything written inside u: the units the walker meets before it leaves u.
Inside(u) == {v \in Units : v > u /\ \A w \in u + 1..v : encl[w] >= u}

\* encl is the nesting of some program, numbered in walking order.
Program(n) ==
  {f \in [1..n -> 0..n - 1] :
     \A v \in 1..n : f[v] < v /\ \A w \in f[v] + 1..v - 1 : f[w] >= f[v]}

Init ==
  /\ G!Init
  /\ \E n \in Unit : encl \in Program(n) /\ literal \in [1..n -> String]
  /\ visited = 0 /\ m_funcs = {} /\ m_depQ = <<>>
  /\ data = [u \in Unit |-> NoId] /\ ids = [u \in Unit |-> NoId]
  /\ assem = emptyStore /\ strings = emptyStore
  /\ ldstr = [u \in Unit |-> NoId] /\ dumped = <<>>

-----------------------------------------------------------------------------
(* schedule().                                                             *)

\* Mutated form: the verify edge reads the AST instead of the compiled code.
PipeIns_Ast(u) ==
  [compile |-> <<<<u, "input">>>>, verify |-> <<<<u, "input">>>>, dump |-> <<<<u, "verified">>>>]

PipeIns(u) ==
  [compile |-> <<<<u, "input">>>>, verify |-> <<<<u, "compiled">>>>, dump |-> <<<<u, "verified">>>>]

\* Mutated form: nothing is at the end of the dump edge.
PipeOuts_Open(u) ==
  [compile |-> <<<<u, "compiled">>>>, verify |-> <<<<u, "verified">>>>, dump |-> <<>>]

PipeOuts(u) ==
  [compile |-> <<<<u, "compiled">>>>, verify |-> <<<<u, "verified">>>>, dump |-> <<<<u, "output">>>>]

\* The edges of a pipeline that have x among their links.
Ends(of, u, x) ==
  LET end(rule) == IF x \in ToSet(of[rule]) THEN <<<<u, rule>>>> ELSE <<>> IN
    end("compile") \o end("verify") \o end("dump")

\* scheduleEntryPoint and scheduleFunc: the nodes and edges of one pipeline,
\* input >> compile >> compiled >> verify >> verified >> dump >> output.
Pipeline(u) ==
  /\ m_nodes' = m_nodes \o
       <<<<u, "input">>, <<u, "compiled">>, <<u, "verified">>, <<u, "output">>>>
  /\ m_edges' = m_edges \o <<<<u, "compile">>, <<u, "verify">>, <<u, "dump">>>>
  /\ edgeIns' = [e \in PipeEdge |-> IF e[1] = u THEN PipeIns(u)[e[2]] ELSE edgeIns[e]]
  /\ edgeOuts' = [e \in PipeEdge |-> IF e[1] = u THEN PipeOuts(u)[e[2]] ELSE edgeOuts[e]]
  /\ nodeIns' = [x \in PipeNode |-> IF x[1] = u THEN Ends(PipeOuts(u), u, x) ELSE nodeIns[x]]
  /\ nodeOuts' = [x \in PipeNode |-> IF x[1] = u THEN Ends(PipeIns(u), u, x) ELSE nodeOuts[x]]

\* The next FPBlock or FPXFunc the Walker visits.
Schedule ==
  /\ pc = "build" /\ visited < Len(encl)
  /\ LET u == visited + 1 IN
       /\ Pipeline(u)
       /\ m_funcs' = IF encl[u] = 0 THEN m_funcs ELSE m_funcs \cup {u}
       /\ m_depQ' = Append(m_depQ, u)
       /\ visited' = u
  /\ UNCHANGED <<m_q, m_run, m_ready, m_state, pc, i, j, links, program, compiler>>

\* Mutated form: the root of the walk is not skipped.
Waited_Self(u) == [k \in 1..Cardinality(Inside(u)) + 1 |-> u + k - 1]

\* The functions a DepWalker that starts at u, and skips u itself, visits.
Waited(u) == [k \in 1..Cardinality(Inside(u)) |-> u + k]

\* Mutated form: waits only until the function is compiled.
WaitedFor_Compiled(v) == <<v, "compiled">>

\* The node of a function that DepWalker::visit links.
WaitedFor(v) == <<v, "output">>

\* The DepWalker at the front of m_depQ: output >> compile for each function.
WalkDeps ==
  /\ pc = "build" /\ visited = Len(encl) /\ m_depQ # <<>>
  /\ LET u == Head(m_depQ)
         visits == Waited(u)
     IN
       /\ ToSet(visits) \ {u} \subseteq m_funcs  \* m_funcs.at(func)
       /\ edgeIns' = [edgeIns EXCEPT
            ![<<u, "compile">>] = @ \o [k \in DOMAIN visits |-> WaitedFor(visits[k])]]
       /\ nodeOuts' = [x \in PipeNode |->
            IF \E v \in ToSet(visits) : x = WaitedFor(v)
            THEN Append(nodeOuts[x], <<u, "compile">>) ELSE nodeOuts[x]]
  /\ m_depQ' = Tail(m_depQ)
  /\ UNCHANGED <<m_nodes, m_edges, m_q, m_run, m_ready, nodeIns, edgeOuts, m_state,
                 pc, i, j, links, program, visited, m_funcs, compiler>>

-----------------------------------------------------------------------------
(* graph->run() and the rules it calls.                                    *)

RunGraph ==
  /\ visited = Len(encl) /\ m_depQ = <<>>
  /\ G!Run
  /\ UNCHANGED <<program, sched, compiler>>

WalkGraph ==
  /\ G!Walk
  /\ UNCHANGED <<program, sched, compiler>>

\* The unit whose rule is running.
Subject == Head(m_q)[1]
Running(rule) == pc = "rule" /\ Head(m_q)[2] = rule

\* FPXFunc inside u is loaded with m_inputs->funcs().at(node), which throws
\* when the function has no id yet.
NamesFunctions(u) == \A v \in Nested(u) : ids[v] # NoId

\* Mutated form: the id is the number of functions after the new one.
Compile_Late ==
  /\ Running("compile")
  /\ NamesFunctions(Subject)
  /\ G!RuleReturns
  /\ strings' = intern(strings, literal[Subject])
  /\ ldstr' = [ldstr EXCEPT ![Subject] = key(strings', literal[Subject])]
  /\ assem' = intern(assem, Subject)
  /\ ids' = [ids EXCEPT ![Subject] = next(assem')]
  /\ data' = [data EXCEPT ![Subject] = next(assem')]
  /\ UNCHANGED <<program, sched, dumped>>

\* compileEntryPoint and compileFunc: the body interns the strings it loads,
\* then the function, made anew, is interned; the rule then writes the data node.
Compile ==
  /\ Running("compile")
  /\ NamesFunctions(Subject)
  /\ G!RuleReturns
  /\ strings' = intern(strings, literal[Subject])
  /\ ldstr' = [ldstr EXCEPT ![Subject] = key(strings', literal[Subject])]
  /\ assem' = intern(assem, Subject)
  /\ LET id == key(assem', Subject) IN
       ids' = [ids EXCEPT ![Subject] = id] /\ data' = [data EXCEPT ![Subject] = id]
  /\ UNCHANGED <<program, sched, dumped>>

\* assem()->funcs().value(id), which throws when there is no such function.
Known(id) == holds(assem, id)

\* verifyFunc looks its function up and reports what it finds on stderr.
Verify ==
  /\ Running("verify")
  /\ Known(data[Subject])
  /\ G!RuleReturns
  /\ UNCHANGED <<program, sched, compiler>>

\* The listing looks up each string its function loads.
Dump ==
  /\ Running("dump")
  /\ Known(data[Subject])
  /\ holds(strings, ldstr[value(assem, data[Subject])])
  /\ G!RuleReturns
  /\ dumped' = Append(dumped, data[Subject])
  /\ UNCHANGED <<program, sched, data, ids, assem, strings, ldstr>>

\* Any rule may throw: a construct that is not implemented, a failed lookup.
Throw ==
  /\ G!RuleThrows
  /\ UNCHANGED <<program, sched, compiler>>

Terminated == G!Stopped /\ UNCHANGED vars

Next ==
  \/ Schedule \/ WalkDeps \/ RunGraph \/ WalkGraph
  \/ Compile \/ Verify \/ Dump \/ Throw
  \/ Terminated

Spec == Init /\ [][Next]_vars

\* schedule() and run() are calls on the only thread and the rules terminate.
FairSpec == Spec /\ WF_vars(Next)

-----------------------------------------------------------------------------
(* Properties.                                                             *)

\* The scheduler's and the compiler's tables hold what they are declared to.
TypeOK ==
  /\ G!TypeOK
  /\ visited \in 0..Len(encl) /\ m_funcs \subseteq Units /\ m_depQ \in Seq(Units)
  /\ data \in [Unit -> Id \cup {NoId}] /\ ids \in [Unit -> Id \cup {NoId}]
  /\ assem.m_values \in Seq(Units) /\ strings.m_values \in Seq(String)
  /\ ldstr \in [Unit -> Id \cup {NoId}] /\ dumped \in Seq(Id)

\* DepWalker's links: when a block or a function starts to compile, every
\* function anywhere inside it is compiled, verified and dumped, so that
\* m_inputs->funcs().at() finds it and the listing shows it first.
InnerFirst ==
  Running("compile") =>
    \A v \in Inside(Subject) :
      /\ ids[v] # NoId
      /\ m_state[<<v, "dump">>] = "Done"
      /\ \E k \in DOMAIN dumped : dumped[k] = ids[v]

\* Verifier and dumper never see the -1 the data node starts with, nor the
\* function of another pipeline: what they look up is what was compiled.
ReadsOwnFunction ==
  Running("verify") \/ Running("dump") =>
    /\ Known(data[Subject])
    /\ value(assem, data[Subject]) = Subject
    /\ ids[Subject] = data[Subject]

\* The string table is shared by all functions and filled while others are
\* verified and dumped: whatever is interned later, a number that is in the code
\* of a function keeps standing for the string it was written for, and two
\* functions share a number exactly if they load the same string.
StringsStay ==
  \A u, v \in {w \in Units : ids[w] # NoId} :
    /\ holds(strings, ldstr[u]) /\ value(strings, ldstr[u]) = literal[u]
    /\ ldstr[u] = ldstr[v] <=> literal[u] = literal[v]

\* schedule() builds a graph Edge::run accepts: no assertion of the graph
\* fails, whatever the nesting.
NeverAborts == pc # "aborted"

\* Unless a rule throws, every block and function of the program comes out of
\* the compiler, each once.
AllDumped ==
  <>(\/ pc = "thrown"
     \/ /\ pc = "done"
        /\ \A u \in Units : Cardinality({k \in DOMAIN dumped : dumped[k] = ids[u]}) = 1
        /\ Len(dumped) = Len(encl))
=============================================================================
