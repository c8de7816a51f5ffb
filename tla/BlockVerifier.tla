---------------------------- MODULE BlockVerifier ----------------------------
(***************************************************************************)
(* The bytecode verifier (verifier/verifier.cpp, closures/block.cpp), on   *)
(* the code the compiler makes of some function body.  A BlockClosure      *)
(* follows the code from one place; at a conditional branch it queues a    *)
(* copy of itself for the branch and goes straight on.                     *)
(*                                                                         *)
(* Of the types on the stack only their number is kept: nothing pushes a   *)
(* bool, so that the condition of every branch is reported.                *)
(***************************************************************************)
EXTENDS PraeCompiler

VARIABLES
  verifying, \* "no", "yes" or "done"
  q,         \* the BlockClosures: m_pc, the size of m_stack, the keys of m_vars
  covered,   \* of the iterate() that is running: the instructions it has seen
  action,    \* of that iterate()
  reports,   \* what was printed: the kind of error, and the instruction
  visits     \* not in the code: the instructions the closures came to, in the order
             \* of the first time, each with the variables stored by then and action

verifier == <<verifying, q, covered, action, reports, visits>>
vars == <<compiler, verifier>>

Init ==
  /\ CompilerInit
  /\ verifying = "no" /\ q = <<>> /\ covered = {} /\ action = "Move" /\ reports = {}
  /\ visits = <<>>

CompileNext == Compile /\ UNCHANGED verifier

Args == {VarOf(scopes, 1, x) : x \in Owned(scopes[1])}

\* verifyFunc queues a closure at the start of the function.
VerifyFunc ==
  /\ Compiled /\ verifying = "no"
  /\ verifying' = "yes"
  /\ q' = <<[m_pc |-> 1, size |-> 0, m_vars |-> Args]>>
  /\ UNCHANGED <<compiler, covered, action, reports, visits>>

Block == Head(q)
Instr == code[Block.m_pc]
Visit == <<Block.m_pc, Block.m_vars, action>>

\* Mutated form: the copy starts with the arguments only.
Forked_Args(b, pc) == [b EXCEPT !.m_pc = pc, !.m_vars = Args]

\* BlockClosure(block, pc).
Forked(b, pc) == [b EXCEPT !.m_pc = pc]

\* Mutated form: the result is not pushed.
HandlePHOp_NoPush(b, arity) == [b EXCEPT !.size = IF @ < arity THEN @ ELSE @ - arity]

\* handlePHOp: with too few operands none is popped.
HandlePHOp(b, arity) == [b EXCEPT !.size = (IF @ < arity THEN @ ELSE @ - arity) + 1]

\* The closure after the instruction, its m_pc apart.
Effect(b, ins) ==
  CASE ins.op \in {"ldc", "dup", "ldvar"} -> [b EXCEPT !.size = @ + 1]
    [] ins.op \in {"pop", "bez", "bnz"} -> [b EXCEPT !.size = @ - 1]
    [] ins.op = "stvar" -> [b EXCEPT !.size = @ - 1, !.m_vars = @ \cup {ins.var}]
    [] ins.op = "msg" -> HandlePHOp(b, ins.arity)
    [] OTHER -> b

\* What the instruction makes it print.
Report(b, ins) ==
  CASE ins.op = "ldvar" /\ ins.var \notin b.m_vars -> {<<"load-before-store", b.m_pc>>}
    [] ins.op = "stvar" /\ ins.var \in b.m_vars -> {<<"variable reassignment", b.m_pc>>}
    [] ins.op = "msg" /\ b.size < ins.arity -> {<<"not enough values", b.m_pc>>}
    [] ins.op = "ret" /\ b.size # 1 -> {<<"bad return stack size", b.m_pc>>}
    [] OTHER -> {}

\* Mutated form: action starts anew with every instruction.
Action_Fresh(ins) ==
  CASE ins.op = "br" -> "Stay" [] ins.op = "ret" -> "Stop" [] OTHER -> "Move"

\* action is declared outside the loop: only br and ret assign it.
Action(ins) ==
  CASE ins.op = "br" -> "Stay" [] ins.op = "ret" -> "Stop" [] OTHER -> action

\* Mutated form: the branch is not followed.
ForkedAt_None(b, ins) == <<>>

\* The closure a conditional branch queues.
ForkedAt(b, ins) ==
  IF ins.op \in {"bez", "bnz"} THEN <<Forked(b, labels[ins.label])>> ELSE <<>>

\* iterate() returns, and verifyFunc takes the next closure.
Returns(rest) == q' = rest /\ covered' = {} /\ action' = "Move"

\* One round of the loop in iterate().
Iterate ==
  /\ verifying = "yes" /\ q # <<>>
  /\ IF Block.m_pc \notin 1..Len(code) \/ Block.m_pc \in covered
     THEN Returns(Tail(q)) /\ UNCHANGED <<reports, visits>>
     ELSE LET after == Effect(Block, Instr)
              rest == Tail(q) \o ForkedAt(after, Instr)
              act == Action(Instr)
              pc == IF Instr.op = "br" THEN labels[Instr.label] ELSE Block.m_pc
          IN /\ reports' = reports \cup Report(Block, Instr)
             /\ visits' = IF Visit \in ToSet(visits) THEN visits ELSE Append(visits, Visit)
             /\ IF act = "Stop"
                THEN Returns(rest)
                ELSE /\ q' = <<[after EXCEPT !.m_pc = IF act = "Move" THEN pc + 1 ELSE pc]>> \o rest
                     /\ covered' = covered \cup {Block.m_pc}
                     /\ action' = act
  /\ UNCHANGED <<compiler, verifying>>

VerifyReturns ==
  /\ verifying = "yes" /\ q = <<>>
  /\ verifying' = "done"
  /\ UNCHANGED <<compiler, q, covered, action, reports, visits>>

Terminated == (failed \/ verifying = "done") /\ UNCHANGED vars

Next == CompileNext \/ VerifyFunc \/ Iterate \/ VerifyReturns \/ Terminated

Spec == Init /\ [][Next]_vars

\* verifyFunc is a call on the only thread.
FairSpec == Spec /\ WF_vars(Iterate \/ VerifyReturns)

-----------------------------------------------------------------------------
(* The paths the verifier is about.                                        *)

Start == <<1, Args>>
At(v) == <<v[1], v[2]>>
InCode(S) == {s \in S : s[1] \in 1..Len(code)}

\* Where a path can go from v[1], when it has stored v[2]: only a path that may
\* take jumps goes on behind a br.
After(v, jumps) ==
  LET ins == code[v[1]]
      to == IF ins.op = "stvar" THEN v[2] \cup {ins.var} ELSE v[2]
  IN CASE ins.op = "ret" -> {}
       [] ins.op = "br" -> IF jumps THEN {<<labels[ins.label], to>>} ELSE {}
       [] ins.op \in {"bez", "bnz"} -> {<<v[1] + 1, to>>, <<labels[ins.label], to>>}
       [] OTHER -> {<<v[1] + 1, to>>}

\* What is wrong where the paths come: a load of a variable not stored, a second store.
Errors(V) ==
  {<<"load-before-store", v[1]>> :
     v \in {w \in V : code[w[1]].op = "ldvar" /\ code[w[1]].var \notin w[2]}}
  \cup
  {<<"variable reassignment", v[1]>> :
     v \in {w \in V : code[w[1]].op = "stvar" /\ code[w[1]].var \in w[2]}}

\* The visits of closures that have taken no jump.
Followed == {v \in ToSet(visits) : v[3] = "Move"}

-----------------------------------------------------------------------------
(* Properties.                                                             *)

\* A closure stays in the code, and top() and pop() find something on its stack.
TypeOK ==
  /\ action \in {"Move", "Stay"}
  /\ covered \subseteq 1..Len(code)
  /\ \A k \in DOMAIN q : q[k].m_pc \in 1..Len(code) /\ q[k].size \in Nat
  /\ q # <<>> /\ Block.m_pc \notin covered =>
       (Instr.op \in {"stvar", "bez", "bnz", "pop", "dup"} => Block.size > 0)

\* iterate() copies what it knows at a branch: each of its visits goes on from an
\* earlier one as some path does, so that a load before a store, or a second store,
\* that it reports is one that some path makes.
ReportsAreReal ==
  verifying = "done" =>
    /\ \A i \in DOMAIN visits :
         At(visits[i]) = Start \/ \E j \in 1..i - 1 : At(visits[i]) \in After(visits[j], TRUE)
    /\ {r \in reports : r[1] \in {"load-before-store", "variable reassignment"}}
         \subseteq Errors(ToSet(visits))

\* The closures together follow every path up to its first jump: the places they
\* came to include the start and those after each of them, and no load before a
\* store and no second store is missed there.
ReportsUpToJumps ==
  verifying = "done" =>
    /\ InCode({Start} \cup UNION {After(v, FALSE) : v \in Followed}) \subseteq {At(v) : v \in Followed}
    /\ Errors(Followed) \subseteq reports

\* verifyFunc ends, although a closure queued at a backward branch starts with
\* nothing covered.
VerifyEnds == verifying = "yes" ~> verifying = "done"

Backward == \E k \in DOMAIN code : code[k].op = "bnz"

\* "Don't get caught in an infinite loop": a closure gives up at an instruction it
\* has covered only if the code has loops.
GivesUpOnlyOnLoops == q # <<>> /\ Block.m_pc \in covered => Backward
=============================================================================
