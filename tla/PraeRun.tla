------------------------------- MODULE PraeRun -------------------------------
(***************************************************************************)
(* Compiles some function body and executes its bytecode along a path: an  *)
(* opcode takes and leaves what BlockClosure::iterate (closures/block.cpp) *)
(* and the comments in intermedia/bytecode.hpp say, and a conditional      *)
(* branch goes either way.                                                 *)
(*                                                                         *)
(* A value is named by the instruction that made it.                       *)
(***************************************************************************)
EXTENDS PraeCompiler

VARIABLES
  pc,       \* the next instruction, 0 while the function is compiled
  operands, \* the operand stack, top first
  stored,   \* what each variable of the bytecode holds on this path
  truth     \* what each variable of the program holds on this path, and which
            \* instruction stored it

path == <<pc, operands, stored, truth>>
vars == <<compiler, path>>

Unset == -1  \* the value of a variable this path has not stored

Init ==
  /\ CompilerInit
  /\ pc = 0 /\ operands = <<>> /\ stored = <<>> /\ truth = <<>>

CompileNext == Compile /\ UNCHANGED path

Params == Owned(scopes[1])

Start ==
  /\ Compiled /\ pc = 0
  /\ pc' = 1
  /\ stored' = [v \in {VarOf(scopes, 1, x) : x \in Params} |-> 0]
  /\ truth' = [d \in Params \X {0} |-> [value |-> 0, at |-> 0]]
  /\ UNCHANGED <<compiler, operands>>

Instr == code[pc]
At(op) == pc # 0 /\ Instr.op = op

\* How many operands an instruction takes.
Takes(ins) ==
  CASE ins.op \in {"stvar", "bez", "bnz", "pop", "dup"} -> 1
    [] ins.op = "msg" -> ins.arity
    [] OTHER -> 0

\* The instructions that only make a value of operands.
Operate ==
  /\ Instr.op \in {"ldc", "msg"}
  /\ operands' = <<pc>> \o SubSeq(operands, Takes(Instr) + 1, Len(operands))
  /\ pc' = pc + 1
  /\ UNCHANGED <<stored, truth>>

DupOrPop ==
  /\ Instr.op \in {"dup", "pop"}
  /\ operands' = IF Instr.op = "dup" THEN <<Head(operands)>> \o operands ELSE Tail(operands)
  /\ pc' = pc + 1
  /\ UNCHANGED <<stored, truth>>

Ldvar ==
  /\ Instr.op = "ldvar"
  /\ operands' = <<IF Instr.var \in DOMAIN stored THEN stored[Instr.var] ELSE Unset>> \o operands
  /\ pc' = pc + 1
  /\ UNCHANGED <<stored, truth>>

Stvar ==
  /\ Instr.op = "stvar"
  /\ stored' = With(stored, Instr.var, Head(operands))
  /\ truth' = IF Instr.decl = NoDecl THEN truth
              ELSE With(truth, Instr.decl, [value |-> Head(operands), at |-> pc])
  /\ operands' = Tail(operands)
  /\ pc' = pc + 1

Br ==
  /\ Instr.op = "br"
  /\ pc' = labels[Instr.label]
  /\ UNCHANGED <<operands, stored, truth>>

Bez ==
  /\ Instr.op \in {"bez", "bnz"}
  /\ pc' \in {pc + 1, labels[Instr.label]}
  /\ operands' = Tail(operands)
  /\ UNCHANGED <<stored, truth>>

\* An instruction that finds too few operands has no meaning.
Execute ==
  /\ pc # 0 /\ Len(operands) >= Takes(Instr)
  /\ Operate \/ DupOrPop \/ Ldvar \/ Stvar \/ Br \/ Bez
  /\ UNCHANGED compiler

Terminated ==
  /\ failed \/ At("ret") \/ (pc # 0 /\ Len(operands) < Takes(Instr))
  /\ UNCHANGED vars

Next == CompileNext \/ Start \/ Execute \/ Terminated

Spec == Init /\ [][Next]_vars

-----------------------------------------------------------------------------
(* Properties.                                                             *)

\* The chain of scopes and the labels are well formed, and when the compiler is
\* through every label is placed and every scope is closed.
TypeOK ==
  /\ \A k \in DOMAIN scopes :
       LET s == scopes[k] IN
         /\ s.id \in 0..nextScopeId - 1
         /\ DOMAIN s.vars \subseteq Name
         /\ DOMAIN s.borrowed \subseteq DOMAIN s.vars
         /\ \A x \in DOMAIN s.borrowed :
              s.borrowed[x] < k /\ x \in DOMAIN scopes[s.borrowed[x]].vars
  /\ Compiled =>
       /\ Len(scopes) = 2
       /\ \A l \in DOMAIN labels : labels[l] \in 1..Len(code)
  /\ pc \in 0..Len(code)

\* The assertions of phi: a variable that is merged is still in the scope it was
\* borrowed from, and can be stored to there.
PhiSound ==
  Calls("merge") =>
    \A x \in Call.left :
      LET k == Call.popped.borrowed[x] IN
        /\ k \in DOMAIN scopes
        /\ x \in DOMAIN scopes[k].vars
        /\ k = Top(scopes) => scopes[k].vars[x][2] # COUNT_CONST

\* The instructions that may follow instruction k.
Successors(k) ==
  LET ins == code[k]
      there == IF ins.op \in {"br", "bez", "bnz"} THEN {labels[ins.label]} ELSE {}
  IN there \cup (IF ins.op \in {"br", "ret"} THEN {} ELSE {k + 1})

\* The program has no loops.
Loopless == \A k \in DOMAIN code : \A n \in Successors(k) : n > k

\* In such a program, some path leads from i to k.
Reaches(i, k) ==
  LET reached[n \in i..k] == n = i \/ \E m \in i..n - 1 : reached[m] /\ n \in Successors(m)
  IN reached[k]

\* Since this path stored d it has taken a branch past another store of d.
PassedBy(d) ==
  \E k \in truth[d].at + 1..pc - 1 :
    code[k].op = "stvar" /\ code[k].decl = d /\ Reaches(truth[d].at + 1, k)

ProgramLoad == At("ldvar") /\ Instr.decl # NoDecl

Found == IF Instr.var \in DOMAIN stored THEN stored[Instr.var] ELSE Unset

\* scope.cpp and applyScope*: without loops, what a load finds is what the last
\* store to that variable of the program left; or it finds nothing, but only where
\* the path has since taken a branch that does not store the variable although
\* the other branch does.
NeverStale ==
  Loopless /\ ProgramLoad =>
    \/ Found = truth[Instr.decl].value
    \/ Found = Unset /\ PassedBy(Instr.decl)

\* The numbering of assembleName: without loops no path stores a variable of the
\* bytecode twice.
SingleAssignment == Loopless /\ At("stvar") => Instr.var \notin DOMAIN stored

\* Every variable a path loads has been stored on that path.
LoadsAreStored == At("ldvar") => Instr.var \in DOMAIN stored

\* The emit functions leave what their callers take: no instruction finds too
\* few operands.
NeverUnderflows == pc # 0 => Len(operands) >= Takes(Instr)

\* A function returns with its result, and with nothing left below it.
ReturnsOne == At("ret") => Len(operands) = 1
=============================================================================
