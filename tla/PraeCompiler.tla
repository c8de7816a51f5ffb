----------------------------- MODULE PraeCompiler -----------------------------
(***************************************************************************)
(* How the body of a block or a function becomes bytecode: the emit        *)
(* functions of praeCompiler/compiler.cpp.  The program is not fixed: an   *)
(* emit function that meets a child of its AST node finds there any node   *)
(* the grammar allows, within the bounds.                                  *)
(*                                                                         *)
(* todo is what is left to do of the emit functions that are running, the  *)
(* innermost first: nodes still to be compiled, and the calls on the       *)
(* FuncClosure between and after them.  A step enters the emit function of *)
(* the next node, or makes the next call.                                  *)
(*                                                                         *)
(* Literals, operators and messages are reduced to what they take from and *)
(* leave on the operand stack; Bez and Bnz, and so if and unless, while    *)
(* and until, are not told apart.                                          *)
(***************************************************************************)
EXTENDS PraeScopes

CONSTANTS
  Name,       \* the identifiers of the program
  Construct,  \* what the program may be made of: a subset of Constructs
  Redeclares, \* may a scope declare a name it knows already?
  MaxPieces,  \* bound: statements of the program and nodes inside them
  NoName

Constructs ==
  {"load", "inc", "unary", "infix", "tuple", "coerce", "curry", "curry keyword",
   "assign value", "paren where", "block", "control",
   "declaration", "declare", "assign", "op assign", "if", "if else", "loop", "loop else", "where",
   "return"}

ASSUME CompilerAssumption ==
  /\ Construct \subseteq Constructs
  /\ Redeclares \in BOOLEAN
  /\ MaxPieces \in Nat
  /\ NoName \notin Name

VARIABLES
  todo,    \* what the running emit functions have left to do
  pieces,  \* pieces of the program so far (for the bound only)
  failed   \* error() has thrown, or a redeclaration the program may not make

compiler == <<function, todo, pieces, failed>>

-----------------------------------------------------------------------------
(* What an emit function does.                                             *)

\* It compiles a child.
Node(n) == <<[do |-> "node", node |-> n]>>

\* It calls the FuncClosure or its scope.
Ins(op) == <<[do |-> "ins", ins |-> [op |-> op]]>>
Jump(op, l) == <<[do |-> "ins", ins |-> [op |-> op, label |-> l]]>>
Msg(arity) == <<[do |-> "ins", ins |-> [op |-> "msg", arity |-> arity]]>>
LoadName(x) == <<[do |-> "load", name |-> x]>>
StoreName(x) == <<[do |-> "store", name |-> x]>>
BindName(x) == <<[do |-> "bind", name |-> x]>>
OpenScope == <<[do |-> "push"]>>
ApplyScope == <<[do |-> "apply", label |-> 0, add |-> FALSE]>>
ApplyNew(l) == <<[do |-> "apply", label |-> l, add |-> TRUE]>>
ApplyIds(l) == <<[do |-> "apply", label |-> l, add |-> FALSE]>>
Own(l) == <<[do |-> "own", label |-> l]>>
Label(l) == <<[do |-> "label", label |-> l]>>

Compiling == ~failed /\ todo # <<>>
Compiled == ~failed /\ todo = <<>>

\* Enters the emit function of a node, which begins n labels and does items.
Emitting(node, cost, n, items) ==
  /\ Compiling /\ Head(todo).do = "node" /\ Head(todo).node = node
  /\ pieces + cost <= MaxPieces /\ pieces' = pieces + cost
  /\ BeginLabels(n)
  /\ todo' = items \o Tail(todo)
  /\ UNCHANGED failed

\* The label an emit function begins k-th.
NewLabel(k) == Len(labels) + k

-----------------------------------------------------------------------------
(* The calls on the FuncClosure.                                           *)

Calls(do) == Compiling /\ Head(todo).do = do
Call == Head(todo)

\* The call returns into the emit function.
Returned == todo' = Tail(todo) /\ UNCHANGED <<pieces, failed>>

EmitIns == Calls("ins") /\ Emit(Call.ins) /\ Returned

\* A name that can be loaded, or stored to, without an error.
Loadable(x) == Known(scopes, x)

\* Mutated form: an immutable variable can be stored to.
Storable_Immutable(x) == Loadable(x)

Storable(x) == Loadable(x) /\ Mutable(scopes, x)

GetName == Calls("load") /\ Loadable(Call.name) /\ LoadVar(Call.name) /\ Returned

SetName == Calls("store") /\ Storable(Call.name) /\ StoreVar(Call.name) /\ Returned

\* `let` or `var`.
BindNew ==
  /\ Calls("bind")
  /\ \E mut \in BOOLEAN : BindVar(Call.name, mut)
  /\ todo' = Tail(todo)
  /\ failed' = (~Redeclares /\ Call.name \in DOMAIN scopes[Top(scopes)].vars)
  /\ UNCHANGED pieces

EnterScope == Calls("push") /\ PushScope /\ Returned

\* What is left of an applyScope once left is to be merged.
Merging(popped, left, l, add) ==
  IF left = {} THEN <<>>
  ELSE <<[do |-> "merge", popped |-> popped, left |-> left, label |-> l, add |-> add]>>

\* applyScope and applyScopeWithIds pop the scope, and merge its variables, in any
\* order.
LeaveScope ==
  /\ Calls("apply")
  /\ PopScope
  /\ LET popped == scopes[Top(scopes)] IN
       todo' = Merging(popped, Modified(popped), Call.label, Call.add) \o Tail(todo)
  /\ UNCHANGED <<pieces, failed>>

MergeName ==
  /\ Calls("merge")
  /\ \E x \in Call.left :
       /\ Merge(Call.popped, Call.label, Call.add, x)
       /\ todo' = Merging(Call.popped, Call.left \ {x}, Call.label, Call.add) \o Tail(todo)
  /\ UNCHANGED <<pieces, failed>>

OwnIds == Calls("own") /\ RecordOwned(Call.label) /\ Returned

PlaceLabel == Calls("label") /\ Place(Call.label) /\ Returned

\* "variable ... not declared", "variable ... is immutable"; "... is not
\* assignable" and "not implemented", of a node.
Error ==
  /\ \/ Calls("load") /\ ~Loadable(Call.name)
     \/ Calls("store") /\ ~Storable(Call.name)
     \/ Calls("node")
  /\ failed' = TRUE
  /\ UNCHANGED <<function, todo, pieces>>

-----------------------------------------------------------------------------
(* Expressions.                                                            *)

\* emitLoadLBoolean, LNull, LNumeric, strings and functions (emitLoadXFunc).
LoadLiteral == Emitting("expr", 0, 0, Ins("ldc"))

LoadIdentifier ==
  /\ "load" \in Construct
  /\ \E x \in Name : Emitting("expr", 1, 0, LoadName(x))

\* A negated comparison is the unary message of its own.
LoadXInfix ==
  "infix" \in Construct /\ Emitting("expr", 1, 0, Node("expr") \o Node("expr") \o Msg(2))

LoadXUnary ==
  /\ "unary" \in Construct
  /\ Emitting("expr", 1, 0, Node("expr") \o Msg(1))

\* ++ and --.
LoadInc ==
  /\ "inc" \in Construct
  /\ \E x \in Name :
       Emitting("expr", 1, 0, LoadName(x) \o Ins("ldc") \o Msg(2) \o Ins("dup") \o StoreName(x))

\* The curry of a unary selector leaves its receiver and the keyword, that of a
\* keyword an argument too; FICurry takes three.
Curried(kind) ==
  Node("expr") \o (IF kind = "curry keyword" THEN Node("expr") ELSE <<>>)
  \o Ins("ldc") \o Msg(3)

\* emitLoadXMsg; sends are those of LoadXUnary and LoadXInfix.
LoadXMsg ==
  \/ "coerce" \in Construct /\ Emitting("expr", 1, 0, Node("expr") \o Msg(1))
  \/ \E kind \in Construct \cap {"curry", "curry keyword"} :
       Emitting("expr", 1, 0, Curried(kind))

\* emitLoadExprs of no or two expressions.
LoadTuple ==
  /\ "tuple" \in Construct
  /\ \/ Emitting("expr", 1, 0, Msg(0))
     \/ Emitting("expr", 1, 0, Node("expr") \o Node("expr") \o Msg(2))

\* emitLoadXParen of `(let x = ...; ...)`, or of an expression if x is NoName.
Paren(flags, x) ==
  LET when(on, items) == IF on THEN items ELSE <<>> IN
    IF x = NoName THEN when("Eval" \in flags, Node("expr"))
    ELSE when("Scope" \in flags, OpenScope)
         \o when("Bind" \in flags, Node("expr") \o BindName(x))
         \o when("Eval" \in flags, Node("expr"))
         \o when("Scope" \in flags, ApplyScope)

\* What the condition of a construct may bind.
Where(names) == {NoName} \cup (IF "where" \in Construct THEN names ELSE {})

LoadXParen ==
  /\ "paren where" \in Construct
  /\ \E x \in Name : Emitting("expr", 1, 0, Paren({"Bind", "Eval", "Scope"}, x))

LoadXBlock ==
  /\ "block" \in Construct
  /\ Emitting("expr", 1, 0, OpenScope \o Node("stmts") \o ApplyScope \o Ins("ldc"))

\* The calls emitLoadXControl and the branching half of emitSControl share.
Branches(x, child, orElse) ==
  LET lblElse == NewLabel(1)
      lblDone == NewLabel(2)
      second == Jump("br", lblDone) \o Label(lblElse)
              \o OpenScope \o Node(child) \o ApplyIds(lblElse) \o Label(lblDone)
  IN OpenScope \o Paren({"Bind", "Eval"}, x) \o Jump("bez", lblElse)
     \o Node(child) \o ApplyNew(lblElse)
     \o IF orElse THEN second ELSE Label(lblElse)

LoadXControl ==
  /\ "control" \in Construct
  /\ \E x \in Where(Name) : Emitting("expr", 1, 2, Branches(x, "expr", TRUE))

-----------------------------------------------------------------------------
(* Statements.                                                             *)

EmitStmts ==
  \/ Emitting("stmts", 0, 0, <<>>)
  \/ Emitting("stmts", 1, 0, Node("stmt") \o Node("stmts"))

\* Mutated form: the value of the expression is left.
EmitExpr_NoPop == Emitting("stmt", 0, 0, Node("expr"))

EmitExpr == Emitting("stmt", 0, 0, Node("expr") \o Ins("pop"))

\* emitDecl: messages and types leave no code.
EmitDecl == "declaration" \in Construct /\ Emitting("stmt", 0, 0, <<>>)

\* Mutated form: the value is not kept for the expression around it.
SAssign_NoDup(x, op) ==
  (IF op THEN LoadName(x) ELSE <<>>) \o Node("value")
  \o (IF op THEN Msg(2) ELSE <<>>) \o StoreName(x)

\* emitLoadSAssign: `x = ...`, or `x += ...` and the like.
SAssign(x, op) ==
  (IF op THEN LoadName(x) ELSE <<>>) \o Node("value")
  \o (IF op THEN Msg(2) ELSE <<>>) \o Ins("dup") \o StoreName(x)

EmitAssign ==
  \E x \in Name :
    \/ "assign" \in Construct /\ Emitting("stmt", 0, 0, SAssign(x, FALSE) \o Ins("pop"))
    \/ "op assign" \in Construct /\ Emitting("stmt", 0, 0, SAssign(x, TRUE) \o Ins("pop"))

\* emitLoadAssignValue.
LoadAssignValue ==
  \/ Emitting("value", 0, 0, Node("expr"))
  \/ /\ "assign value" \in Construct
     /\ \E x \in Name : Emitting("value", 1, 0, SAssign(x, FALSE))

\* emitSBind and emitBinding: `let x = ...`, `var x = ...`.
EmitBinding ==
  /\ "declare" \in Construct
  /\ \E x \in Name : Emitting("stmt", 0, 0, Node("expr") \o BindName(x))

\* The branching half of emitSControl.
EmitIf ==
  \E x \in Where(Name) :
    \/ "if" \in Construct /\ Emitting("stmt", 1, 1, Branches(x, "stmt", FALSE))
    \/ "if else" \in Construct /\ Emitting("stmt", 1, 2, Branches(x, "stmt", TRUE))

\* The looping half of emitSControl.
Loop(x, orElse) ==
  LET lblDo == NewLabel(1)
      lblTest == NewLabel(2)
      lblBreak == NewLabel(3)
  IN OpenScope \o Paren({"Bind"}, x) \o Own(lblDo)
     \o Jump("br", lblTest) \o Label(lblDo)
     \o OpenScope \o Node("stmt") \o ApplyIds(lblDo)
     \o Label(lblTest)
     \o OpenScope \o Paren({"Eval", "Scope"}, x) \o ApplyIds(lblDo) \o ApplyNew(lblBreak)
     \o Jump("bnz", lblDo)
     \o (IF orElse THEN OpenScope \o Node("stmt") \o ApplyIds(lblBreak) ELSE <<>>)
     \o Label(lblBreak)

EmitLoop ==
  \E x \in Where(Name) :
    \/ "loop" \in Construct /\ Emitting("stmt", 1, 3, Loop(x, FALSE))
    \/ "loop else" \in Construct /\ Emitting("stmt", 1, 3, Loop(x, TRUE))

\* emitSKeyword.
EmitReturn ==
  "return" \in Construct /\ Emitting("stmt", 0, 0, Node("expr") \o Ins("ret"))

-----------------------------------------------------------------------------

\* compileEntryPoint, and compileFunc once the parameters are bound in m_args.
CompilerInit ==
  /\ \/ FunctionInit({}) /\ todo = Node("stmts") \o Ins("ldc") \o Ins("ret")
     \/ /\ \E params \in SUBSET Name : FunctionInit(params)
        /\ todo = Node("expr") \o Ins("ret")
  /\ pieces = 0 /\ failed = FALSE

EmitNode ==
  \/ LoadLiteral \/ LoadIdentifier \/ LoadXInfix \/ LoadXUnary \/ LoadInc \/ LoadXMsg
  \/ LoadTuple \/ LoadXParen \/ LoadXBlock \/ LoadXControl
  \/ EmitStmts \/ EmitExpr \/ EmitDecl \/ EmitAssign \/ LoadAssignValue \/ EmitBinding
  \/ EmitIf \/ EmitLoop \/ EmitReturn

MakeCall ==
  \/ EmitIns \/ GetName \/ SetName \/ BindNew \/ EnterScope \/ LeaveScope \/ MergeName
  \/ OwnIds \/ PlaceLabel

Compile == EmitNode \/ MakeCall \/ Error
=============================================================================
