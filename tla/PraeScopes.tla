------------------------------ MODULE PraeScopes ------------------------------
(***************************************************************************)
(* What the compiler keeps while it compiles a function: the scopes, which *)
(* number the stores of a variable (closures/scope.cpp), and the function  *)
(* they belong to, with the bytecode it emits into (closures/function.cpp).*)
(***************************************************************************)
EXTENDS Integers, Sequences, SequencesExt, FiniteSetsExt

VARIABLES
  scopes,      \* the chain of m_scope, m_args first, the current scope last
  nextScopeId, \* m_nextScopeId
  code,        \* FIBytecode::instructions
  labels,      \* FIBytecode::labels, by position
  ids          \* the VarIds of the construct a label belongs to, by label

function == <<scopes, nextScopeId, code, labels, ids>>

COUNT_CONST == -1  \* 0xffffffff: the count of an immutable variable
NoPos == -1        \* the position of a label that is not placed yet
NoDecl == <<>>     \* a load or store the compiler adds

\* f, with v for k.
With(f, k, v) == [j \in DOMAIN f \cup {k} |-> IF j = k THEN v ELSE f[j]]

\* vars and borrowed are m_vars and m_borrowed, by name; a holder is given by its
\* place in the chain.  decl is not in the code: the declarations the scope makes,
\* each named by the instruction that stores it.  A scope has its id from the
\* start, not only from the first name it gives on.
Scope(id) == [id |-> id, vars |-> <<>>, borrowed |-> <<>>, decl |-> <<>>]

\* m_args with the parameters bound, and the scope of the body.
FunctionInit(params) ==
  /\ scopes = <<[Scope(0) EXCEPT !.vars = [x \in params |-> <<0, COUNT_CONST>>],
                                 !.decl = [x \in params |-> 0]],
                Scope(1)>>
  /\ nextScopeId = 2
  /\ code = <<>> /\ labels = <<>> /\ ids = <<>>

-----------------------------------------------------------------------------
(* ScopeClosure, over the chain sc.                                        *)

Top(sc) == Len(sc)

\* holderOf: the innermost scope that knows x.
Known(sc, x) == \E k \in DOMAIN sc : x \in DOMAIN sc[k].vars
HolderOf(sc, x) == Max({k \in DOMAIN sc : x \in DOMAIN sc[k].vars})

\* recordName: the variable of the bytecode that stands for x as scope k has it.
VarOf(sc, k, x) == <<sc[k].id, x, sc[k].vars[x]>>

\* get.
Get(sc, x) == VarOf(sc, HolderOf(sc, x), x)

\* recordVar, in the current scope, for a variable of scope k.
RecordVar(sc, k, x, phi, count) ==
  [sc EXCEPT ![Top(sc)].vars = With(@, x, <<phi, count>>),
             ![Top(sc)].borrowed = IF k = Top(sc) THEN @ ELSE With(@, x, k)]

Bind(sc, x, mut) == RecordVar(sc, Top(sc), x, 0, IF mut THEN 0 ELSE COUNT_CONST)

Mutable(sc, x) == sc[HolderOf(sc, x)].vars[x][2] # COUNT_CONST

\* Mutated form: a store in the scope that holds the variable does not count.
Set_Uncounted(sc, x) ==
  LET k == HolderOf(sc, x) IN
    IF k # Top(sc) THEN RecordVar(sc, k, x, 0, 0)
    ELSE RecordVar(sc, k, x, sc[k].vars[x][1], sc[k].vars[x][2])

Set(sc, x) ==
  LET k == HolderOf(sc, x) IN
    IF k # Top(sc) THEN RecordVar(sc, k, x, 0, 0)
    ELSE RecordVar(sc, k, x, sc[k].vars[x][1], sc[k].vars[x][2] + 1)

Phi(sc, k, x) ==
  IF k # Top(sc) THEN RecordVar(sc, k, x, 0, 0)
  ELSE RecordVar(sc, k, x, sc[k].vars[x][1] + 1, 0)

\* Mutated form: the scope is dropped, not applied.
Modified_None(scope) == {}

\* getModified.
Modified(scope) == DOMAIN scope.borrowed

\* getOwned.
Owned(scope) == DOMAIN scope.vars \ DOMAIN scope.borrowed

-----------------------------------------------------------------------------
(* FuncClosure, and the loads and stores of the program.                   *)

Emit(ins) ==
  /\ code' = Append(code, ins)
  /\ UNCHANGED <<scopes, nextScopeId, labels, ids>>

BeginLabels(n) ==
  /\ labels' = labels \o [l \in 1..n |-> NoPos]
  /\ ids' = ids \o [l \in 1..n |-> <<>>]
  /\ UNCHANGED <<scopes, nextScopeId, code>>

\* Mutated form: the label is the place after the next instruction.
Place_Next(l) ==
  /\ labels' = [labels EXCEPT ![l] = Len(code) + 2]
  /\ UNCHANGED <<scopes, nextScopeId, code, ids>>

\* label.
Place(l) ==
  /\ labels' = [labels EXCEPT ![l] = Len(code) + 1]
  /\ UNCHANGED <<scopes, nextScopeId, code, ids>>

PushScope ==
  /\ scopes' = Append(scopes, Scope(nextScopeId))
  /\ nextScopeId' = nextScopeId + 1
  /\ UNCHANGED <<code, labels, ids>>

PopScope ==
  /\ scopes' = Front(scopes)
  /\ UNCHANGED <<nextScopeId, code, labels, ids>>

\* One round of applyScope (l = 0), applyScopeWithIds() (add) or
\* applyScopeWithIds(ids, false): merges x as the popped scope has it into the
\* current scope.
Merge(popped, l, add, x) ==
  LET key == <<popped.borrowed[x], x>>
      has == l # 0 /\ key \in DOMAIN ids[l]
      sc == IF has THEN scopes ELSE Phi(scopes, popped.borrowed[x], x)
      phi == IF has THEN ids[l][key] ELSE VarOf(sc, Top(sc), x)
  IN /\ scopes' = sc
     /\ ids' = IF add THEN [ids EXCEPT ![l] = With(@, key, phi)] ELSE ids
     /\ code' = code \o <<[op |-> "ldvar", var |-> <<popped.id, x, popped.vars[x]>>, decl |-> NoDecl],
                           [op |-> "stvar", var |-> phi, decl |-> NoDecl]>>
     /\ UNCHANGED <<nextScopeId, labels>>

\* What a loop records of the variables its condition binds.
RecordOwned(l) ==
  LET k == Top(scopes) IN
    /\ ids' = [ids EXCEPT ![l] = [key \in {k} \X Owned(scopes[k]) |-> VarOf(scopes, k, key[2])]]
    /\ UNCHANGED <<scopes, nextScopeId, code, labels>>

\* Not in the code: the declaration x refers to.
DeclOf(sc, x) ==
  LET k == Max({d \in DOMAIN sc : x \in DOMAIN sc[d].decl}) IN <<x, sc[k].decl[x]>>

LoadVar(x) == Emit([op |-> "ldvar", var |-> Get(scopes, x), decl |-> DeclOf(scopes, x)])

\* The store of a name behind set or bind, which left the chain sc.
StoredAs(sc, x) ==
  /\ scopes' = sc
  /\ code' = Append(code, [op |-> "stvar", var |-> Get(sc, x), decl |-> DeclOf(sc, x)])
  /\ UNCHANGED <<nextScopeId, labels, ids>>

StoreVar(x) == StoredAs(Set(scopes, x), x)

BindVar(x, mut) ==
  StoredAs([Bind(scopes, x, mut) EXCEPT ![Top(scopes)].decl = With(@, x, Len(code) + 1)], x)
=============================================================================
