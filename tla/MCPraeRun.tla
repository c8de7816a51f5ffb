------------------------------- MODULE MCPraeRun -------------------------------
(***************************************************************************)
(* Programs of five kinds, each as long as TLC can go through all of them: *)
(* short ones of any construct, longer ones of fewer.  What a load finds   *)
(* behind nested scopes takes 6 to 8 pieces.                               *)
(***************************************************************************)
EXTENDS PraeRun

CONSTANTS
  Kind,         \* the kinds of program to go through
  StoringPieces, MixedPieces, BranchedPieces, NestedPieces

VARIABLE kind

\* Conditions and values may store variables.
Storing == INSTANCE PraeRun WITH
  Construct <- {"load", "inc", "declare", "assign", "block", "if", "if else", "control"},
  MaxPieces <- StoringPieces

\* Values may.
Mixed == INSTANCE PraeRun WITH
  Construct <- {"load", "inc", "declare", "block", "control"},
  MaxPieces <- MixedPieces

\* Scopes in scopes; Branched has `else` in the outermost statements too.
Branched == INSTANCE PraeRun WITH
  Construct <- {"load", "declare", "assign", "block", "if", "if else"},
  MaxPieces <- BranchedPieces

Nested == INSTANCE PraeRun WITH
  Construct <- {"load", "declare", "assign", "block", "if"},
  MaxPieces <- NestedPieces

\* A condition is an identifier or a literal.
PlainCondition ==
  Calls("node") /\ todo[2].do = "ins" /\ todo[2].ins.op = "bez" => Len(todo') <= Len(todo)

\* The expression that is next is a statement; it is one of a list, or the only
\* branch of an `if`.
IsStatement == Len(todo) > 1 /\ <<todo[2]>> = Ins("pop")

InList == <<todo[3]>> = Node("stmts")

OnlyBranch == todo[3].do = "apply" /\ todo[3].add /\ todo[4].do = "label"

\* Conditions and values are literals, and statements that are none of these do
\* something; every declaration is a `var`.
Plain ==
  /\ Calls("node") /\ Call.node = "expr" =>
       IF todo' = Ins("ldc") \o Tail(todo) THEN IsStatement => ~InList /\ ~OnlyBranch
       ELSE IsStatement
  /\ Calls("bind") => Mutable(scopes', Call.name)

\* An `else` begins two labels.
ElseOutermost == Len(labels') = Len(labels) + 2 => Len(scopes) = 2

MCInit == Init /\ kind \in Kind

MCNext ==
  /\ \/ kind = "short" /\ Next
     \/ kind = "storing" /\ Storing!Next
     \/ kind = "mixed" /\ Mixed!Next /\ PlainCondition
     \/ kind = "branched" /\ Branched!Next /\ Plain /\ ElseOutermost
     \/ kind = "nested" /\ Nested!Next /\ Plain
     \/ kind = "else nested" /\ Branched!Next /\ Plain
  /\ UNCHANGED kind

MCSpec == MCInit /\ [][MCNext]_<<vars, kind>>
=============================================================================
