---------------------------- MODULE VerifierProofs ----------------------------
(***************************************************************************)
(* What the verifier reports of a function, for any code the compiler may  *)
(* hand it.  Nothing is assumed of that code: an instruction is any value, *)
(* and a label any place, in the code or not.                              *)
(*                                                                         *)
(* The invariant is about the closures that wait.  To find only what is    *)
(* real, each of them is where some path goes on from an instruction that  *)
(* was verified before; to find all there is up to the jumps, each place   *)
(* where such a path goes on was visited or has a closure that waits there.*)
(* That a closure never pops from an empty stack needs the compiler: the   *)
(* heights that PraeRunProofs finds in its code are those of the closures. *)
(***************************************************************************)
EXTENDS BlockVerifier, SequenceTheorems, TLAPS

Keys == {"m_pc", "size", "m_vars"}
PlaceOf(b) == <<b.m_pc, b.m_vars>>

\* Before verifyFunc there is nothing, after it no closure waits, and meanwhile
\* the code stays as it is.
Idle ==
  /\ verifying = "no" => q = <<>> /\ covered = {} /\ action = "Move" /\ reports = {} /\ visits = <<>>
  /\ verifying # "no" => Compiled
  /\ verifying = "done" => q = <<>>

Queues ==
  /\ \E S : visits \in Seq(S)
  /\ \E S : q \in Seq(S)
  /\ \A k \in DOMAIN q : DOMAIN q[k] = Keys

\* A closure that has not jumped only goes forward.
Forward ==
  /\ action \in {"Move", "Stay"}
  /\ q = <<>> => covered = {} /\ action = "Move"
  /\ action = "Move" =>
       \A c \in covered : c \in Int /\ Block.m_pc \in Int /\ c < Block.m_pc

Reached(s) == s = Start \/ \E j \in DOMAIN visits : s \in After(visits[j], TRUE)

\* A closure waits where a path goes on, unless it has come to its end.
FromPaths ==
  /\ \A i \in DOMAIN visits :
       At(visits[i]) = Start \/ \E j \in 1..i - 1 : At(visits[i]) \in After(visits[j], TRUE)
  /\ \A k \in DOMAIN q : (k = 1 /\ q[k].m_pc \in covered) \/ Reached(PlaceOf(q[k]))

Kinds == {"load-before-store", "variable reassignment"}

OnlyErrors == {r \in reports : r[1] \in Kinds} \subseteq Errors(ToSet(visits))

\* A closure that waits at s and has not jumped.
Waiting(s) == \E k \in DOMAIN q : s = PlaceOf(q[k]) /\ (k = 1 => action = "Move")
Visited(s) == \E v \in Followed : s = At(v)

Frontier == {Start} \cup UNION {After(v, FALSE) : v \in Followed}
AllPaths == \A s \in InCode(Frontier) : Visited(s) \/ Waiting(s)
AllErrors == Errors(Followed) \subseteq reports

Body == Queues /\ Forward /\ FromPaths /\ OnlyErrors /\ AllPaths /\ AllErrors
Inv == Idle /\ (verifying # "no" => Body)

-----------------------------------------------------------------------------
(* Nothing compiles once the function is compiled.                         *)

LEMMA CompilesOnlyBefore == Compile => Compiling
<1>1. ASSUME NEW node, NEW cost, NEW n, NEW items, Emitting(node, cost, n, items)
      PROVE  Compiling
  BY <1>1 DEF Emitting
<1>2. ASSUME LoadLiteral \/ LoadIdentifier \/ LoadXInfix \/ LoadXUnary \/ LoadInc PROVE Compiling
  BY <1>1, <1>2 DEF LoadLiteral, LoadIdentifier, LoadXInfix, LoadXUnary, LoadInc
<1>3. ASSUME LoadXMsg \/ LoadTuple \/ LoadXParen \/ LoadXBlock \/ LoadXControl PROVE Compiling
  BY <1>1, <1>3 DEF LoadXMsg, LoadTuple, LoadXParen, LoadXBlock, LoadXControl
<1>4. ASSUME EmitStmts \/ EmitExpr \/ EmitDecl \/ EmitAssign \/ LoadAssignValue PROVE Compiling
  BY <1>1, <1>4 DEF EmitStmts, EmitExpr, EmitDecl, EmitAssign, LoadAssignValue
<1>5. ASSUME EmitBinding \/ EmitIf \/ EmitLoop \/ EmitReturn PROVE Compiling
  BY <1>1, <1>5 DEF EmitBinding, EmitIf, EmitLoop, EmitReturn
<1>6. ASSUME EmitNode PROVE Compiling
  BY <1>2, <1>3, <1>4, <1>5, <1>6 DEF EmitNode
<1>7. ASSUME MakeCall PROVE Compiling
  BY <1>7 DEF MakeCall, EmitIns, GetName, SetName, BindNew, EnterScope, LeaveScope, MergeName,
              OwnIds, PlaceLabel, Calls
<1>8. ASSUME Error PROVE Compiling
  BY <1>8 DEF Error, Calls
<1>9. QED
  BY <1>6, <1>7, <1>8 DEF Compile

-----------------------------------------------------------------------------
(* The closure after an instruction.                                       *)

Stores(vs, ins) == IF ins.op = "stvar" THEN vs \cup {ins.var} ELSE vs

LEMMA EffectFacts ==
  ASSUME NEW b, DOMAIN b = Keys, NEW ins
  PROVE  /\ DOMAIN Effect(b, ins) = Keys
         /\ Effect(b, ins).m_pc = b.m_pc
         /\ Effect(b, ins).m_vars = Stores(b.m_vars, ins)
<1>1. CASE ins.op \in {"ldc", "dup", "ldvar"}
  BY <1>1 DEF Effect, Stores, Keys
<1>2. CASE ins.op \in {"pop", "bez", "bnz"}
  BY <1>2 DEF Effect, Stores, Keys
<1>3. CASE ins.op = "stvar"
  BY <1>3 DEF Effect, Stores, Keys
<1>4. CASE ins.op = "msg"
  BY <1>4 DEF Effect, Stores, Keys, HandlePHOp
<1>5. CASE ins.op \notin {"ldc", "dup", "ldvar", "pop", "bez", "bnz", "stvar", "msg"}
  BY <1>5 DEF Effect, Stores, Keys
<1>6. QED
  BY <1>1, <1>2, <1>3, <1>4, <1>5

\* What an instruction makes the closure print of the variables is wrong there,
\* and it prints all that is.
LEMMA ReportFacts ==
  ASSUME NEW b, NEW act
  PROVE  LET ins == code[b.m_pc]
             wrong == Errors({<<b.m_pc, b.m_vars, act>>})
         IN {r \in Report(b, ins) : r[1] \in Kinds} = wrong /\ wrong \subseteq Report(b, ins)
<1> DEFINE ins == code[b.m_pc]
           v == <<b.m_pc, b.m_vars, act>>
           wrong == Errors({v})
           printed == Report(b, ins)
<1>1. v[1] = b.m_pc /\ v[2] = b.m_vars
  OBVIOUS
<1>2. \A w : w \in {v} <=> w = v
  OBVIOUS
<1>3. wrong =
        {<<"load-before-store", b.m_pc>> : w \in {u \in {v} : ins.op = "ldvar" /\ ins.var \notin b.m_vars}}
        \cup
        {<<"variable reassignment", b.m_pc>> : w \in {u \in {v} : ins.op = "stvar" /\ ins.var \in b.m_vars}}
  BY <1>1, <1>2 DEF Errors
<1> SUFFICES {r \in printed : r[1] \in Kinds} = wrong /\ wrong \subseteq printed
  OBVIOUS
<1>4. CASE ins.op = "ldvar" /\ ins.var \notin b.m_vars
  <2>1. wrong = {<<"load-before-store", b.m_pc>>}
    BY <1>2, <1>3, <1>4
  <2>2. printed = {<<"load-before-store", b.m_pc>>}
    BY <1>4 DEF Report
  <2>3. <<"load-before-store", b.m_pc>>[1] \in Kinds
    BY DEF Kinds
  <2> HIDE DEF wrong, printed
  <2>4. QED
    BY <2>1, <2>2, <2>3
<1>5. CASE ins.op = "stvar" /\ ins.var \in b.m_vars
  <2>1. wrong = {<<"variable reassignment", b.m_pc>>}
    BY <1>2, <1>3, <1>5
  <2>2. printed = {<<"variable reassignment", b.m_pc>>}
    BY <1>5 DEF Report
  <2>3. <<"variable reassignment", b.m_pc>>[1] \in Kinds
    BY DEF Kinds
  <2> HIDE DEF wrong, printed
  <2>4. QED
    BY <2>1, <2>2, <2>3
<1>6. CASE ~(ins.op = "ldvar" /\ ins.var \notin b.m_vars) /\ ~(ins.op = "stvar" /\ ins.var \in b.m_vars)
  <2>1. wrong = {}
    BY <1>3, <1>6
  <2>2. printed \subseteq {<<"not enough values", b.m_pc>>, <<"bad return stack size", b.m_pc>>}
    BY <1>6 DEF Report
  <2>3. /\ <<"not enough values", b.m_pc>>[1] = "not enough values"
        /\ <<"bad return stack size", b.m_pc>>[1] = "bad return stack size"
    OBVIOUS
  <2>4. "not enough values" \notin Kinds /\ "bad return stack size" \notin Kinds
    BY DEF Kinds
  <2> HIDE DEF wrong, printed
  <2>5. ASSUME NEW r \in printed PROVE r[1] \notin Kinds
    BY <2>2, <2>3, <2>4
  <2>6. QED
    BY <2>1, <2>5
<1>7. QED
  BY <1>4, <1>5, <1>6

-----------------------------------------------------------------------------
(* The queue.                                                              *)

LEMMA TailFacts ==
  ASSUME NEW S, NEW s \in Seq(S), s # <<>>
  PROVE  /\ Tail(s) \in Seq(S) /\ DOMAIN s = 1..Len(s) /\ Len(s) \in Nat \ {0}
         /\ Head(s) = s[1]
         /\ \A k \in DOMAIN Tail(s) : k + 1 \in DOMAIN s /\ k + 1 > 1 /\ Tail(s)[k] = s[k + 1]
         /\ \A k \in DOMAIN s : k > 1 => k - 1 \in DOMAIN Tail(s) /\ Tail(s)[k - 1] = s[k]
<1>1. DOMAIN s = 1..Len(s) /\ Len(s) \in Nat \ {0} /\ Head(s) = s[1]
  OBVIOUS
<1>2. Tail(s) \in Seq(S) /\ Len(Tail(s)) = Len(s) - 1
  OBVIOUS
<1>3. \A k \in 1..Len(s) - 1 : Tail(s)[k] = s[k + 1]
  OBVIOUS
<1>4. DOMAIN Tail(s) = 1..Len(s) - 1
  BY <1>2
<1>5. QED
  BY <1>1, <1>2, <1>3, <1>4

LEMMA JoinFacts ==
  ASSUME NEW S, NEW s \in Seq(S), NEW u \in Seq(S)
  PROVE  /\ s \o u \in Seq(S)
         /\ \A k \in DOMAIN (s \o u) :
              \/ k \in DOMAIN s /\ (s \o u)[k] = s[k]
              \/ k - Len(s) \in DOMAIN u /\ (s \o u)[k] = u[k - Len(s)]
         /\ \A k \in DOMAIN s : k \in DOMAIN (s \o u) /\ (s \o u)[k] = s[k]
         /\ \A k \in DOMAIN u : k + Len(s) \in DOMAIN (s \o u) /\ (s \o u)[k + Len(s)] = u[k]
<1>1. /\ s \o u \in Seq(S) /\ Len(s \o u) = Len(s) + Len(u)
      /\ Len(s) \in Nat /\ Len(u) \in Nat
  OBVIOUS
<1>2. DOMAIN s = 1..Len(s) /\ DOMAIN u = 1..Len(u) /\ DOMAIN (s \o u) = 1..Len(s) + Len(u)
  BY <1>1
<1>3. \A k \in 1..Len(s) + Len(u) :
        (s \o u)[k] = IF k <= Len(s) THEN s[k] ELSE u[k - Len(s)]
  BY <1>1
<1>4. \A k \in 1..Len(s) + Len(u) : k > Len(s) => k - Len(s) \in 1..Len(u)
  BY <1>1
<1>5. \A k \in 1..Len(u) : k + Len(s) \in 1..Len(s) + Len(u) /\ k + Len(s) > Len(s)
                             /\ (k + Len(s)) - Len(s) = k
  BY <1>1
<1>6. QED
  BY <1>1, <1>2, <1>3, <1>4, <1>5

LEMMA SeqOfMore ==
  ASSUME NEW S, NEW T, S \subseteq T, NEW s \in Seq(S)
  PROVE  s \in Seq(T)
OBVIOUS

-----------------------------------------------------------------------------
(* One round of iterate().                                                 *)

LEMMA AfterVisit ==
  ASSUME NEW jumps
  PROVE  LET to == Stores(Block.m_vars, Instr) IN
         /\ Instr.op = "br" /\ jumps => <<labels[Instr.label], to>> \in After(Visit, jumps)
         /\ Instr.op \in {"bez", "bnz"} =>
              After(Visit, jumps) = {<<Block.m_pc + 1, to>>, <<labels[Instr.label], to>>}
         /\ Instr.op \notin {"br", "ret", "bez", "bnz"} => After(Visit, jumps) = {<<Block.m_pc + 1, to>>}
         /\ Instr.op = "ret" => After(Visit, jumps) = {}
         /\ Instr.op = "br" /\ ~jumps => After(Visit, jumps) = {}
<1>1. Visit[1] = Block.m_pc /\ Visit[2] = Block.m_vars /\ code[Visit[1]] = Instr
  BY DEF Visit, Instr
<1> DEFINE to == Stores(Block.m_vars, Instr)
<1>2. After(Visit, jumps) =
        CASE Instr.op = "ret" -> {}
          [] Instr.op = "br" -> IF jumps THEN {<<labels[Instr.label], to>>} ELSE {}
          [] Instr.op \in {"bez", "bnz"} -> {<<Block.m_pc + 1, to>>, <<labels[Instr.label], to>>}
          [] OTHER -> {<<Block.m_pc + 1, to>>}
  BY <1>1 DEF After, Stores
<1> HIDE DEF to
<1>3. CASE Instr.op = "br"
  BY <1>2, <1>3 DEF to
<1>4. CASE Instr.op = "ret"
  BY <1>2, <1>4 DEF to
<1>5. CASE Instr.op \in {"bez", "bnz"}
  BY <1>2, <1>5 DEF to
<1>6. CASE Instr.op \notin {"br", "ret", "bez", "bnz"}
  BY <1>2, <1>6 DEF to
<1>7. QED
  BY <1>3, <1>4, <1>5, <1>6

Effected == Effect(Block, Instr)
Rest == Tail(q) \o ForkedAt(Effected, Instr)
Old(e) == \E j \in DOMAIN q : j > 1 /\ e = q[j]
Comes(e) == DOMAIN e = Keys /\ PlaceOf(e) \in After(Visit, TRUE)

LEMMA EffectedFacts ==
  ASSUME Queues, q # <<>>
  PROVE  /\ DOMAIN Effected = Keys
         /\ Effected.m_pc = Block.m_pc
         /\ Effected.m_vars = Stores(Block.m_vars, Instr)
<1>1. DOMAIN Block = Keys
  BY TailFacts DEF Queues, Block
<1>2. QED
  BY <1>1, EffectFacts DEF Effected

\* The closures that wait behind the one that runs.
LEMMA RestFacts ==
  ASSUME Queues, q # <<>>
  PROVE  /\ \E S : Rest \in Seq(S)
         /\ \A k \in DOMAIN Rest : Old(Rest[k]) \/ Comes(Rest[k])
         /\ \A j \in DOMAIN q : j > 1 => \E k \in DOMAIN Rest : Rest[k] = q[j]
         /\ Instr.op \in {"bez", "bnz"} =>
              \E k \in DOMAIN Rest : PlaceOf(Rest[k]) = <<labels[Instr.label], Stores(Block.m_vars, Instr)>>
<1> DEFINE f == Forked(Effected, labels[Instr.label])
           F == ForkedAt(Effected, Instr)
<1>1. PICK S : q \in Seq(S)
  BY DEF Queues
<1>2. /\ Tail(q) \in Seq(S \cup {f}) /\ F \in Seq(S \cup {f})
  <2>1. Tail(q) \in Seq(S)
    BY <1>1, TailFacts
  <2>2. Tail(q) \in Seq(S \cup {f})
    BY <2>1, SeqOfMore
  <2>3. F = <<f>> \/ F = <<>>
    BY DEF ForkedAt
  <2> HIDE DEF f, F
  <2>4. F \in Seq(S \cup {f})
    <3>1. <<f>> \in Seq(S \cup {f})
      OBVIOUS
    <3>2. <<>> \in Seq(S \cup {f})
      OBVIOUS
    <3>3. QED
      BY <2>3, <3>1, <3>2
  <2>5. QED
    BY <2>2, <2>4
<1>3. /\ DOMAIN f = Keys
      /\ PlaceOf(f) = <<labels[Instr.label], Stores(Block.m_vars, Instr)>>
  BY EffectedFacts DEF Forked, PlaceOf, Keys
<1>4. CASE Instr.op \in {"bez", "bnz"}
  <2>1. F = <<f>>
    BY <1>4 DEF ForkedAt
  <2>2. Comes(f)
    BY <1>3, <1>4, AfterVisit DEF Comes
  <2> HIDE DEF f, F
  <2>3. DOMAIN F = {1} /\ F[1] = f
    BY <2>1
  <2>4. \A k \in DOMAIN Rest : Old(Rest[k]) \/ Rest[k] = f
    BY <1>1, <1>2, <2>3, JoinFacts, TailFacts DEF Rest, Old, F
  <2>5. \A j \in DOMAIN q : j > 1 => \E k \in DOMAIN Rest : Rest[k] = q[j]
    BY <1>1, <1>2, JoinFacts, TailFacts DEF Rest, F
  <2>6. \E k \in DOMAIN Rest : Rest[k] = f
    <3>1. 1 \in DOMAIN F
      BY <2>3
    <3>2. 1 + Len(Tail(q)) \in DOMAIN Rest /\ Rest[1 + Len(Tail(q))] = F[1]
      BY <1>2, <3>1, JoinFacts DEF Rest, F
    <3>3. QED
      BY <2>3, <3>2
  <2>7. Rest \in Seq(S \cup {f})
    BY <1>2, JoinFacts DEF Rest, F
  <2>8. QED
    BY <1>3, <2>2, <2>4, <2>5, <2>6, <2>7
<1>5. CASE Instr.op \notin {"bez", "bnz"}
  <2>1. F = <<>>
    BY <1>5 DEF ForkedAt
  <2> HIDE DEF f, F
  <2>2. DOMAIN F = {}
    BY <2>1
  <2>3. \A k \in DOMAIN Rest : Old(Rest[k])
    BY <1>1, <1>2, <2>2, JoinFacts, TailFacts DEF Rest, Old, F
  <2>4. \A j \in DOMAIN q : j > 1 => \E k \in DOMAIN Rest : Rest[k] = q[j]
    BY <1>1, <1>2, JoinFacts, TailFacts DEF Rest, F
  <2>5. Rest \in Seq(S \cup {f})
    BY <1>2, JoinFacts DEF Rest, F
  <2>6. QED
    BY <1>5, <2>3, <2>4, <2>5
<1>6. QED
  BY <1>4, <1>5

Runs == Iterate /\ Block.m_pc \in 1..Len(code) /\ Block.m_pc \notin covered
Ends == Iterate /\ ~(Block.m_pc \in 1..Len(code) /\ Block.m_pc \notin covered)

\* The closure that runs, after the instruction.
Moved(act) ==
  LET pc == IF Instr.op = "br" THEN labels[Instr.label] ELSE Block.m_pc IN
    [Effected EXCEPT !.m_pc = IF act = "Move" THEN pc + 1 ELSE pc]

LEMMA RunsIs ==
  ASSUME Runs
  PROVE  /\ reports' = reports \cup Report(Block, Instr)
         /\ visits' = IF Visit \in ToSet(visits) THEN visits ELSE Append(visits, Visit)
         /\ IF Action(Instr) = "Stop"
            THEN q' = Rest /\ covered' = {} /\ action' = "Move"
            ELSE /\ q' = <<Moved(Action(Instr))>> \o Rest
                 /\ covered' = covered \cup {Block.m_pc}
                 /\ action' = Action(Instr)
         /\ verifying = "yes" /\ q # <<>>
         /\ UNCHANGED <<compiler, verifying>>
BY DEF Runs, Iterate, Returns, Moved, Effected, Rest

LEMMA EndsIs ==
  ASSUME Ends
  PROVE  /\ q' = Tail(q) /\ covered' = {} /\ action' = "Move"
         /\ verifying = "yes" /\ q # <<>>
         /\ UNCHANGED <<compiler, verifying, reports, visits>>
<1>1. Block.m_pc \notin 1..Len(code) \/ Block.m_pc \in covered
  BY DEF Ends
<1>2. QED
  BY <1>1 DEF Ends, Iterate, Returns

\* The closure that runs goes on where a path does, or stays at an instruction it
\* has covered.
LEMMA MovedFacts ==
  ASSUME Queues, Forward, q # <<>>, Action(Instr) # "Stop", Block.m_pc \in 1..Len(code)
  PROVE  LET m == Moved(Action(Instr)) IN
         /\ DOMAIN m = Keys
         /\ Comes(m) \/ m.m_pc = Block.m_pc
         /\ Action(Instr) \in {"Move", "Stay"}
         /\ Action(Instr) = "Move" =>
              /\ Instr.op \notin {"br", "ret"} /\ action = "Move"
              /\ Block.m_pc \in Int /\ m.m_pc = Block.m_pc + 1
              /\ m.m_vars = Stores(Block.m_vars, Instr)
<1> DEFINE act == Action(Instr)
           m == Moved(act)
<1>1. act \in {"Move", "Stay"} /\ (act = "Move" => Instr.op \notin {"br", "ret"} /\ action = "Move")
  BY DEF Action, Forward
<1>2. Instr.op # "ret"
  BY DEF Action
<1>3. Block.m_pc \in Int
  OBVIOUS
<1>4. DOMAIN m = Keys /\ m.m_vars = Stores(Block.m_vars, Instr)
  BY EffectedFacts DEF Moved, Keys
<1>5. m.m_pc = LET pc == IF Instr.op = "br" THEN labels[Instr.label] ELSE Block.m_pc IN
                 IF act = "Move" THEN pc + 1 ELSE pc
  BY EffectedFacts DEF Moved, Keys
<1> HIDE DEF act, m
<1>6. PlaceOf(m) = <<m.m_pc, Stores(Block.m_vars, Instr)>>
  BY <1>4 DEF PlaceOf
<1>7. CASE act = "Move"
  <2>1. m.m_pc = Block.m_pc + 1
    BY <1>1, <1>5, <1>7
  <2>2. PlaceOf(m) \in After(Visit, TRUE)
    BY <1>1, <1>6, <1>7, <2>1, AfterVisit
  <2>3. QED
    BY <1>1, <1>3, <1>4, <2>1, <2>2 DEF Comes, act, m
<1>8. CASE act = "Stay" /\ Instr.op = "br"
  <2>1. m.m_pc = labels[Instr.label]
    BY <1>5, <1>8
  <2>2. PlaceOf(m) \in After(Visit, TRUE)
    BY <1>6, <1>8, <2>1, AfterVisit
  <2>3. QED
    BY <1>1, <1>4, <1>8, <2>2 DEF Comes, act, m
<1>9. CASE act = "Stay" /\ Instr.op # "br"
  <2>1. m.m_pc = Block.m_pc
    BY <1>5, <1>9
  <2>2. QED
    BY <1>1, <1>4, <1>9, <2>1 DEF act, m
<1>10. QED
  BY <1>1, <1>7, <1>8, <1>9

-----------------------------------------------------------------------------
(* What a round does to the queue.                                         *)

LEMMA QueueAfterRun ==
  ASSUME Queues, Forward, Runs
  PROVE  /\ \E S : q' \in Seq(S)
         /\ \A k \in DOMAIN q' :
              Old(q'[k]) \/ Comes(q'[k])
              \/ (k = 1 /\ DOMAIN q'[k] = Keys /\ q'[k].m_pc \in covered')
         /\ \A j \in DOMAIN q : j > 1 => \E k \in DOMAIN q' : q'[k] = q[j] /\ (k = 1 => action' = "Move")
         /\ action = "Move" =>
              \A s \in After(Visit, FALSE) : \E k \in DOMAIN q' : s = PlaceOf(q'[k]) /\ (k = 1 => action' = "Move")
         /\ Forward'
<1> DEFINE m == Moved(Action(Instr))
           to == Stores(Block.m_vars, Instr)
<1>1. q # <<>> /\ Block.m_pc \in 1..Len(code)
  BY RunsIs DEF Runs
<1>2. PICK S : Rest \in Seq(S)
  BY <1>1, RestFacts
<1>3. CASE Action(Instr) = "Stop"
  <2>1. q' = Rest /\ covered' = {} /\ action' = "Move"
    BY <1>3, RunsIs
  <2>2. Instr.op = "ret"
    BY <1>3 DEF Action, Forward
  <2>3. After(Visit, FALSE) = {}
    BY <2>2, AfterVisit
  <2>4. Forward'
    BY <2>1 DEF Forward
  <2>5. QED
    BY <1>1, <1>2, <2>1, <2>3, <2>4, RestFacts
<1>4. CASE Action(Instr) # "Stop"
  <2>1. /\ q' = <<m>> \o Rest
        /\ covered' = covered \cup {Block.m_pc}
        /\ action' = Action(Instr)
    BY <1>4, RunsIs
  <2>2. /\ DOMAIN m = Keys
        /\ Comes(m) \/ m.m_pc = Block.m_pc
        /\ Action(Instr) \in {"Move", "Stay"}
        /\ Action(Instr) = "Move" =>
             /\ Instr.op \notin {"br", "ret"} /\ action = "Move"
             /\ Block.m_pc \in Int /\ m.m_pc = Block.m_pc + 1 /\ m.m_vars = to
    BY <1>1, <1>4, MovedFacts
  <2> HIDE DEF m, to
  <2>3. /\ q' \in Seq(S \cup {m}) /\ q' # <<>>
        /\ 1 \in DOMAIN q' /\ q'[1] = m /\ Head(q') = m
        /\ \A k \in DOMAIN q' : k = 1 \/ \E i \in DOMAIN Rest : q'[k] = Rest[i]
        /\ \A i \in DOMAIN Rest : \E k \in DOMAIN q' : k > 1 /\ q'[k] = Rest[i]
    <3>1. <<m>> \in Seq(S \cup {m}) /\ Rest \in Seq(S \cup {m})
      <4>1. Rest \in Seq(S \cup {m})
        BY <1>2, SeqOfMore
      <4>2. <<m>> \in Seq(S \cup {m})
        OBVIOUS
      <4>3. QED
        BY <4>1, <4>2
    <3>2. DOMAIN <<m>> = {1} /\ Len(<<m>>) = 1 /\ <<m>>[1] = m
      OBVIOUS
    <3>3. q' \in Seq(S \cup {m}) /\ 1 \in DOMAIN q' /\ q'[1] = m
      BY <2>1, <3>1, <3>2, JoinFacts
    <3>4. q' # <<>> /\ Head(q') = m
      BY <3>3
    <3>5. \A k \in DOMAIN q' : k = 1 \/ \E i \in DOMAIN Rest : q'[k] = Rest[i]
      BY <2>1, <3>1, <3>2, JoinFacts
    <3>6. \A i \in DOMAIN Rest : \E k \in DOMAIN q' : k > 1 /\ q'[k] = Rest[i]
      <4>1. SUFFICES ASSUME NEW i \in DOMAIN Rest
                     PROVE  \E k \in DOMAIN q' : k > 1 /\ q'[k] = Rest[i]
        OBVIOUS
      <4>2. i + 1 \in DOMAIN q' /\ q'[i + 1] = Rest[i]
        BY <2>1, <3>1, <3>2, JoinFacts
      <4>3. i + 1 > 1
        BY <1>2
      <4>4. QED
        BY <4>2, <4>3
    <3>7. QED
      BY <3>3, <3>4, <3>5, <3>6
  <2>4. \A k \in DOMAIN q' :
          Old(q'[k]) \/ Comes(q'[k]) \/ (k = 1 /\ DOMAIN q'[k] = Keys /\ q'[k].m_pc \in covered')
    BY <1>1, <2>1, <2>2, <2>3, RestFacts
  <2>5. \A j \in DOMAIN q : j > 1 => \E k \in DOMAIN q' : q'[k] = q[j] /\ (k = 1 => action' = "Move")
    BY <1>1, <2>3, RestFacts
  <2>6. ASSUME action = "Move", NEW s \in After(Visit, FALSE)
        PROVE  \E k \in DOMAIN q' : s = PlaceOf(q'[k]) /\ (k = 1 => action' = "Move")
    <3>1. Instr.op \notin {"br", "ret"}
      BY <2>6, AfterVisit
    <3>2. action' = "Move"
      BY <2>1, <2>6, <3>1 DEF Action
    <3>3. PlaceOf(m) = <<Block.m_pc + 1, to>>
      BY <2>1, <2>2, <3>2 DEF PlaceOf
    <3>4. CASE Instr.op \notin {"bez", "bnz"}
      <4>1. s = <<Block.m_pc + 1, to>>
        BY <2>6, <3>1, <3>4, AfterVisit DEF to
      <4>2. QED
        BY <2>3, <3>2, <3>3, <4>1
    <3>5. CASE Instr.op \in {"bez", "bnz"}
      <4>1. s = <<Block.m_pc + 1, to>> \/ s = <<labels[Instr.label], to>>
        BY <2>6, <3>5, AfterVisit DEF to
      <4>2. \E i \in DOMAIN Rest : PlaceOf(Rest[i]) = <<labels[Instr.label], to>>
        BY <1>1, <3>5, RestFacts DEF to
      <4>3. QED
        BY <2>3, <3>2, <3>3, <4>1, <4>2
    <3>6. QED
      BY <3>4, <3>5
  <2>7. Forward'
    <3>1. ASSUME action' = "Move", NEW c \in covered'
          PROVE  c \in Int /\ m.m_pc \in Int /\ c < m.m_pc
      <4>1. m.m_pc = Block.m_pc + 1 /\ Block.m_pc \in Int /\ action = "Move"
        BY <2>1, <2>2, <3>1
      <4>2. c = Block.m_pc \/ (c \in Int /\ c < Block.m_pc)
        BY <2>1, <3>1, <4>1 DEF Forward
      <4>3. QED
        BY <4>1, <4>2
    <3>2. Block' = m
      BY <2>3 DEF Block
    <3>3. QED
      BY <2>1, <2>2, <2>3, <3>1, <3>2 DEF Forward
  <2>8. \E T : q' \in Seq(T)
    BY <2>3
  <2>9. QED
    BY ONLY <2>4, <2>5, <2>6, <2>7, <2>8
<1>5. QED
  BY <1>3, <1>4

LEMMA QueueAfterEnd ==
  ASSUME Queues, Forward, Ends
  PROVE  /\ \E S : q' \in Seq(S)
         /\ \A k \in DOMAIN q' : Old(q'[k])
         /\ \A j \in DOMAIN q : j > 1 => \E k \in DOMAIN q' : q'[k] = q[j]
         /\ Forward'
<1>1. PICK S : q \in Seq(S)
  BY DEF Queues
<1>2. q' = Tail(q) /\ covered' = {} /\ action' = "Move" /\ q # <<>>
  BY EndsIs
<1>3. Forward'
  BY <1>2 DEF Forward
<1>4. q' \in Seq(S)
  BY <1>1, <1>2, TailFacts
<1>5. \A k \in DOMAIN q' : Old(q'[k])
  BY <1>1, <1>2, TailFacts DEF Old
<1>6. \A j \in DOMAIN q : j > 1 => \E k \in DOMAIN q' : q'[k] = q[j]
  BY <1>1, <1>2, TailFacts
<1>7. QED
  BY <1>3, <1>4, <1>5, <1>6

\* The visits of a round: those before it, in their places, and its own.
LEMMA VisitsAfterRun ==
  ASSUME Queues, Runs
  PROVE  /\ \E S : visits' \in Seq(S)
         /\ DOMAIN visits \subseteq DOMAIN visits'
         /\ \A i \in DOMAIN visits : visits'[i] = visits[i]
         /\ \A i \in DOMAIN visits' : i \in DOMAIN visits \/ (visits'[i] = Visit /\ DOMAIN visits \subseteq 1..i - 1)
         /\ \E i \in DOMAIN visits' : visits'[i] = Visit
         /\ ToSet(visits') = ToSet(visits) \cup {Visit}
<1>1. PICK S : visits \in Seq(S)
  BY DEF Queues
<1>2. DOMAIN visits = 1..Len(visits) /\ Len(visits) \in Nat
  BY <1>1
<1>3. ToSet(visits) = {visits[i] : i \in DOMAIN visits}
  BY DEF ToSet
<1>4. ToSet(visits') = {visits'[i] : i \in DOMAIN visits'}
  BY DEF ToSet
<1>5. CASE Visit \in ToSet(visits)
  <2>1. visits' = visits
    BY <1>5, RunsIs
  <2>2. \E i \in DOMAIN visits : visits[i] = Visit
    BY <1>3, <1>5
  <2>3. QED
    BY <1>1, <1>5, <2>1, <2>2
<1>6. CASE Visit \notin ToSet(visits)
  <2>1. visits' = Append(visits, Visit)
    BY <1>6, RunsIs
  <2>2. visits \in Seq(S \cup {Visit})
    BY <1>1, SeqOfMore
  <2>3. /\ visits' \in Seq(S \cup {Visit})
        /\ DOMAIN visits' = 1..Len(visits) + 1
        /\ visits'[Len(visits) + 1] = Visit
        /\ \A i \in 1..Len(visits) : visits'[i] = visits[i]
    BY <2>1, <2>2
  <2>4. DOMAIN visits \subseteq 1..(Len(visits) + 1) - 1 /\ DOMAIN visits \subseteq DOMAIN visits'
    BY <1>2, <2>3
  <2>5. \A i \in DOMAIN visits' : i \in DOMAIN visits \/ i = Len(visits) + 1
    BY <1>2, <2>3
  <2>6. Len(visits) + 1 \in DOMAIN visits'
    BY <1>2, <2>3
  <2>7. ToSet(visits') = ToSet(visits) \cup {Visit}
    BY <1>2, <1>3, <1>4, <2>3, <2>4, <2>5, <2>6
  <2>8. QED
    BY <1>2, <2>3, <2>4, <2>5, <2>6, <2>7
<1>7. QED
  BY <1>5, <1>6

-----------------------------------------------------------------------------
(* The invariant through a round.                                          *)

LEMMA QueuesRun ==
  ASSUME Queues, Forward, Runs
  PROVE  Queues'
<1>1. \A k \in DOMAIN q' : DOMAIN q'[k] = Keys
  BY QueueAfterRun DEF Old, Comes, Queues
<1>2. QED
  BY <1>1, QueueAfterRun, VisitsAfterRun DEF Queues

\* What the parts of the invariant say of the next state, with the code of this one.
LEMMA FromPathsNext ==
  ASSUME UNCHANGED <<code, labels, scopes>>,
         \A i \in DOMAIN visits' :
           At(visits'[i]) = Start \/ \E j \in 1..i - 1 : At(visits'[i]) \in After(visits'[j], TRUE),
         \A k \in DOMAIN q' :
           \/ k = 1 /\ q'[k].m_pc \in covered'
           \/ PlaceOf(q'[k]) = Start
           \/ \E j \in DOMAIN visits' : PlaceOf(q'[k]) \in After(visits'[j], TRUE)
  PROVE  FromPaths'
<1>1. Start' = Start
  BY DEF Start, Args
<1>2. \A i \in DOMAIN visits' :
        \/ At(visits[i])' = Start'
        \/ \E j \in 1..i - 1 : At(visits[i])' \in After(visits[j], TRUE)'
  <2>1. SUFFICES ASSUME NEW i \in DOMAIN visits',
                        ~(At(visits'[i]) = Start),
                        NEW j \in 1..i - 1, At(visits'[i]) \in After(visits'[j], TRUE)
                 PROVE  At(visits[i])' \in After(visits[j], TRUE)'
    BY <1>1 DEF At
  <2>2. After(visits[j], TRUE)' = After(visits'[j], TRUE)
    BY DEF After
  <2>3. QED
    BY <2>1, <2>2 DEF At
<1>3. \A k \in DOMAIN q' :
        \/ k = 1 /\ q'[k].m_pc \in covered'
        \/ PlaceOf(q[k])' = Start'
        \/ \E j \in DOMAIN visits' : PlaceOf(q[k])' \in After(visits[j], TRUE)'
  <2>1. SUFFICES ASSUME NEW k \in DOMAIN q',
                        NEW j \in DOMAIN visits', PlaceOf(q'[k]) \in After(visits'[j], TRUE)
                 PROVE  PlaceOf(q[k])' \in After(visits[j], TRUE)'
    BY <1>1 DEF PlaceOf
  <2>2. After(visits[j], TRUE)' = After(visits'[j], TRUE)
    BY DEF After
  <2>3. QED
    BY <2>1, <2>2 DEF PlaceOf
<1>4. QED
  BY <1>2, <1>3 DEF FromPaths, Reached

LEMMA FromPathsRun ==
  ASSUME Queues, Forward, FromPaths, Runs
  PROVE  FromPaths'
<1>1. UNCHANGED <<code, labels, scopes>>
  BY RunsIs DEF compiler, function
<1>2. /\ q # <<>> /\ Block.m_pc \notin covered
      /\ \E S : q \in Seq(S)
  BY RunsIs DEF Runs, Queues
<1>3. Reached(At(Visit))
  <2>1. 1 \in DOMAIN q /\ Block = q[1]
    BY <1>2, TailFacts DEF Block
  <2>2. Reached(PlaceOf(q[1]))
    BY <1>2, <2>1 DEF FromPaths
  <2>3. At(Visit) = PlaceOf(q[1])
    BY <2>1 DEF At, Visit, PlaceOf
  <2>4. QED
    BY <2>2, <2>3
<1>4. ASSUME NEW i \in DOMAIN visits'
      PROVE  At(visits'[i]) = Start \/ \E j \in 1..i - 1 : At(visits'[i]) \in After(visits'[j], TRUE)
  <2>1. CASE i \in DOMAIN visits
    <3>1. visits'[i] = visits[i]
      BY <2>1, VisitsAfterRun
    <3>2. \A j \in 1..i - 1 : j \in DOMAIN visits
      BY <2>1 DEF Queues
    <3>3. QED
      BY <2>1, <3>1, <3>2, VisitsAfterRun DEF FromPaths
  <2>2. CASE i \notin DOMAIN visits
    <3>1. visits'[i] = Visit /\ DOMAIN visits \subseteq 1..i - 1
      BY <2>2, VisitsAfterRun
    <3>2. QED
      BY <1>3, <3>1, VisitsAfterRun DEF Reached
  <2>3. QED
    BY <2>1, <2>2
<1>5. \A s : Reached(s) \/ s \in After(Visit, TRUE) =>
        s = Start \/ \E j \in DOMAIN visits' : s \in After(visits'[j], TRUE)
  BY VisitsAfterRun DEF Reached
<1>6. ASSUME NEW k \in DOMAIN q'
      PROVE  \/ k = 1 /\ q'[k].m_pc \in covered'
             \/ PlaceOf(q'[k]) = Start
             \/ \E j \in DOMAIN visits' : PlaceOf(q'[k]) \in After(visits'[j], TRUE)
  <2>1. CASE Old(q'[k])
    <3>1. PICK j \in DOMAIN q : j > 1 /\ q'[k] = q[j]
      BY <2>1 DEF Old
    <3>2. j # 1
      BY <3>1
    <3>3. Reached(PlaceOf(q'[k]))
      BY <3>1, <3>2 DEF FromPaths
    <3>4. QED
      BY <1>5, <3>3
  <2>2. CASE Comes(q'[k])
    BY <1>5, <2>2 DEF Comes
  <2>3. QED
    BY <2>1, <2>2, QueueAfterRun
<1>7. QED
  BY <1>1, <1>4, <1>6, FromPathsNext

LEMMA ErrorsOfMore ==
  ASSUME NEW V, NEW v
  PROVE  Errors(V \cup {v}) = Errors(V) \cup Errors({v})
BY DEF Errors

LEMMA FollowedRun ==
  ASSUME Queues, Runs
  PROVE  /\ action = "Move" => Followed' = Followed \cup {Visit}
         /\ action # "Move" => Followed' = Followed
<1>1. Visit[3] = action
  BY DEF Visit
<1>2. Followed' = {v \in ToSet(visits') : v[3] = "Move"}
  BY DEF Followed
<1>3. ToSet(visits') = ToSet(visits) \cup {Visit}
  BY VisitsAfterRun
<1>4. QED
  BY <1>1, <1>2, <1>3 DEF Followed

LEMMA ErrorsRun ==
  ASSUME Queues, OnlyErrors, AllErrors, Runs
  PROVE  OnlyErrors' /\ AllErrors'
<1> DEFINE printed == Report(Block, Instr)
           wrong == Errors({Visit})
           V == ToSet(visits)
<1>1. {r \in printed : r[1] \in Kinds} = wrong /\ wrong \subseteq printed
  BY ReportFacts DEF Visit, Instr
<1>2. reports' = reports \cup printed /\ UNCHANGED <<code, labels, scopes>>
  BY RunsIs DEF compiler, function
<1>3. Errors(ToSet(visits))' = Errors(V) \cup wrong
  <2>1. Errors(ToSet(visits))' = Errors(ToSet(visits'))
    BY <1>2 DEF Errors
  <2>2. ToSet(visits') = V \cup {Visit}
    BY VisitsAfterRun
  <2>3. QED
    BY <2>1, <2>2, ErrorsOfMore
<1>4. Errors(Followed)' \subseteq Errors(Followed) \cup wrong
  <2>1. Errors(Followed)' = Errors(Followed')
    BY <1>2 DEF Errors
  <2>2. Followed' = Followed \cup {Visit} \/ Followed' = Followed
    BY FollowedRun
  <2>3. QED
    BY <2>1, <2>2, ErrorsOfMore
<1> HIDE DEF printed, wrong, V
<1>5. OnlyErrors'
  BY <1>1, <1>2, <1>3 DEF OnlyErrors, V
<1>6. AllErrors'
  BY <1>1, <1>2, <1>4 DEF AllErrors
<1>7. QED
  BY <1>5, <1>6

\* The places paths go on at, in the next state.
LEMMA AllPathsNext ==
  ASSUME UNCHANGED <<code, labels, scopes>>,
         \A s \in InCode({Start} \cup UNION {After(v, FALSE) : v \in Followed'}) :
           \/ \E v \in Followed' : s = At(v)
           \/ \E k \in DOMAIN q' : s = PlaceOf(q'[k]) /\ (k = 1 => action' = "Move")
  PROVE  AllPaths'
<1>1. Start' = Start
  BY DEF Start, Args
<1>2. \A v : After(v, FALSE)' = After(v, FALSE)
  BY DEF After
<1>3. Frontier' = {Start} \cup UNION {After(v, FALSE) : v \in Followed'}
  BY <1>1, <1>2 DEF Frontier
<1>4. InCode(Frontier)' = InCode({Start} \cup UNION {After(v, FALSE) : v \in Followed'})
  BY <1>3 DEF InCode
<1>5. \A s : Visited(s)' <=> \E v \in Followed' : s = At(v)
  BY DEF Visited, At
<1>6. \A s : Waiting(s)' <=> \E k \in DOMAIN q' : s = PlaceOf(q'[k]) /\ (k = 1 => action' = "Move")
  BY DEF Waiting, PlaceOf
<1>7. QED
  BY <1>4, <1>5, <1>6 DEF AllPaths

LEMMA AllPathsRun ==
  ASSUME Queues, Forward, AllPaths, Runs
  PROVE  AllPaths'
<1>1. UNCHANGED <<code, labels, scopes>>
  BY RunsIs DEF compiler, function
<1>2. /\ action = "Move" => Followed' = Followed \cup {Visit}
      /\ action # "Move" => Followed' = Followed
  BY FollowedRun
<1>3. SUFFICES ASSUME NEW s \in InCode({Start} \cup UNION {After(v, FALSE) : v \in Followed'})
               PROVE  \/ \E v \in Followed' : s = At(v)
                      \/ \E k \in DOMAIN q' : s = PlaceOf(q'[k]) /\ (k = 1 => action' = "Move")
  BY <1>1, AllPathsNext
<1>4. s \in InCode(Frontier) \/ (action = "Move" /\ s \in After(Visit, FALSE))
  BY <1>2, <1>3 DEF InCode, Frontier
<1>5. CASE action = "Move" /\ s \in After(Visit, FALSE)
  BY <1>5, QueueAfterRun
<1>6. CASE Visited(s)
  BY <1>2, <1>6 DEF Visited
<1>7. CASE Waiting(s)
  <2>1. PICK k \in DOMAIN q : s = PlaceOf(q[k]) /\ (k = 1 => action = "Move")
    BY <1>7 DEF Waiting
  <2>2. CASE k > 1
    BY <2>1, <2>2, QueueAfterRun
  <2>3. CASE k = 1
    <3>1. Block = q[1]
      BY RunsIs, TailFacts DEF Block, Queues
    <3>2. s = At(Visit)
      BY <2>1, <2>3, <3>1 DEF At, Visit, PlaceOf
    <3>3. QED
      BY <1>2, <2>1, <2>3, <3>2
  <2>4. k > 1 \/ k = 1
    BY DEF Queues
  <2>5. QED
    BY <2>2, <2>3, <2>4
<1>8. QED
  BY <1>4, <1>5, <1>6, <1>7 DEF AllPaths

-----------------------------------------------------------------------------
(* The invariant where a closure ends.                                     *)

LEMMA FromPathsEnd ==
  ASSUME Queues, Forward, FromPaths, Ends
  PROVE  FromPaths'
<1>1. UNCHANGED <<code, labels, scopes, visits>>
  BY EndsIs DEF compiler, function
<1>2. ASSUME NEW k \in DOMAIN q'
      PROVE  PlaceOf(q'[k]) = Start \/ \E j \in DOMAIN visits' : PlaceOf(q'[k]) \in After(visits'[j], TRUE)
  <2>1. PICK j \in DOMAIN q : j > 1 /\ q'[k] = q[j]
    BY QueueAfterEnd DEF Old
  <2>2. j # 1
    BY <2>1
  <2>3. Reached(PlaceOf(q'[k]))
    BY <2>1, <2>2 DEF FromPaths
  <2>4. QED
    BY <1>1, <2>3 DEF Reached
<1>3. \A i \in DOMAIN visits' :
        At(visits'[i]) = Start \/ \E j \in 1..i - 1 : At(visits'[i]) \in After(visits'[j], TRUE)
  BY <1>1 DEF FromPaths
<1>4. QED
  BY <1>1, <1>2, <1>3, FromPathsNext

LEMMA AllPathsEnd ==
  ASSUME Queues, Forward, AllPaths, Ends
  PROVE  AllPaths'
<1>1. UNCHANGED <<code, labels, scopes, visits>> /\ Followed' = Followed /\ action' = "Move"
  BY EndsIs DEF compiler, function, Followed
<1>2. SUFFICES ASSUME NEW s \in InCode({Start} \cup UNION {After(v, FALSE) : v \in Followed'})
               PROVE  \/ \E v \in Followed' : s = At(v)
                      \/ \E k \in DOMAIN q' : s = PlaceOf(q'[k]) /\ (k = 1 => action' = "Move")
  BY <1>1, AllPathsNext
<1>3. s \in InCode(Frontier) /\ s[1] \in 1..Len(code)
  BY <1>1, <1>2 DEF InCode, Frontier
<1>4. CASE Visited(s)
  BY <1>1, <1>4 DEF Visited
<1>5. CASE Waiting(s)
  <2>1. PICK k \in DOMAIN q : s = PlaceOf(q[k]) /\ (k = 1 => action = "Move")
    BY <1>5 DEF Waiting
  <2>2. k # 1
    <3>1. SUFFICES ASSUME k = 1 PROVE FALSE
      OBVIOUS
    <3>2. Block = q[1]
      BY EndsIs, TailFacts DEF Block, Queues
    <3>3. s[1] = Block.m_pc /\ action = "Move"
      BY <2>1, <3>1, <3>2 DEF PlaceOf
    <3>4. Block.m_pc \in covered
      BY <1>3, <3>3 DEF Ends
    <3>5. Block.m_pc \in Int /\ Block.m_pc < Block.m_pc
      BY <3>3, <3>4 DEF Forward
    <3>6. QED
      BY <3>5
  <2>3. k > 1
    BY <2>2 DEF Queues
  <2>4. QED
    BY <1>1, <2>1, <2>3, QueueAfterEnd
<1>6. QED
  BY <1>3, <1>4, <1>5 DEF AllPaths

LEMMA RunInv ==
  ASSUME Body, Runs
  PROVE  Body'
BY QueuesRun, QueueAfterRun, FromPathsRun, ErrorsRun, AllPathsRun DEF Body

LEMMA EndInv ==
  ASSUME Body, Ends
  PROVE  Body'
<1>1. UNCHANGED <<code, labels, scopes, reports, visits>> /\ Followed' = Followed
  BY EndsIs DEF compiler, function, Followed
<1>2. Queues'
  <2>1. \A k \in DOMAIN q' : DOMAIN q'[k] = Keys
    BY QueueAfterEnd DEF Old, Queues, Body
  <2>2. QED
    BY <1>1, <2>1, QueueAfterEnd DEF Queues, Body
<1>3. OnlyErrors' /\ AllErrors'
  <2>1. Errors(ToSet(visits))' = Errors(ToSet(visits)) /\ Errors(Followed)' = Errors(Followed)
    BY <1>1 DEF Errors
  <2>2. QED
    BY <1>1, <2>1 DEF OnlyErrors, AllErrors, Body
<1>4. QED
  BY <1>2, <1>3, QueueAfterEnd, FromPathsEnd, AllPathsEnd DEF Body

-----------------------------------------------------------------------------
(* The invariant holds.                                                    *)

LEMMA VerifyFuncInv ==
  ASSUME Inv, VerifyFunc
  PROVE  Inv'
<1> DEFINE b == [m_pc |-> 1, size |-> 0, m_vars |-> Args]
<1>1. /\ verifying = "no" /\ verifying' = "yes" /\ Compiled /\ q' = <<b>>
      /\ UNCHANGED <<compiler, covered, action, reports, visits>>
  BY DEF VerifyFunc
<1>2. covered' = {} /\ action' = "Move" /\ reports' = {} /\ visits' = <<>> /\ UNCHANGED <<code, labels, scopes>>
  BY <1>1 DEF Inv, Idle, compiler, function
<1>3. DOMAIN b = Keys /\ PlaceOf(b) = Start
  BY DEF Keys, PlaceOf, Start
<1> HIDE DEF b
<1>4. q' \in Seq({b}) /\ DOMAIN q' = {1} /\ q'[1] = b
  BY <1>1
<1>5. Queues'
  <2>1. visits' \in Seq({b})
    BY <1>2
  <2>2. QED
    BY <1>3, <1>4, <2>1 DEF Queues
<1>6. Forward'
  BY <1>2 DEF Forward
<1>7. ToSet(visits)' = {} /\ Followed' = {} /\ DOMAIN visits' = {}
  <2>1. DOMAIN visits' = {}
    BY <1>2
  <2>2. ToSet(visits)' = {}
    BY <2>1 DEF ToSet
  <2>3. QED
    BY <2>1, <2>2 DEF Followed
<1>8. FromPaths'
  <2>1. \A k \in DOMAIN q' : PlaceOf(q'[k]) = Start
    BY <1>3, <1>4
  <2>2. QED
    BY <1>2, <1>7, <2>1, FromPathsNext
<1>9. OnlyErrors' /\ AllErrors'
  BY <1>2, <1>7 DEF OnlyErrors, AllErrors, Errors
<1>10. AllPaths'
  <2>1. \A s \in InCode({Start} \cup UNION {After(v, FALSE) : v \in Followed'}) : s = Start
    BY <1>7 DEF InCode
  <2>2. QED
    BY <1>2, <1>3, <1>4, <2>1, AllPathsNext
<1>11. Compiled'
  BY <1>1 DEF Compiled, compiler, function
<1>12. QED
  BY <1>1, <1>5, <1>6, <1>8, <1>9, <1>10, <1>11 DEF Inv, Idle, Body

LEMMA IterateInv ==
  ASSUME Inv, Iterate
  PROVE  Inv'
<1>1. verifying = "yes" /\ UNCHANGED <<compiler, verifying>>
  BY DEF Iterate
<1>2. Body /\ Compiled
  BY <1>1 DEF Inv, Idle
<1>3. Body'
  BY <1>2, RunInv, EndInv DEF Runs, Ends
<1>4. Compiled'
  BY <1>1, <1>2 DEF Compiled, compiler, function
<1>5. QED
  BY <1>1, <1>3, <1>4 DEF Inv, Idle

LEMMA BodyStays ==
  ASSUME Body, UNCHANGED <<code, labels, scopes, q, covered, action, reports, visits>>
  PROVE  Body'
<1>1. Queues' /\ Forward'
  BY DEF Body, Queues, Forward, Block
<1>2. FromPaths'
  <2>1. \A k \in DOMAIN q' :
          \/ k = 1 /\ q'[k].m_pc \in covered'
          \/ PlaceOf(q'[k]) = Start
          \/ \E j \in DOMAIN visits' : PlaceOf(q'[k]) \in After(visits'[j], TRUE)
    BY DEF Body, FromPaths, Reached
  <2>2. \A i \in DOMAIN visits' :
          At(visits'[i]) = Start \/ \E j \in 1..i - 1 : At(visits'[i]) \in After(visits'[j], TRUE)
    BY DEF Body, FromPaths
  <2>3. QED
    BY <2>1, <2>2, FromPathsNext
<1>3. Followed' = Followed
  BY DEF Followed
<1>4. OnlyErrors' /\ AllErrors'
  <2>1. Errors(ToSet(visits))' = Errors(ToSet(visits)) /\ Errors(Followed)' = Errors(Followed)
    BY <1>3 DEF Errors
  <2>2. QED
    BY <2>1 DEF OnlyErrors, AllErrors, Body
<1>5. AllPaths'
  <2>1. \A s \in InCode({Start} \cup UNION {After(v, FALSE) : v \in Followed'}) :
          \/ \E v \in Followed' : s = At(v)
          \/ \E k \in DOMAIN q' : s = PlaceOf(q'[k]) /\ (k = 1 => action' = "Move")
    BY <1>3 DEF Body, AllPaths, Frontier, Visited, Waiting
  <2>2. QED
    BY <2>1, AllPathsNext
<1>6. QED
  BY <1>1, <1>2, <1>4, <1>5 DEF Body

LEMMA NextInv == Inv /\ [Next]_vars => Inv'
<1> SUFFICES ASSUME Inv, [Next]_vars PROVE Inv'
  OBVIOUS
<1>1. CASE CompileNext
  <2>1. Compiling /\ UNCHANGED <<verifying, q, covered, action, reports, visits>>
    BY <1>1, CompilesOnlyBefore DEF CompileNext, verifier
  <2>2. verifying = "no"
    BY <2>1 DEF Inv, Idle, Compiling, Compiled
  <2>3. QED
    BY <2>1, <2>2 DEF Inv, Idle
<1>2. CASE VerifyFunc
  BY <1>2, VerifyFuncInv
<1>3. CASE Iterate
  BY <1>3, IterateInv
<1>4. CASE VerifyReturns
  <2>1. /\ verifying = "yes" /\ q = <<>> /\ verifying' = "done"
        /\ UNCHANGED <<code, labels, scopes, todo, failed, q, covered, action, reports, visits>>
    BY <1>4 DEF VerifyReturns, compiler, function
  <2>2. Body' /\ Compiled'
    BY <2>1, BodyStays DEF Inv, Idle, Compiled
  <2>3. QED
    BY <2>1, <2>2 DEF Inv, Idle
<1>5. CASE UNCHANGED vars
  <2>1. UNCHANGED <<code, labels, scopes, todo, failed, verifying, q, covered, action, reports, visits>>
    BY <1>5 DEF vars, compiler, function, verifier
  <2>2. Idle'
    BY <2>1 DEF Inv, Idle, Compiled
  <2>3. verifying # "no" => Body'
    BY <2>1, BodyStays DEF Inv
  <2>4. QED
    BY <2>1, <2>2, <2>3 DEF Inv
<1>6. QED
  BY <1>1, <1>2, <1>3, <1>4, <1>5 DEF Next, Terminated

\* The closures that wait are where some path goes on, and all such places up to a
\* jump are visited or waited for: verifyFunc and iterate() keep it so in any code.
THEOREM Invariance == Spec => []Inv
<1>1. Init => Inv
  BY DEF Init, Inv, Idle
<1>2. QED
  BY <1>1, NextInv, PTL DEF Spec

\* ReportsAreReal, of any code: what the verifier says of a variable is wrong on
\* some path to the instruction, the branches it forks at included.
THEOREM RealCorrect == Spec => []ReportsAreReal
<1>1. Inv => ReportsAreReal
  BY DEF Inv, Body, FromPaths, OnlyErrors, Kinds, ReportsAreReal
<1>2. QED
  BY <1>1, Invariance, PTL

\* ReportsUpToJumps, of any code: when the queue of closures is empty, nothing that
\* is wrong before the first jump of a path has been missed.
THEOREM UpToJumpsCorrect == Spec => []ReportsUpToJumps
<1>1. ASSUME Inv, verifying = "done"
      PROVE  InCode(Frontier) \subseteq {At(v) : v \in Followed}
  <2>1. q = <<>> /\ AllPaths
    BY <1>1 DEF Inv, Idle, Body
  <2>2. \A s : ~Waiting(s)
    BY <2>1 DEF Waiting
  <2>3. QED
    BY <2>1, <2>2 DEF AllPaths, Visited
<1>2. Inv => ReportsUpToJumps
  BY <1>1 DEF Inv, Body, AllErrors, Frontier, ReportsUpToJumps
<1>3. QED
  BY <1>2, Invariance, PTL

-----------------------------------------------------------------------------
(* What the compiler does is the same in PraeRunProofs, whose theorems are  *)
(* used here as long as no function runs.                                  *)

R == INSTANCE PraeRunProofs WITH pc <- 0, operands <- <<>>, stored <- <<>>, truth <- <<>>

LEMMA SameItems ==
  /\ \A n : Node(n) = R!Node(n)
  /\ \A op : Ins(op) = R!Ins(op)
  /\ \A op, l : Jump(op, l) = R!Jump(op, l)
  /\ \A a : Msg(a) = R!Msg(a)
  /\ \A x : LoadName(x) = R!LoadName(x)
  /\ \A x : StoreName(x) = R!StoreName(x)
  /\ \A x : BindName(x) = R!BindName(x)
  /\ OpenScope = R!OpenScope /\ ApplyScope = R!ApplyScope
  /\ \A l : ApplyNew(l) = R!ApplyNew(l) /\ ApplyIds(l) = R!ApplyIds(l)
  /\ \A l : Own(l) = R!Own(l) /\ Label(l) = R!Label(l)
  /\ \A k : NewLabel(k) = R!NewLabel(k)
  /\ \A names : Where(names) = R!Where(names)
BY DEF Node, R!Node, Ins, R!Ins, Jump, R!Jump, Msg, R!Msg, LoadName, R!LoadName, StoreName, R!StoreName,
   BindName, R!BindName, OpenScope, R!OpenScope, ApplyScope, R!ApplyScope, ApplyNew, R!ApplyNew,
   ApplyIds, R!ApplyIds, Own, R!Own, Label, R!Label, NewLabel, R!NewLabel, Where, R!Where

LEMMA SameEmitting ==
  ASSUME NEW node, NEW cost, NEW n, NEW items, Emitting(node, cost, n, items)
  PROVE  R!Emitting(node, cost, n, items)
BY DEF Emitting, R!Emitting, Compiling, R!Compiling, BeginLabels, R!BeginLabels, NoPos, R!NoPos

LEMMA SameParts ==
  /\ \A flags, x : Paren(flags, x) = R!Paren(flags, x)
  /\ \A k : Curried(k) = R!Curried(k)
  /\ \A x, op : SAssign(x, op) = R!SAssign(x, op)
BY SameItems DEF Paren, R!Paren, Curried, R!Curried, SAssign, R!SAssign

LEMMA SameBranches ==
  ASSUME NEW x, NEW c, NEW e
  PROVE Branches(x, c, e) = R!Branches(x, c, e)
BY SameItems, SameParts DEF Branches, R!Branches

LEMMA SameLoop ==
  ASSUME NEW x, NEW e
  PROVE Loop(x, e) = R!Loop(x, e)
BY SameItems, SameParts DEF Loop, R!Loop

LEMMA SameNodes ==
  ASSUME EmitNode
  PROVE  R!EmitNode
<1>1. ASSUME LoadLiteral \/ LoadIdentifier \/ LoadXInfix \/ LoadXUnary \/ LoadInc PROVE R!EmitNode
  BY <1>1, SameEmitting, SameItems DEF R!EmitNode, LoadLiteral, R!LoadLiteral, LoadIdentifier, R!LoadIdentifier,
     LoadXInfix, R!LoadXInfix, LoadXUnary, R!LoadXUnary, LoadInc, R!LoadInc
<1>2. ASSUME LoadXMsg \/ LoadTuple \/ LoadXParen \/ LoadXBlock PROVE R!EmitNode
  BY <1>2, SameEmitting, SameItems, SameParts DEF R!EmitNode, LoadXMsg, R!LoadXMsg, LoadTuple, R!LoadTuple,
     LoadXParen, R!LoadXParen, LoadXBlock, R!LoadXBlock
<1>3. ASSUME LoadXControl \/ EmitIf \/ EmitLoop PROVE R!EmitNode
  BY <1>3, SameEmitting, SameItems, SameBranches, SameLoop DEF R!EmitNode, LoadXControl, R!LoadXControl,
     EmitIf, R!EmitIf, EmitLoop, R!EmitLoop
<1>4. ASSUME EmitStmts \/ EmitExpr \/ EmitDecl \/ EmitAssign PROVE R!EmitNode
  BY <1>4, SameEmitting, SameItems, SameParts DEF R!EmitNode, EmitStmts, R!EmitStmts, EmitExpr, R!EmitExpr,
     EmitDecl, R!EmitDecl, EmitAssign, R!EmitAssign
<1>5. ASSUME LoadAssignValue \/ EmitBinding \/ EmitReturn PROVE R!EmitNode
  BY <1>5, SameEmitting, SameItems, SameParts DEF R!EmitNode, LoadAssignValue, R!LoadAssignValue,
     EmitBinding, R!EmitBinding, EmitReturn, R!EmitReturn
<1>6. QED
  BY <1>1, <1>2, <1>3, <1>4, <1>5 DEF EmitNode

LEMMA SameScopes ==
  /\ \A f, k, v : With(f, k, v) = R!With(f, k, v)
  /\ \A id : Scope(id) = R!Scope(id)
  /\ \A sc : Top(sc) = R!Top(sc)
  /\ \A sc, x : Known(sc, x) <=> R!Known(sc, x)
  /\ \A sc, x : HolderOf(sc, x) = R!HolderOf(sc, x)
  /\ \A sc, k, x : VarOf(sc, k, x) = R!VarOf(sc, k, x)
  /\ \A s : Modified(s) = R!Modified(s) /\ Owned(s) = R!Owned(s)
  /\ \A sc, x : DeclOf(sc, x) = R!DeclOf(sc, x)
  /\ COUNT_CONST = R!COUNT_CONST /\ NoDecl = R!NoDecl
<1>1. \A f, k, v : With(f, k, v) = R!With(f, k, v)
  BY DEF With, R!With
<1>2. \A S : Max(S) = R!Max(S)
  BY DEF Max, R!Max
<1>3. \A sc, x : HolderOf(sc, x) = R!HolderOf(sc, x)
  BY <1>2 DEF HolderOf, R!HolderOf
<1>4. \A sc, x : DeclOf(sc, x) = R!DeclOf(sc, x)
  BY <1>2 DEF DeclOf, R!DeclOf
<1>5. /\ \A id : Scope(id) = R!Scope(id)
      /\ \A sc : Top(sc) = R!Top(sc)
      /\ \A sc, x : Known(sc, x) <=> R!Known(sc, x)
      /\ \A sc, k, x : VarOf(sc, k, x) = R!VarOf(sc, k, x)
      /\ \A s : Modified(s) = R!Modified(s) /\ Owned(s) = R!Owned(s)
  BY DEF Scope, R!Scope, Top, R!Top, Known, R!Known, VarOf, R!VarOf, Modified, R!Modified, Owned, R!Owned
<1>6. COUNT_CONST = R!COUNT_CONST /\ NoDecl = R!NoDecl
  BY DEF COUNT_CONST, R!COUNT_CONST, NoDecl, R!NoDecl
<1>7. QED
  BY <1>1, <1>3, <1>4, <1>5, <1>6

LEMMA SameRecords ==
  /\ \A sc, k, x, phi, count : RecordVar(sc, k, x, phi, count) = R!RecordVar(sc, k, x, phi, count)
  /\ \A sc, x : Get(sc, x) = R!Get(sc, x)
  /\ \A sc, x : Mutable(sc, x) <=> R!Mutable(sc, x)
BY SameScopes DEF RecordVar, R!RecordVar, Get, R!Get, Mutable, R!Mutable

LEMMA SameStores ==
  /\ \A sc, x : Set(sc, x) = R!Set(sc, x)
  /\ \A sc, x, mut : Bind(sc, x, mut) = R!Bind(sc, x, mut)
  /\ \A sc, k, x : Phi(sc, k, x) = R!Phi(sc, k, x)
BY SameScopes, SameRecords DEF Set, R!Set, Bind, R!Bind, Phi, R!Phi

LEMMA SameCalls ==
  ASSUME MakeCall
  PROVE  R!MakeCall
<1>1. ASSUME NEW do, Calls(do) PROVE R!Calls(do)
  BY <1>1 DEF Calls, R!Calls, Compiling, R!Compiling
<1>2. ASSUME Returned PROVE R!Returned
  BY <1>2 DEF Returned, R!Returned
<1>3. Call = R!Call
  BY DEF Call, R!Call
<1>4. ASSUME NEW ins, Emit(ins) PROVE R!Emit(ins)
  BY <1>4 DEF Emit, R!Emit
<1>5. CASE EmitIns \/ EnterScope \/ PlaceLabel
  BY <1>1, <1>2, <1>3, <1>4, <1>5, SameScopes DEF R!MakeCall, EmitIns, R!EmitIns, EnterScope, R!EnterScope,
     PlaceLabel, R!PlaceLabel, PushScope, R!PushScope, Place, R!Place
<1>6. CASE GetName
  BY <1>1, <1>2, <1>3, <1>4, <1>6, SameScopes, SameRecords DEF R!MakeCall, GetName, R!GetName,
     Loadable, R!Loadable, LoadVar, R!LoadVar
<1>7. ASSUME NEW sc, NEW x, StoredAs(sc, x) PROVE R!StoredAs(sc, x)
  BY <1>7, SameScopes, SameRecords DEF StoredAs, R!StoredAs
<1>8. CASE SetName
  BY <1>1, <1>2, <1>3, <1>7, <1>8, SameScopes, SameRecords, SameStores DEF R!MakeCall, SetName, R!SetName,
     Storable, R!Storable, Loadable, R!Loadable, StoreVar, R!StoreVar
<1>9. CASE BindNew
  BY <1>1, <1>3, <1>7, <1>9, SameScopes, SameStores DEF R!MakeCall, BindNew, R!BindNew, BindVar, R!BindVar
<1>10. ASSUME NEW p, NEW left, NEW l, NEW add PROVE Merging(p, left, l, add) = R!Merging(p, left, l, add)
  BY DEF Merging, R!Merging
<1>11. CASE LeaveScope
  <2>1. ASSUME PopScope PROVE R!PopScope
    BY <2>1 DEF PopScope, R!PopScope, Front, R!Front
  <2>2. QED
    BY <1>1, <1>3, <1>10, <1>11, <2>1, SameScopes DEF R!MakeCall, LeaveScope, R!LeaveScope
<1>12. ASSUME NEW p, NEW l, NEW add, NEW x, Merge(p, l, add, x) PROVE R!Merge(p, l, add, x)
  BY <1>12, SameScopes, SameStores DEF Merge, R!Merge
<1>13. CASE MergeName
  BY <1>1, <1>3, <1>10, <1>12, <1>13 DEF R!MakeCall, MergeName, R!MergeName
<1>14. CASE OwnIds
  BY <1>1, <1>2, <1>3, <1>14, SameScopes DEF R!MakeCall, OwnIds, R!OwnIds, RecordOwned, R!RecordOwned
<1>15. QED
  BY <1>5, <1>6, <1>8, <1>9, <1>11, <1>13, <1>14 DEF MakeCall

LEMMA SameCompile ==
  ASSUME Compile
  PROVE  R!Compile
<1>1. CASE EmitNode
  BY <1>1, SameNodes DEF R!Compile
<1>2. CASE MakeCall
  BY <1>2, SameCalls DEF R!Compile
<1>3. CASE Error
  BY <1>3, SameScopes, SameRecords DEF R!Compile, Error, R!Error, Calls, R!Calls, Compiling, R!Compiling, Call, R!Call,
     Loadable, R!Loadable, Storable, R!Storable, function, R!function
<1>4. QED
  BY <1>1, <1>2, <1>3 DEF Compile

LEMMA SameInit ==
  ASSUME CompilerInit
  PROVE  R!CompilerInit
BY SameItems, SameScopes DEF CompilerInit, R!CompilerInit, FunctionInit, R!FunctionInit

-----------------------------------------------------------------------------
(* The operand stack of a closure.                                         *)

NoCurries == "curry" \notin Construct

\* The closure b waits where the stack of every path is as high as its own.
Level(b, hc) == b.m_pc \in 1..Len(code) /\ b.size \in Nat /\ b.size = hc[b.m_pc]
Covered(b) == b.m_pc \in 1..Len(code) /\ b.size \in Nat /\ b.m_pc \in covered

Levelled(lh, hc) ==
  /\ lh \in [R!Old -> Nat] /\ R!Heights(code, labels, lh, hc)
  /\ covered \subseteq 1..Len(code)
  /\ \A k \in DOMAIN q : Level(q[k], hc) \/ (k = 1 /\ Covered(q[k]))

Stacks ==
  /\ R!Flowing /\ R!Ends
  /\ verifying # "no" => \E lh, hc : Levelled(lh, hc)

LEMMA SameAssumption ==
  /\ Construct \subseteq R!Constructs
  /\ Redeclares \in BOOLEAN
  /\ MaxPieces \in Nat
  /\ NoName \notin Name
BY CompilerAssumption DEF Constructs, R!Constructs

LEMMA CodeFacts ==
  ASSUME R!Flowing, R!Ends, Compiled
  PROVE  /\ R!IsSeq(code) /\ Len(code) \in Nat /\ 1 \in 1..Len(code) /\ code[Len(code)].op = "ret"
         /\ \A l \in R!Old : labels[l] \in 1..Len(code)
         /\ \E lh, hc : lh \in [R!Old -> Nat] /\ R!Heights(code, labels, lh, hc)
<1>1. R!Compiled
  BY DEF Compiled, R!Compiled
<1>2. R!WellFormed
  BY <1>1, R!CompiledWell, SameAssumption
<1>3. QED
  BY <1>2, R!SeqFacts, SameAssumption DEF R!WellFormed

\* What an instruction does to a closure where the stack is as high as it should be.
LEMMA EffectLevels ==
  ASSUME NoCurries, NEW b, DOMAIN b = Keys, NEW ins, NEW h1 \in Nat, NEW h2 \in Nat, NEW lh,
         R!StackStep(ins, h1, h2, lh), b.size = h1
  PROVE  ins.op \notin {"br", "ret"} => Effect(b, ins).size = h2
<1>0. R!NoCurries
  BY DEF NoCurries, R!NoCurries
<1>1. CASE ins.op \in {"ldc", "dup", "ldvar"}
  BY <1>1 DEF Effect, Keys, R!StackStep
<1>2. CASE ins.op \in {"pop", "bez", "bnz", "stvar"}
  BY <1>2 DEF Effect, Keys, R!StackStep
<1>3. CASE ins.op = "msg"
  BY <1>0, <1>3 DEF Effect, Keys, HandlePHOp, R!StackStep
<1>4. QED
  BY <1>1, <1>2, <1>3 DEF R!StackStep

LEMMA EffectSame ==
  ASSUME NEW b, DOMAIN b = Keys, NEW ins, ins.op \in {"br", "ret"}
  PROVE  Effect(b, ins) = b
BY DEF Effect

\* The code and the labels where a closure is.
Sited == R!IsSeq(code) /\ Len(code) \in Nat /\ code[Len(code)].op = "ret"
         /\ \A l \in R!Old : labels[l] \in 1..Len(code)

LEMMA HeightAt ==
  ASSUME Sited, NEW lh, NEW hc, lh \in [R!Old -> Nat], R!Heights(code, labels, lh, hc), NEW p \in 1..Len(code)
  PROVE  /\ hc[p] \in Nat /\ hc[p + 1] \in Nat /\ R!StackStep(code[p], hc[p], hc[p + 1], lh)
         /\ code[p].op # "ret" => p + 1 \in 1..Len(code)
         /\ code[p].op \in {"bez", "bnz", "br"} =>
              labels[code[p].label] \in 1..Len(code) /\ hc[labels[code[p].label]] = lh[code[p].label]
<1>1. hc[p] \in Nat /\ hc[p + 1] \in Nat /\ R!StackStep(code[p], hc[p], hc[p + 1], lh)
  BY DEF R!Heights, Sited
<1>2. code[p].op # "ret" => p + 1 \in 1..Len(code)
  BY DEF Sited
<1>3. ASSUME code[p].op \in {"bez", "bnz", "br"}
      PROVE  labels[code[p].label] \in 1..Len(code) /\ hc[labels[code[p].label]] = lh[code[p].label]
  <2>1. code[p].label \in R!Old
    BY <1>1, <1>3 DEF R!StackStep
  <2>2. labels[code[p].label] \in 1..Len(code) /\ labels[code[p].label] # R!NoPos
    BY <2>1 DEF Sited, R!NoPos
  <2>3. QED
    BY <2>1, <2>2 DEF R!Heights, R!Old
<1>4. QED
  BY <1>1, <1>2, <1>3

LEMMA RunLevels ==
  ASSUME NoCurries, Sited, Queues, Forward, Runs, NEW lh, NEW hc, Levelled(lh, hc)
  PROVE  /\ covered' \subseteq 1..Len(code)
         /\ \A k \in DOMAIN q' :
              \/ Level(q'[k], hc)
              \/ k = 1 /\ q'[k].m_pc \in 1..Len(code) /\ q'[k].size \in Nat /\ q'[k].m_pc \in covered'
<1>1. q # <<>> /\ Block.m_pc \in 1..Len(code) /\ Block.m_pc \notin covered
  BY RunsIs DEF Runs
<1>2. PICK S : q \in Seq(S)
  BY DEF Queues
<1>3. 1 \in DOMAIN q /\ Block = q[1] /\ DOMAIN Block = Keys
  BY <1>1, <1>2, TailFacts DEF Queues, Block
<1>4. Level(Block, hc)
  BY <1>1, <1>3 DEF Levelled, Covered
<1> PICK p : p = Block.m_pc
  OBVIOUS
<1>5. p \in 1..Len(code) /\ Block.size = hc[p] /\ Instr = code[p]
  BY <1>1, <1>4 DEF Level, Instr
<1>6. /\ hc[p] \in Nat /\ hc[p + 1] \in Nat /\ R!StackStep(Instr, hc[p], hc[p + 1], lh)
      /\ Instr.op # "ret" => p + 1 \in 1..Len(code)
      /\ Instr.op \in {"bez", "bnz", "br"} =>
           labels[Instr.label] \in 1..Len(code) /\ hc[labels[Instr.label]] = lh[Instr.label]
  <2>1. lh \in [R!Old -> Nat] /\ R!Heights(code, labels, lh, hc)
    BY DEF Levelled
  <2>2. /\ hc[p] \in Nat /\ hc[p + 1] \in Nat /\ R!StackStep(code[p], hc[p], hc[p + 1], lh)
        /\ code[p].op # "ret" => p + 1 \in 1..Len(code)
        /\ code[p].op \in {"bez", "bnz", "br"} =>
             labels[code[p].label] \in 1..Len(code) /\ hc[labels[code[p].label]] = lh[code[p].label]
    BY <1>5, <2>1, HeightAt, SMTT(30)
  <2> HIDE DEF Instr
  <2>3. QED
    BY <1>5, <2>2
<1>7. Instr.op \notin {"br", "ret"} => Effected.size = hc[p + 1]
  <2> PICK b, ins : b = Block /\ ins = Instr
    OBVIOUS
  <2>1. ins.op \notin {"br", "ret"} => Effect(b, ins).size = hc[p + 1]
    BY <1>3, <1>5, <1>6, EffectLevels
  <2>2. QED
    BY <2>1 DEF Effected
<1>8. Instr.op \in {"br", "ret"} => Effected.size = hc[p]
  BY <1>3, <1>5, EffectSame DEF Effected
<1>9. /\ DOMAIN Effected = Keys /\ Effected.m_pc = p
  BY <1>1, EffectedFacts
<1>10. \A k \in DOMAIN Rest : Level(Rest[k], hc)
  <2> DEFINE F == ForkedAt(Effected, Instr)
             f == Forked(Effected, labels[Instr.label])
  <2>1. ASSUME Instr.op \in {"bez", "bnz"} PROVE Level(f, hc) /\ F = <<f>>
    <3>1. f.m_pc = labels[Instr.label] /\ f.size = Effected.size
      BY <1>9 DEF Forked, Keys
    <3>2. lh[Instr.label] = hc[p + 1]
      BY <1>6, <2>1 DEF R!StackStep
    <3>3. F = <<f>>
      BY <2>1 DEF ForkedAt
    <3> HIDE DEF f
    <3>4. QED
      BY <1>6, <1>7, <2>1, <3>1, <3>2, <3>3 DEF Level
  <2>2. Instr.op \notin {"bez", "bnz"} => F = <<>>
    BY DEF ForkedAt
  <2> HIDE DEF f, F
  <2>3. F \in Seq(S \cup {f}) /\ \A k \in DOMAIN F : Level(F[k], hc)
    <3>1. CASE F = <<>>
      BY <3>1
    <3>2. CASE F = <<f>> /\ Level(f, hc)
      BY <3>2
    <3>3. QED
      BY <2>1, <2>2, <3>1, <3>2
  <2>4. Tail(q) \in Seq(S) /\ \A k \in DOMAIN Tail(q) : k + 1 \in DOMAIN q /\ k + 1 > 1 /\ Tail(q)[k] = q[k + 1]
    BY <1>1, <1>2, TailFacts
  <2>5. \A k \in DOMAIN Tail(q) : Level(Tail(q)[k], hc)
    <3> SUFFICES ASSUME NEW k \in DOMAIN Tail(q) PROVE Level(Tail(q)[k], hc)
      OBVIOUS
    <3>1. k + 1 \in DOMAIN q /\ k + 1 # 1 /\ Tail(q)[k] = q[k + 1]
      <4>1. k \in Nat /\ k > 0
        BY <2>4
      <4>2. QED
        BY <2>4, <4>1
    <3>2. QED
      BY <3>1 DEF Levelled
  <2>6. Tail(q) \in Seq(S \cup {f})
    BY <2>4, SeqOfMore
  <2>7. \A k \in DOMAIN (Tail(q) \o F) :
          \/ k \in DOMAIN Tail(q) /\ (Tail(q) \o F)[k] = Tail(q)[k]
          \/ k - Len(Tail(q)) \in DOMAIN F /\ (Tail(q) \o F)[k] = F[k - Len(Tail(q))]
    BY <2>3, <2>6, JoinFacts
  <2>8. Rest = Tail(q) \o F
    BY DEF Rest, F
  <2>9. QED
    BY <2>3, <2>5, <2>7, <2>8
<1>11. PICK T : Rest \in Seq(T)
  BY <1>1, RestFacts
<1>12. CASE Action(Instr) = "Stop"
  <2>1. q' = Rest /\ covered' = {}
    BY <1>12, RunsIs
  <2>2. QED
    BY <1>10, <2>1
<1>13. CASE Action(Instr) # "Stop"
  <2> DEFINE m == Moved(Action(Instr))
  <2>1. q' = <<m>> \o Rest /\ covered' = covered \cup {p}
    BY <1>13, RunsIs
  <2>2. /\ Instr.op # "ret" /\ Action(Instr) \in {"Move", "Stay"}
        /\ Action(Instr) = "Move" => Instr.op # "br"
    BY <1>13 DEF Action, Forward
  <2>3. m.size = Effected.size
        /\ m.m_pc = LET pc == IF Instr.op = "br" THEN labels[Instr.label] ELSE p IN
                    IF Action(Instr) = "Move" THEN pc + 1 ELSE pc
    BY <1>9 DEF Moved, Keys
  <2>4. \/ Level(m, hc)
        \/ m.m_pc \in 1..Len(code) /\ m.size \in Nat /\ m.m_pc \in covered'
    <3>1. CASE Instr.op = "br"
      <4>1. lh[Instr.label] = hc[p] /\ m.m_pc = labels[Instr.label]
        BY <1>6, <2>2, <2>3, <3>1 DEF R!StackStep
      <4> HIDE DEF m
      <4>2. QED
        BY <1>6, <1>8, <2>3, <3>1, <4>1 DEF Level
    <3>2. CASE Instr.op # "br" /\ Action(Instr) = "Move"
      <4>1. m.m_pc = p + 1
        BY <2>3, <3>2
      <4> HIDE DEF m
      <4>2. QED
        BY <1>6, <1>7, <2>2, <2>3, <3>2, <4>1 DEF Level
    <3>3. CASE Instr.op # "br" /\ Action(Instr) = "Stay"
      <4>1. m.m_pc = p
        BY <2>3, <3>3
      <4> HIDE DEF m
      <4>2. QED
        BY <1>5, <1>6, <1>7, <2>1, <2>2, <2>3, <3>3, <4>1
    <3>4. QED
      BY <2>2, <3>1, <3>2, <3>3
  <2> HIDE DEF m
  <2>5. <<m>> \in Seq(T \cup {m}) /\ DOMAIN <<m>> = {1} /\ Len(<<m>>) = 1 /\ <<m>>[1] = m
    OBVIOUS
  <2>6. Rest \in Seq(T \cup {m})
    BY <1>11, SeqOfMore
  <2>7. \A k \in DOMAIN (<<m>> \o Rest) :
          \/ k \in DOMAIN <<m>> /\ (<<m>> \o Rest)[k] = <<m>>[k]
          \/ k - Len(<<m>>) \in DOMAIN Rest /\ (<<m>> \o Rest)[k] = Rest[k - Len(<<m>>)]
    BY <2>5, <2>6, JoinFacts
  <2>8. \A k \in DOMAIN q' : (k = 1 /\ q'[k] = m) \/ Level(q'[k], hc)
    BY <1>10, <2>1, <2>5, <2>7
  <2>9. covered' \subseteq 1..Len(code)
    BY <1>5, <2>1 DEF Levelled
  <2>10. QED
    BY <2>4, <2>8, <2>9
<1>14. QED
  BY <1>12, <1>13

LEMMA EndLevels ==
  ASSUME Queues, Ends, NEW lh, NEW hc, Levelled(lh, hc)
  PROVE  covered' = {} /\ \A k \in DOMAIN q' : Level(q'[k], hc)
<1>1. PICK S : q \in Seq(S)
  BY DEF Queues
<1>2. q' = Tail(q) /\ covered' = {} /\ q # <<>>
  BY EndsIs
<1>3. \A k \in DOMAIN Tail(q) : k + 1 \in DOMAIN q /\ k + 1 > 1 /\ Tail(q)[k] = q[k + 1] /\ k \in Nat
  BY <1>1, <1>2, TailFacts
<1>4. ASSUME NEW k \in DOMAIN Tail(q) PROVE Level(Tail(q)[k], hc)
  <2>1. k + 1 \in DOMAIN q /\ k + 1 # 1 /\ Tail(q)[k] = q[k + 1]
    BY <1>3
  <2>2. QED
    BY <2>1 DEF Levelled
<1>5. QED
  BY <1>2, <1>4

LEMMA SitedFacts ==
  ASSUME Stacks, Compiled
  PROVE  /\ Sited /\ 1 \in 1..Len(code)
         /\ \E lh, hc : lh \in [R!Old -> Nat] /\ R!Heights(code, labels, lh, hc)
BY CodeFacts DEF Stacks, Sited

LEMMA CompilerSame ==
  ASSUME R!Flowing, R!Ends, UNCHANGED compiler
  PROVE  R!Flowing' /\ R!Ends'
<1>1. UNCHANGED R!compiler
  BY DEF compiler, R!compiler, function, R!function
<1>2. QED
  BY <1>1, R!CompileSame, SameAssumption

LEMMA StacksNext ==
  ASSUME NoCurries, Inv, Stacks, [Next]_vars
  PROVE  Stacks'
<1>1. CASE CompileNext
  <2>1. Compiling /\ UNCHANGED verifying
    BY <1>1, CompilesOnlyBefore DEF CompileNext, verifier
  <2>2. verifying' = "no"
    BY <2>1 DEF Inv, Idle, Compiling, Compiled
  <2>3. R!Compile
    BY <1>1, SameCompile DEF CompileNext
  <2>4. R!Flowing' /\ R!Ends'
    BY <2>3, R!CompileFlowing, SameAssumption DEF Stacks
  <2>5. QED
    BY <2>2, <2>4 DEF Stacks
<1>2. ASSUME UNCHANGED compiler, \E lh, hc : Levelled(lh, hc)' PROVE Stacks'
  BY <1>2, CompilerSame DEF Stacks
<1>3. ASSUME UNCHANGED compiler, NEW lh, NEW hc, lh \in [R!Old -> Nat], R!Heights(code, labels, lh, hc),
             covered' \subseteq 1..Len(code),
             \A k \in DOMAIN q' :
               \/ Level(q'[k], hc)
               \/ k = 1 /\ q'[k].m_pc \in 1..Len(code) /\ q'[k].size \in Nat /\ q'[k].m_pc \in covered'
      PROVE  Stacks'
  <2>1. code' = code /\ labels' = labels /\ R!Old' = R!Old
    BY <1>3 DEF compiler, function, R!Old
  <2>2. \A k \in DOMAIN q' :
          \/ q'[k].m_pc \in 1..Len(code') /\ q'[k].size \in Nat /\ q'[k].size = hc[q'[k].m_pc]
          \/ k = 1 /\ q'[k].m_pc \in 1..Len(code') /\ q'[k].size \in Nat /\ q'[k].m_pc \in covered'
    BY <1>3, <2>1 DEF Level
  <2>3. R!Heights(code', labels', lh, hc) /\ lh \in [R!Old' -> Nat] /\ covered' \subseteq 1..Len(code')
    BY <1>3, <2>1
  <2>4. Levelled(lh, hc)'
    BY <2>2, <2>3 DEF Levelled, Level, Covered
  <2>5. QED
    BY <1>2, <1>3, <2>4
<1>4. CASE VerifyFunc
  <2>1. /\ Compiled /\ q' = <<[m_pc |-> 1, size |-> 0, m_vars |-> Args]>> /\ covered' = covered
        /\ UNCHANGED compiler /\ verifying = "no"
    BY <1>4 DEF VerifyFunc
  <2>2. PICK lh, hc : lh \in [R!Old -> Nat] /\ R!Heights(code, labels, lh, hc)
    BY <2>1, SitedFacts
  <2>3. hc[1] = 0 /\ 1 \in 1..Len(code) /\ covered = {}
    BY <2>1, <2>2, SitedFacts DEF R!Heights, Inv, Idle
  <2>4. DOMAIN q' = {1} /\ q'[1].m_pc = 1 /\ q'[1].size = 0
    BY <2>1
  <2>5. QED
    BY <1>3, <2>1, <2>2, <2>3, <2>4 DEF Level
<1>5. CASE Iterate
  <2>1. verifying = "yes" /\ UNCHANGED compiler
    BY <1>5 DEF Iterate
  <2>2. Compiled /\ Queues /\ Forward
    BY <2>1 DEF Inv, Idle, Body
  <2>3. Sited
    BY <2>2, SitedFacts
  <2>4. PICK lh, hc : Levelled(lh, hc)
    BY <2>1 DEF Stacks
  <2>5. lh \in [R!Old -> Nat] /\ R!Heights(code, labels, lh, hc)
    BY <2>4 DEF Levelled
  <2>6. CASE Runs
    BY <1>3, <2>1, <2>2, <2>3, <2>4, <2>5, <2>6, RunLevels
  <2>7. CASE Ends
    BY <1>3, <2>1, <2>2, <2>4, <2>5, <2>7, EndLevels
  <2>8. QED
    BY <1>5, <2>6, <2>7 DEF Runs, Ends
<1>6. CASE VerifyReturns
  <2>1. verifying = "yes" /\ UNCHANGED compiler /\ q' = q /\ covered' = covered
    BY <1>6 DEF VerifyReturns
  <2>2. PICK lh, hc : Levelled(lh, hc)
    BY <2>1 DEF Stacks
  <2>3. QED
    BY <1>3, <2>1, <2>2 DEF Levelled, Covered
<1>7. CASE UNCHANGED vars
  <2>1. UNCHANGED compiler /\ q' = q /\ covered' = covered /\ verifying' = verifying
    BY <1>7 DEF vars, verifier
  <2>2. CASE verifying = "no"
    BY <2>1, <2>2, CompilerSame DEF Stacks
  <2>3. CASE verifying # "no"
    <3>1. PICK lh, hc : Levelled(lh, hc)
      BY <2>3 DEF Stacks
    <3>2. QED
      BY <1>3, <2>1, <3>1 DEF Levelled, Covered
  <2>4. QED
    BY <2>2, <2>3
<1>8. QED
  BY <1>1, <1>4, <1>5, <1>6, <1>7 DEF Next, Terminated

LEMMA StacksInit ==
  ASSUME Init
  PROVE  Stacks
<1>1. R!CompilerInit
  BY SameInit DEF Init
<1>2. R!Flowing
  BY <1>1, R!InitFlows, SameAssumption DEF R!Flowing
<1>3. R!Ends
  BY <1>1, R!InitEnds, SameAssumption
<1>4. QED
  BY <1>2, <1>3 DEF Init, Stacks

LEMMA StacksTyped ==
  ASSUME NoCurries, Inv, Stacks
  PROVE  TypeOK
<1>1. CASE verifying = "no"
  BY <1>1 DEF Inv, Idle, TypeOK
<1>2. CASE verifying # "no"
  <2>1. Compiled /\ Queues /\ Forward
    BY <1>2 DEF Inv, Idle, Body
  <2>2. Sited
    BY <2>1, SitedFacts
  <2>3. PICK lh, hc : Levelled(lh, hc)
    BY <1>2 DEF Stacks
  <2>4. \A k \in DOMAIN q : q[k].m_pc \in 1..Len(code) /\ q[k].size \in Nat
    BY <2>3 DEF Levelled, Level, Covered
  <2>5. ASSUME q # <<>>, Block.m_pc \notin covered, Instr.op \in {"stvar", "bez", "bnz", "pop", "dup"}
        PROVE  Block.size > 0
    <3>1. 1 \in DOMAIN q /\ Block = q[1]
      BY <2>1, <2>5, TailFacts DEF Queues, Block
    <3>2. Level(Block, hc)
      BY <2>3, <2>5, <3>1 DEF Levelled, Covered
    <3>3. PICK p : p = Block.m_pc
      OBVIOUS
    <3>4. p \in 1..Len(code) /\ Block.size = hc[p] /\ Instr = code[p]
      BY <3>2, <3>3 DEF Level, Instr
    <3>5. lh \in [R!Old -> Nat] /\ R!Heights(code, labels, lh, hc)
      BY <2>3 DEF Levelled
    <3>6. hc[p] \in Nat /\ hc[p + 1] \in Nat /\ R!StackStep(code[p], hc[p], hc[p + 1], lh)
      BY <2>2, <3>4, <3>5, HeightAt
    <3>7. hc[p] > 0
      BY <2>5, <3>4, <3>6 DEF R!StackStep
    <3>8. QED
      BY <3>4, <3>7
  <2>6. action \in {"Move", "Stay"} /\ covered \subseteq 1..Len(code)
    BY <2>1, <2>3 DEF Forward, Levelled
  <2>7. QED
    BY <2>4, <2>5, <2>6 DEF TypeOK
<1>3. QED
  BY <1>1, <1>2

\* A closure stays in the code, and finds what its instructions pop: what the
\* verifier keeps of the stack is what every path leaves there, if no message is
\* curried.
THEOREM TypeCorrect == ASSUME NoCurries PROVE Spec => []TypeOK
<1>1. Init => Stacks
  BY StacksInit
<1>2. Inv /\ Stacks /\ [Next]_vars => Stacks'
  BY StacksNext
<1>3. Inv /\ Stacks => TypeOK
  BY StacksTyped
<1>4. QED
  BY <1>1, <1>2, <1>3, Invariance, PTL DEF Spec
=============================================================================
