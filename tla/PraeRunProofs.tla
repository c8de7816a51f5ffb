---------------------------- MODULE PraeRunProofs ----------------------------
(***************************************************************************)
(* The compiler keeps the operand stack, the scopes and the labels in      *)
(* order, whatever the program: proofs of the properties of PraeRun.       *)
(***************************************************************************)
EXTENDS PraeRun, WellFoundedInduction, TLAPS

-----------------------------------------------------------------------------
(* Sequences of anything.                                                  *)

IsSeq(s) == \E S : s \in Seq(S)

LEMMA SeqFacts ==
  ASSUME NEW s, IsSeq(s)
  PROVE  Len(s) \in Nat /\ DOMAIN s = 1..Len(s) /\ (s = <<>> <=> Len(s) = 0)
<1>1. PICK S : s \in Seq(S)
  BY DEF IsSeq
<1>2. QED
  BY <1>1

LEMMA NothingSeq ==
  ASSUME NEW s, s = <<>>
  PROVE  IsSeq(s) /\ Len(s) = 0
<1>1. s \in Seq({}) /\ Len(s) = 0
  OBVIOUS
<1>2. QED
  BY <1>1 DEF IsSeq

LEMMA OneSeq ==
  ASSUME NEW e
  PROVE  IsSeq(<<e>>) /\ Len(<<e>>) = 1 /\ <<e>>[1] = e
<1>1. <<e>> \in Seq({e})
  OBVIOUS
<1>2. QED
  BY <1>1 DEF IsSeq

LEMMA JoinSeq ==
  ASSUME NEW s, NEW t, IsSeq(s), IsSeq(t)
  PROVE  /\ IsSeq(s \o t)
         /\ Len(s \o t) = Len(s) + Len(t)
         /\ \A i \in 1..Len(s) : (s \o t)[i] = s[i]
         /\ \A i \in 1..Len(t) : (s \o t)[Len(s) + i] = t[i]
<1>1. PICK S : s \in Seq(S)
  BY DEF IsSeq
<1>2. PICK T : t \in Seq(T)
  BY DEF IsSeq
<1>3. s \in Seq(S \cup T) /\ t \in Seq(S \cup T)
  BY <1>1, <1>2
<1>4. s \o t \in Seq(S \cup T) /\ Len(s \o t) = Len(s) + Len(t) /\ Len(s) \in Nat /\ Len(t) \in Nat
  BY <1>3
<1>5. \A i \in 1..Len(s) + Len(t) : (s \o t)[i] = IF i <= Len(s) THEN s[i] ELSE t[i - Len(s)]
  BY <1>3
<1>6. \A i \in 1..Len(s) : i \in 1..Len(s) + Len(t) /\ i <= Len(s)
  BY <1>4
<1>7. \A i \in 1..Len(t) : Len(s) + i \in 1..Len(s) + Len(t) /\ ~(Len(s) + i <= Len(s))
                           /\ (Len(s) + i) - Len(s) = i
  BY <1>4
<1>8. QED
  BY <1>4, <1>5, <1>6, <1>7 DEF IsSeq

LEMMA TailSeq ==
  ASSUME NEW s, IsSeq(s), s # <<>>
  PROVE  /\ IsSeq(Tail(s)) /\ Len(Tail(s)) = Len(s) - 1 /\ Len(s) \in Nat \ {0}
         /\ Head(s) = s[1]
         /\ \A i \in 1..Len(s) - 1 : Tail(s)[i] = s[i + 1]
<1>1. PICK S : s \in Seq(S)
  BY DEF IsSeq
<1>2. Tail(s) \in Seq(S) /\ Len(Tail(s)) = Len(s) - 1 /\ Len(s) \in Nat \ {0} /\ Head(s) = s[1]
  BY <1>1
<1>3. \A i \in 1..Len(s) - 1 : Tail(s)[i] = s[i + 1]
  BY <1>1
<1>4. QED
  BY <1>2, <1>3 DEF IsSeq

LEMMA AppendSeq ==
  ASSUME NEW s, IsSeq(s), NEW e
  PROVE  /\ IsSeq(Append(s, e)) /\ Len(Append(s, e)) = Len(s) + 1
         /\ Append(s, e)[Len(s) + 1] = e
         /\ \A i \in 1..Len(s) : Append(s, e)[i] = s[i]
<1>1. PICK S : s \in Seq(S)
  BY DEF IsSeq
<1>2. s \in Seq(S \cup {e})
  BY <1>1
<1>3. Append(s, e) \in Seq(S \cup {e})
  BY <1>2
<1>4. Len(Append(s, e)) = Len(s) + 1 /\ Append(s, e)[Len(s) + 1] = e
      /\ \A i \in 1..Len(s) : Append(s, e)[i] = s[i]
  BY <1>2
<1>5. QED
  BY <1>3, <1>4 DEF IsSeq

-----------------------------------------------------------------------------
(* What the code and the rest of the emit functions do to the stack, the   *)
(* scopes and the labels.                                                  *)

NoCurries == "curry" \notin Construct
NoLoops == Construct \cap {"loop", "loop else"} = {}

\* A place in the program: the height h of the stack and the depth d of the scopes
\* there, the labels u that are placed further on, the labels n nothing was
\* recorded for, the label r the variables of a scope were just recorded for, and
\* the labels o whose variables were recorded on a path that has left for another
\* label.
Pt(h, d, u, n, r, o) == [h |-> h, d |-> d, u |-> u, n |-> n, r |-> r, o |-> o]
Points == [h : Nat, d : Nat \ {0, 1}, u : SUBSET Nat, n : SUBSET Nat, r : Nat, o : SUBSET (Nat \X Nat)]

\* What an instruction does to the stack; lh is the height at the labels.
StackStep(ins, h1, h2, lh) ==
  /\ ins.op \in {"ldc", "ldvar", "dup", "pop", "stvar", "msg", "bez", "bnz", "br", "ret"}
  /\ ins.op \in {"ldc", "ldvar"} => h2 = h1 + 1
  /\ ins.op = "dup" => h1 > 0 /\ h2 = h1 + 1
  /\ ins.op \in {"pop", "stvar"} => h1 > 0 /\ h2 = h1 - 1
  /\ ins.op = "msg" /\ NoCurries => ins.arity \in 0..h1 /\ h2 = h1 - ins.arity + 1
  /\ ins.op \in {"bez", "bnz"} =>
       h1 > 0 /\ h2 = h1 - 1 /\ ins.label \in DOMAIN lh /\ lh[ins.label] = h2
  /\ ins.op = "br" => ins.label \in DOMAIN lh /\ lh[ins.label] = h1
  /\ ins.op = "ret" => "return" \in Construct \/ h1 = 1

\* How the variables recorded for a label pass from one branch to the other.
Discipline(e, a, b) ==
  /\ e.do # "own"
  /\ e.do = "ins" => e.ins.op \notin {"ldvar", "stvar"}
  /\ e.do = "ins" /\ e.ins.op \in {"bez", "bnz", "br"} => e.ins.label \in a.u
  /\ IF e.do \in {"apply", "merge"} /\ e.label # 0
     THEN IF e.add
          THEN /\ b.r = e.label /\ b.o = a.o
               /\ e.do = "apply" => e.label \in a.n /\ b.n = a.n \ {e.label}
               /\ e.do = "merge" => e.label = a.r /\ b.n = a.n
          ELSE /\ b.r = 0 /\ b.n = a.n
               /\ b.o = {p \in a.o : p[1] # e.label}
               /\ \E m \in a.u : <<e.label, m>> \in a.o
     ELSE /\ b.r = 0 /\ b.n = a.n
          /\ b.o = IF e.do = "ins" /\ e.ins.op = "br" /\ a.r # 0
                   THEN a.o \cup {<<a.r, e.ins.label>>} ELSE a.o

Results(node) == IF node \in {"expr", "value"} THEN 1 ELSE 0

\* What an item of todo does.
Step(e, a, b, lh) ==
  /\ e.do \in {"node", "ins", "load", "store", "bind", "push", "apply", "merge", "own", "label"}
  /\ e.do = "node" =>
       /\ e.node \in {"expr", "value", "stmt", "stmts"} /\ b.h = a.h + Results(e.node)
       /\ a.r = 0 /\ b.r = 0 /\ b.n = a.n /\ b.o = a.o
  /\ e.do = "ins" => StackStep(e.ins, a.h, b.h, lh)
  /\ e.do = "load" => b.h = a.h + 1
  /\ e.do \in {"store", "bind"} => a.h > 0 /\ b.h = a.h - 1
  /\ e.do \in {"load", "store", "bind"} => e.name \in Name
  /\ e.do \in {"push", "apply", "merge", "own", "label"} => b.h = a.h
  /\ e.do \in {"apply", "merge", "own"} => e.label \in {0} \cup DOMAIN lh
  /\ e.do = "own" => e.label # 0
  /\ e.do = "label" => e.label \in a.u /\ e.label \in DOMAIN lh /\ lh[e.label] = a.h
  /\ b.d = CASE e.do = "push" -> a.d + 1 [] e.do = "apply" -> a.d - 1 [] OTHER -> a.d
  /\ b.u = IF e.do = "label" THEN a.u \ {e.label} ELSE a.u
  /\ b.n \subseteq a.n /\ b.r \in {0} \cup DOMAIN lh
  /\ \A p \in b.o : p \in a.o \/ (p[1] = a.r /\ a.r # 0)
  /\ NoLoops => Discipline(e, a, b)

Flow(s, a, b, lh, g) ==
  /\ g \in [1..Len(s) + 1 -> Points] /\ g[1] = a /\ g[Len(s) + 1] = b
  /\ \A i \in 1..Len(s) : s[i].do # "merge" /\ Step(s[i], g[i], g[i + 1], lh)

\* The items s lead from a to b.
Leads(s, a, b, lh) == IsSeq(s) /\ \E g : Flow(s, a, b, lh, g)

LEMMA LeadsNowhere ==
  ASSUME NEW s, s = <<>>, NEW a \in Points, NEW lh
  PROVE  Leads(s, a, a, lh)
<1> DEFINE k == [i \in {1} |-> a]
<1>1. IsSeq(s) /\ Len(s) = 0
  BY NothingSeq
<1>2. Flow(s, a, a, lh, k)
  BY <1>1 DEF Flow
<1>3. QED
  BY <1>1, <1>2 DEF Leads

LEMMA LeadsOne ==
  ASSUME NEW a \in Points, NEW b \in Points, NEW lh, NEW e, e.do # "merge", Step(e, a, b, lh)
  PROVE  Leads(<<e>>, a, b, lh)
<1> DEFINE g == [i \in 1..2 |-> IF i = 1 THEN a ELSE b]
<1>1. Len(<<e>>) = 1 /\ <<e>>[1] = e /\ IsSeq(<<e>>)
  BY OneSeq
<1>2. g \in [1..2 -> Points] /\ g[1] = a /\ g[2] = b
  OBVIOUS
<1>3. \A i \in 1..1 : i = 1
  OBVIOUS
<1> HIDE DEF g
<1>4. Flow(<<e>>, a, b, lh, g)
  BY <1>1, <1>2, <1>3 DEF Flow
<1>5. QED
  BY <1>1, <1>4 DEF Leads

LEMMA LeadsJoin ==
  ASSUME NEW s, NEW t, NEW a, NEW b, NEW c, NEW lh, Leads(s, a, c, lh), Leads(t, c, b, lh)
  PROVE  Leads(s \o t, a, b, lh)
<1>1. IsSeq(s) /\ IsSeq(t)
  BY DEF Leads
<1>2. PICK g : Flow(s, a, c, lh, g)
  BY DEF Leads
<1>3. PICK k : Flow(t, c, b, lh, k)
  BY DEF Leads
<1>4. Len(s) \in Nat /\ Len(t) \in Nat
  BY <1>1, SeqFacts
<1>5. /\ IsSeq(s \o t) /\ Len(s \o t) = Len(s) + Len(t)
      /\ \A i \in 1..Len(s) : (s \o t)[i] = s[i]
      /\ \A i \in 1..Len(t) : (s \o t)[Len(s) + i] = t[i]
  BY <1>1, JoinSeq
<1> DEFINE m == Len(s)
           n == Len(t)
           f == [i \in 1..m + n + 1 |-> IF i <= m + 1 THEN g[i] ELSE k[i - m]]
<1>6. /\ g \in [1..m + 1 -> Points] /\ k \in [1..n + 1 -> Points]
      /\ g[1] = a /\ g[m + 1] = c /\ k[1] = c /\ k[n + 1] = b
      /\ \A i \in 1..m : s[i].do # "merge" /\ Step(s[i], g[i], g[i + 1], lh)
      /\ \A i \in 1..n : t[i].do # "merge" /\ Step(t[i], k[i], k[i + 1], lh)
  BY <1>2, <1>3 DEF Flow
<1>7. m \in Nat /\ n \in Nat
  BY <1>4
<1> HIDE DEF m, n
<1>8. f \in [1..m + n + 1 -> Points]
  BY <1>6, <1>7
<1>9. \A i \in 1..m + 1 : i \in 1..m + n + 1 /\ i <= m + 1
  BY <1>7
<1>10. \A i \in 1..m + 1 : f[i] = g[i]
  BY <1>9
<1>11. \A i \in 1..n + 1 : f[m + i] = k[i]
  <2> SUFFICES ASSUME NEW i \in 1..n + 1 PROVE f[m + i] = k[i]
    OBVIOUS
  <2>1. m + i \in 1..m + n + 1 /\ (m + i) - m = i
    BY <1>7
  <2>2. CASE i = 1
    BY <2>1, <2>2, <1>6, <1>7
  <2>3. CASE i # 1
    BY <2>1, <2>3, <1>7
  <2>4. QED
    BY <2>2, <2>3
<1> HIDE DEF f
<1>12. \A i \in 1..m + n : (s \o t)[i].do # "merge" /\ Step((s \o t)[i], f[i], f[i + 1], lh)
  <2> SUFFICES ASSUME NEW i \in 1..m + n
               PROVE  (s \o t)[i].do # "merge" /\ Step((s \o t)[i], f[i], f[i + 1], lh)
    OBVIOUS
  <2>1. CASE i \in 1..m
    <3>1. i \in 1..m + 1 /\ i + 1 \in 1..m + 1
      BY <2>1, <1>7
    <3>2. f[i] = g[i] /\ f[i + 1] = g[i + 1] /\ (s \o t)[i] = s[i]
      BY <2>1, <3>1, <1>10, <1>5 DEF m
    <3>3. QED
      BY <2>1, <3>2, <1>6
  <2>2. CASE i \notin 1..m
    <3>1. PICK j \in 1..n : i = m + j
      <4>1. i - m \in 1..n /\ i = m + (i - m)
        BY <2>2, <1>7
      <4>2. QED
        BY <4>1
    <3>2. j \in 1..n + 1 /\ j + 1 \in 1..n + 1 /\ i + 1 = m + (j + 1)
      BY <3>1, <1>7
    <3>3. f[i] = k[j] /\ f[i + 1] = k[j + 1] /\ (s \o t)[i] = t[j]
      BY <3>1, <3>2, <1>11, <1>5 DEF m, n
    <3>4. QED
      BY <3>1, <3>3, <1>6
  <2>3. QED
    BY <2>1, <2>2
<1>13. Len(s \o t) = m + n
  BY <1>5 DEF m, n
<1>14. f[1] = a /\ f[m + n + 1] = b
  <2>1. 1 \in 1..m + 1 /\ n + 1 \in 1..n + 1 /\ m + (n + 1) = m + n + 1
    BY <1>7
  <2>2. QED
    BY <2>1, <1>6, <1>10, <1>11
<1>15. Flow(s \o t, a, b, lh, f)
  BY <1>8, <1>12, <1>13, <1>14 DEF Flow
<1>16. QED
  BY <1>5, <1>15 DEF Leads

LEMMA LeadsOn ==
  ASSUME NEW s, s # <<>>, NEW a, NEW b, NEW lh, Leads(s, a, b, lh)
  PROVE  a \in Points /\ Head(s).do # "merge"
         /\ \E c \in Points : Step(Head(s), a, c, lh) /\ Leads(Tail(s), c, b, lh)
<1>1. IsSeq(s)
  BY DEF Leads
<1>2. PICK g : Flow(s, a, b, lh, g)
  BY DEF Leads
<1>3. /\ IsSeq(Tail(s)) /\ Len(Tail(s)) = Len(s) - 1 /\ Len(s) \in Nat \ {0} /\ Head(s) = s[1]
      /\ \A i \in 1..Len(s) - 1 : Tail(s)[i] = s[i + 1]
  BY <1>1, TailSeq
<1> DEFINE n == Len(s) - 1
           k == [i \in 1..n + 1 |-> g[i + 1]]
<1>4. n \in Nat /\ Len(s) = n + 1 /\ Len(Tail(s)) = n
  BY <1>3
<1> HIDE DEF n
<1>5. /\ g \in [1..(n + 1) + 1 -> Points] /\ g[1] = a /\ g[(n + 1) + 1] = b
      /\ \A i \in 1..n + 1 : s[i].do # "merge" /\ Step(s[i], g[i], g[i + 1], lh)
  BY <1>2, <1>4 DEF Flow
<1>6. \A i \in 1..n + 1 : i + 1 \in 1..(n + 1) + 1 /\ i \in 1..(n + 1) + 1
  BY <1>4
<1>7. k \in [1..n + 1 -> Points] /\ \A i \in 1..n + 1 : k[i] = g[i + 1]
  BY <1>5, <1>6
<1> HIDE DEF k
<1>8. 1 \in 1..n + 1 /\ n + 1 \in 1..n + 1 /\ 1 \in 1..(n + 1) + 1
  BY <1>4
<1>9. k[1] = g[2] /\ k[n + 1] = b /\ g[2] \in Points /\ a \in Points
  BY <1>5, <1>7, <1>8
<1>10. \A i \in 1..n : Tail(s)[i].do # "merge" /\ Step(Tail(s)[i], k[i], k[i + 1], lh)
  <2> SUFFICES ASSUME NEW i \in 1..n PROVE Tail(s)[i].do # "merge" /\ Step(Tail(s)[i], k[i], k[i + 1], lh)
    OBVIOUS
  <2>1. i \in 1..n + 1 /\ i + 1 \in 1..n + 1 /\ i \in 1..Len(s) - 1
    BY <1>4
  <2>2. k[i] = g[i + 1] /\ k[i + 1] = g[(i + 1) + 1] /\ Tail(s)[i] = s[i + 1]
    BY <2>1, <1>3, <1>7
  <2>3. QED
    BY <2>1, <2>2, <1>5
<1>11. Flow(Tail(s), g[2], b, lh, k)
  BY <1>4, <1>7, <1>9, <1>10 DEF Flow
<1>12. Head(s).do # "merge" /\ Step(Head(s), a, g[2], lh)
  BY <1>3, <1>5, <1>8
<1>13. QED
  BY <1>3, <1>9, <1>11, <1>12 DEF Leads

LEMMA LeadsEnd ==
  ASSUME NEW s, s = <<>>, NEW a, NEW b, NEW lh, Leads(s, a, b, lh)
  PROVE  a = b
<1>1. PICK g : Flow(s, a, b, lh, g)
  BY DEF Leads
<1>2. QED
  BY <1>1, NothingSeq DEF Flow

\* More labels make no difference to what is there already.
LEMMA LeadsMore ==
  ASSUME NEW s, NEW a, NEW b, NEW lh, NEW lh2,
         DOMAIN lh \subseteq DOMAIN lh2, \A l \in DOMAIN lh : lh2[l] = lh[l],
         Leads(s, a, b, lh)
  PROVE  Leads(s, a, b, lh2)
<1>1. PICK g : Flow(s, a, b, lh, g)
  BY DEF Leads
<1>2. ASSUME NEW ins, NEW h1, NEW h2, StackStep(ins, h1, h2, lh)
      PROVE  StackStep(ins, h1, h2, lh2)
  BY <1>2 DEF StackStep
<1>3. ASSUME NEW e, NEW c, NEW d, Step(e, c, d, lh)
      PROVE  Step(e, c, d, lh2)
  BY <1>2, <1>3 DEF Step
<1>4. Flow(s, a, b, lh2, g)
  BY <1>1, <1>3 DEF Flow
<1>5. QED
  BY <1>4 DEF Leads

-----------------------------------------------------------------------------
(* What the items an emit function is made of do.                          *)

\* The parts of a place an expression leaves alone.
Around(d, u, n, o) ==
  d \in Nat \ {0, 1} /\ u \in SUBSET Nat /\ n \in SUBSET Nat /\ o \in SUBSET (Nat \X Nat)

LEMMA PtFacts ==
  ASSUME NEW h \in Nat, NEW d, NEW u, NEW n, NEW r \in Nat, NEW o, Around(d, u, n, o)
  PROVE  /\ Pt(h, d, u, n, r, o) \in Points
         /\ Pt(h, d, u, n, r, o).h = h /\ Pt(h, d, u, n, r, o).d = d /\ Pt(h, d, u, n, r, o).u = u
         /\ Pt(h, d, u, n, r, o).n = n /\ Pt(h, d, u, n, r, o).r = r /\ Pt(h, d, u, n, r, o).o = o
BY DEF Pt, Points, Around

LEMMA NodeLeads ==
  ASSUME NEW h \in Nat, NEW d, NEW u, NEW n, NEW o, Around(d, u, n, o), NEW lh,
         NEW node \in {"expr", "value", "stmt", "stmts"}
  PROVE  Leads(Node(node), Pt(h, d, u, n, 0, o), Pt(h + Results(node), d, u, n, 0, o), lh)
<1> DEFINE e == [do |-> "node", node |-> node]
           a == Pt(h, d, u, n, 0, o)
           b == Pt(h + Results(node), d, u, n, 0, o)
<1>1. h + Results(node) \in Nat
  BY DEF Results
<1>2. /\ a \in Points /\ a.h = h /\ a.d = d /\ a.u = u /\ a.n = n /\ a.r = 0 /\ a.o = o
      /\ b \in Points /\ b.h = h + Results(node) /\ b.d = d /\ b.u = u /\ b.n = n /\ b.r = 0 /\ b.o = o
  BY <1>1, PtFacts
<1>3. e.do = "node" /\ e.node = node
  OBVIOUS
<1>4. Node(node) = <<e>>
  BY DEF Node
<1> HIDE DEF a, b, e
<1>5. Step(e, a, b, lh)
  BY <1>2, <1>3 DEF Step, Discipline
<1>6. QED
  BY <1>2, <1>3, <1>4, <1>5, LeadsOne DEF a, b

LEMMA InsLeads ==
  ASSUME NEW h1 \in Nat, NEW h2 \in Nat, NEW d, NEW u, NEW n, NEW o, Around(d, u, n, o), NEW lh,
         NEW ins, StackStep(ins, h1, h2, lh), ins.op \notin {"ldvar", "stvar"},
         NoLoops /\ ins.op \in {"bez", "bnz", "br"} => ins.label \in u
  PROVE  Leads(<<[do |-> "ins", ins |-> ins]>>, Pt(h1, d, u, n, 0, o), Pt(h2, d, u, n, 0, o), lh)
<1> DEFINE e == [do |-> "ins", ins |-> ins]
           a == Pt(h1, d, u, n, 0, o)
           b == Pt(h2, d, u, n, 0, o)
<1>2. /\ a \in Points /\ a.h = h1 /\ a.d = d /\ a.u = u /\ a.n = n /\ a.r = 0 /\ a.o = o
      /\ b \in Points /\ b.h = h2 /\ b.d = d /\ b.u = u /\ b.n = n /\ b.r = 0 /\ b.o = o
  BY PtFacts
<1>3. e.do = "ins" /\ e.ins = ins
  OBVIOUS
<1> HIDE DEF a, b, e
<1>5. Step(e, a, b, lh)
  BY <1>2, <1>3 DEF Step, Discipline
<1>6. QED
  BY <1>2, <1>5, LeadsOne DEF a, b, e

\* The instructions that take no label.
LEMMA PlainLeads ==
  ASSUME NEW h \in Nat, NEW d, NEW u, NEW n, NEW o, Around(d, u, n, o), NEW lh
  PROVE  /\ Leads(Ins("ldc"), Pt(h, d, u, n, 0, o), Pt(h + 1, d, u, n, 0, o), lh)
         /\ Leads(Ins("dup"), Pt(h + 1, d, u, n, 0, o), Pt(h + 2, d, u, n, 0, o), lh)
         /\ Leads(Ins("pop"), Pt(h + 1, d, u, n, 0, o), Pt(h, d, u, n, 0, o), lh)
         /\ "return" \in Construct \/ h = 0 =>
              Leads(Ins("ret"), Pt(h + 1, d, u, n, 0, o), Pt(h, d, u, n, 0, o), lh)
         /\ \A k \in Nat : Leads(Msg(k), Pt(h + k, d, u, n, 0, o), Pt(h + 1, d, u, n, 0, o), lh)
         /\ ~NoCurries => Leads(Msg(3), Pt(h + 2, d, u, n, 0, o), Pt(h + 1, d, u, n, 0, o), lh)
<1>1. h + 1 \in Nat /\ h + 2 \in Nat /\ \A k \in Nat : h + k \in Nat
  OBVIOUS
<1>2. \A op : [op |-> op].op = op
  OBVIOUS
<1>3. StackStep([op |-> "ldc"], h, h + 1, lh) /\ StackStep([op |-> "dup"], h + 1, h + 2, lh)
      /\ StackStep([op |-> "pop"], h + 1, h, lh)
      /\ ("return" \in Construct \/ h = 0 => StackStep([op |-> "ret"], h + 1, h, lh))
  BY <1>2 DEF StackStep
<1>4. ASSUME NEW k \in Nat, NEW h1 \in Nat, h1 = h + k \/ ~NoCurries
      PROVE  Leads(Msg(k), Pt(h1, d, u, n, 0, o), Pt(h + 1, d, u, n, 0, o), lh)
  <2> DEFINE ins == [op |-> "msg", arity |-> k]
  <2>1. ins.op = "msg" /\ ins.arity = k
    OBVIOUS
  <2>2. Msg(k) = <<[do |-> "ins", ins |-> ins]>>
    BY DEF Msg
  <2> HIDE DEF ins
  <2>3. StackStep(ins, h1, h + 1, lh)
    BY <1>4, <2>1 DEF StackStep
  <2>4. QED
    BY <1>1, <2>1, <2>2, <2>3, InsLeads
<1>5. Leads(Ins("ldc"), Pt(h, d, u, n, 0, o), Pt(h + 1, d, u, n, 0, o), lh)
  BY <1>1, <1>2, <1>3, InsLeads DEF Ins
<1>6. Leads(Ins("dup"), Pt(h + 1, d, u, n, 0, o), Pt(h + 2, d, u, n, 0, o), lh)
  BY <1>1, <1>2, <1>3, InsLeads DEF Ins
<1>7. Leads(Ins("pop"), Pt(h + 1, d, u, n, 0, o), Pt(h, d, u, n, 0, o), lh)
  BY <1>1, <1>2, <1>3, InsLeads DEF Ins
<1>8. "return" \in Construct \/ h = 0 =>
        Leads(Ins("ret"), Pt(h + 1, d, u, n, 0, o), Pt(h, d, u, n, 0, o), lh)
  BY <1>1, <1>2, <1>3, InsLeads DEF Ins
<1>9. \A k \in Nat : Leads(Msg(k), Pt(h + k, d, u, n, 0, o), Pt(h + 1, d, u, n, 0, o), lh)
  BY <1>1, <1>4
<1>10. ~NoCurries => Leads(Msg(3), Pt(h + 2, d, u, n, 0, o), Pt(h + 1, d, u, n, 0, o), lh)
  BY <1>1, <1>4
<1>11. QED
  BY <1>5, <1>6, <1>7, <1>8, <1>9, <1>10

LEMMA JumpLeads ==
  ASSUME NEW h \in Nat, NEW d, NEW u, NEW n, NEW o, Around(d, u, n, o), NEW lh,
         NEW l \in DOMAIN lh, lh[l] = h, NoLoops => l \in u
  PROVE  /\ \A op \in {"bez", "bnz"} :
              Leads(Jump(op, l), Pt(h + 1, d, u, n, 0, o), Pt(h, d, u, n, 0, o), lh)
         /\ \A h2 \in Nat : Leads(Jump("br", l), Pt(h, d, u, n, 0, o), Pt(h2, d, u, n, 0, o), lh)
<1>1. ASSUME NEW op \in {"bez", "bnz"}
      PROVE  Leads(Jump(op, l), Pt(h + 1, d, u, n, 0, o), Pt(h, d, u, n, 0, o), lh)
  <2> DEFINE ins == [op |-> op, label |-> l]
  <2>1. ins.op = op /\ ins.label = l
    OBVIOUS
  <2>2. Jump(op, l) = <<[do |-> "ins", ins |-> ins]>>
    BY DEF Jump
  <2> HIDE DEF ins
  <2>3. StackStep(ins, h + 1, h, lh)
    BY <2>1 DEF StackStep
  <2>4. QED
    BY <2>1, <2>2, <2>3, InsLeads
<1>2. ASSUME NEW h2 \in Nat
      PROVE  Leads(Jump("br", l), Pt(h, d, u, n, 0, o), Pt(h2, d, u, n, 0, o), lh)
  <2> DEFINE ins == [op |-> "br", label |-> l]
  <2>1. ins.op = "br" /\ ins.label = l
    OBVIOUS
  <2>2. Jump("br", l) = <<[do |-> "ins", ins |-> ins]>>
    BY DEF Jump
  <2> HIDE DEF ins
  <2>3. StackStep(ins, h, h2, lh)
    BY <2>1 DEF StackStep
  <2>4. QED
    BY <2>1, <2>2, <2>3, InsLeads
<1>3. QED
  BY <1>1, <1>2

LEMMA NameLeads ==
  ASSUME NEW h \in Nat, NEW d, NEW u, NEW n, NEW o, Around(d, u, n, o), NEW lh, NEW x \in Name
  PROVE  /\ Leads(LoadName(x), Pt(h, d, u, n, 0, o), Pt(h + 1, d, u, n, 0, o), lh)
         /\ Leads(StoreName(x), Pt(h + 1, d, u, n, 0, o), Pt(h, d, u, n, 0, o), lh)
         /\ Leads(BindName(x), Pt(h + 1, d, u, n, 0, o), Pt(h, d, u, n, 0, o), lh)
<1> DEFINE a == Pt(h, d, u, n, 0, o)
           b == Pt(h + 1, d, u, n, 0, o)
<1>1. /\ a \in Points /\ a.h = h /\ a.d = d /\ a.u = u /\ a.n = n /\ a.r = 0 /\ a.o = o
      /\ b \in Points /\ b.h = h + 1 /\ b.d = d /\ b.u = u /\ b.n = n /\ b.r = 0 /\ b.o = o
  BY PtFacts
<1> HIDE DEF a, b
<1>2. ASSUME NEW e, e.name = x
      PROVE  /\ e.do = "load" => Step(e, a, b, lh)
             /\ e.do \in {"store", "bind"} => Step(e, b, a, lh)
  <2>1. ASSUME e.do = "load" PROVE Step(e, a, b, lh)
    BY <1>1, <1>2, <2>1 DEF Step, Discipline
  <2>2. ASSUME e.do \in {"store", "bind"} PROVE Step(e, b, a, lh)
    BY <1>1, <1>2, <2>2 DEF Step, Discipline
  <2>3. QED
    BY <2>1, <2>2
<1>3. Leads(LoadName(x), a, b, lh)
  BY <1>1, <1>2, LeadsOne DEF LoadName
<1>4. Leads(StoreName(x), b, a, lh)
  BY <1>1, <1>2, LeadsOne DEF StoreName
<1>5. Leads(BindName(x), b, a, lh)
  BY <1>1, <1>2, LeadsOne DEF BindName
<1>6. QED
  BY <1>3, <1>4, <1>5 DEF a, b

LEMMA ScopeLeads ==
  ASSUME NEW h \in Nat, NEW d, NEW u, NEW n, NEW o, Around(d, u, n, o), NEW lh
  PROVE  /\ Leads(OpenScope, Pt(h, d, u, n, 0, o), Pt(h, d + 1, u, n, 0, o), lh)
         /\ Leads(ApplyScope, Pt(h, d + 1, u, n, 0, o), Pt(h, d, u, n, 0, o), lh)
<1> DEFINE a == Pt(h, d, u, n, 0, o)
           b == Pt(h, d + 1, u, n, 0, o)
<1>1. Around(d + 1, u, n, o)
  BY DEF Around
<1>2. /\ a \in Points /\ a.h = h /\ a.d = d /\ a.u = u /\ a.n = n /\ a.r = 0 /\ a.o = o
      /\ b \in Points /\ b.h = h /\ b.d = d + 1 /\ b.u = u /\ b.n = n /\ b.r = 0 /\ b.o = o
      /\ d \in Nat
  BY <1>1, PtFacts DEF Around
<1> HIDE DEF a, b
<1>3. Step([do |-> "push"], a, b, lh)
  BY <1>2 DEF Step, Discipline
<1>4. Step([do |-> "apply", label |-> 0, add |-> FALSE], b, a, lh)
  BY <1>2 DEF Step, Discipline
<1>5. QED
  BY <1>2, <1>3, <1>4, LeadsOne DEF OpenScope, ApplyScope, a, b

LEMMA LabelLeads ==
  ASSUME NEW h \in Nat, NEW d, NEW u, NEW n, NEW r \in Nat, NEW o, Around(d, u, n, o), NEW lh,
         NEW l \in u, l \in DOMAIN lh, lh[l] = h
  PROVE  Leads(Label(l), Pt(h, d, u, n, r, o), Pt(h, d, u \ {l}, n, 0, o), lh)
<1> DEFINE a == Pt(h, d, u, n, r, o)
           b == Pt(h, d, u \ {l}, n, 0, o)
           e == [do |-> "label", label |-> l]
<1>1. Around(d, u \ {l}, n, o)
  BY DEF Around
<1>2. /\ a \in Points /\ a.h = h /\ a.d = d /\ a.u = u /\ a.n = n /\ a.r = r /\ a.o = o
      /\ b \in Points /\ b.h = h /\ b.d = d /\ b.u = u \ {l} /\ b.n = n /\ b.r = 0 /\ b.o = o
  BY <1>1, PtFacts
<1>3. e.do = "label" /\ e.label = l
  OBVIOUS
<1> HIDE DEF a, b, e
<1>4. Step(e, a, b, lh)
  BY <1>2, <1>3 DEF Step, Discipline
<1>5. QED
  BY <1>2, <1>4, LeadsOne DEF Label, a, b, e

\* The variables of a branch are recorded for the label l, and the branch is left
\* for the label m.
LEMMA RecordedLeads ==
  ASSUME NEW h \in Nat, NEW d, NEW u, NEW n, NEW o, Around(d, u, n, o), NEW lh,
         NEW l \in n, l \in DOMAIN lh, l # 0
  PROVE  /\ Leads(ApplyNew(l), Pt(h, d + 1, u, n, 0, o), Pt(h, d, u, n \ {l}, l, o), lh)
         /\ \A m \in u, h2 \in Nat :
              m \in DOMAIN lh /\ lh[m] = h =>
                Leads(Jump("br", m), Pt(h, d, u, n \ {l}, l, o), Pt(h2, d, u, n \ {l}, 0, o \cup {<<l, m>>}), lh)
<1> DEFINE a == Pt(h, d + 1, u, n, 0, o)
           n2 == n \ {l}
           b == Pt(h, d, u, n2, l, o)
           e == [do |-> "apply", label |-> l, add |-> TRUE]
<1>a. d \in Nat \ {0, 1} /\ n \subseteq Nat
  BY DEF Around
<1>0. d \in Nat /\ l \in Nat /\ n2 \in SUBSET Nat /\ d + 1 \in Nat \ {0, 1}
  BY <1>a
<1> HIDE DEF n2
<1>1. Around(d + 1, u, n, o) /\ Around(d, u, n2, o) /\ d \in Nat /\ l \in Nat
  BY <1>0 DEF Around
<1>2a. /\ a \in Points /\ a.h = h /\ a.d = d + 1 /\ a.u = u /\ a.n = n /\ a.r = 0 /\ a.o = o
  BY <1>1, PtFacts
<1>2b. /\ b \in Points /\ b.h = h /\ b.d = d /\ b.u = u /\ b.n = n2 /\ b.r = l /\ b.o = o
  BY <1>1, PtFacts
<1>2. /\ a \in Points /\ a.h = h /\ a.d = d + 1 /\ a.u = u /\ a.n = n /\ a.r = 0 /\ a.o = o
      /\ b \in Points /\ b.h = h /\ b.d = d /\ b.u = u /\ b.n = n \ {l} /\ b.r = l /\ b.o = o
  BY <1>2a, <1>2b DEF n2
<1>3. e.do = "apply" /\ e.label = l /\ e.add
  OBVIOUS
<1> HIDE DEF a, b, e
<1>4. Step(e, a, b, lh)
  BY <1>1, <1>2, <1>3 DEF Step, Discipline
<1>5. Leads(ApplyNew(l), a, b, lh)
  BY <1>2, <1>4, LeadsOne DEF ApplyNew, e
<1>6. ASSUME NEW m \in u, NEW h2 \in Nat, m \in DOMAIN lh, lh[m] = h
      PROVE  Leads(Jump("br", m), b, Pt(h2, d, u, n \ {l}, 0, o \cup {<<l, m>>}), lh)
  <2> DEFINE ins == [op |-> "br", label |-> m]
             f == [do |-> "ins", ins |-> ins]
             o2 == o \cup {<<l, m>>}
             c == Pt(h2, d, u, n2, 0, o2)
  <2>1. ins.op = "br" /\ ins.label = m /\ f.do = "ins" /\ f.ins = ins
    OBVIOUS
  <2>0. o2 \in SUBSET (Nat \X Nat)
    BY <1>1 DEF Around
  <2> HIDE DEF o2
  <2>2. Around(d, u, n2, o2)
    BY <1>1, <2>0 DEF Around
  <2>3a. c \in Points /\ c.h = h2 /\ c.d = d /\ c.u = u /\ c.n = n2 /\ c.r = 0 /\ c.o = o2
    BY <2>2, PtFacts
  <2>3. c \in Points /\ c.h = h2 /\ c.d = d /\ c.u = u /\ c.n = n \ {l} /\ c.r = 0 /\ c.o = o \cup {<<l, m>>}
    BY <2>3a DEF n2, o2
  <2>4. Jump("br", m) = <<f>>
    BY DEF Jump
  <2> HIDE DEF ins, f, c
  <2>5. StackStep(ins, h, h2, lh)
    BY <1>6, <2>1 DEF StackStep
  <2>6. Step(f, b, c, lh)
    BY <1>2, <2>1, <2>3, <2>5 DEF Step, Discipline
  <2>7. Leads(<<f>>, b, c, lh)
    BY <1>2, <2>1, <2>3, <2>6, LeadsOne
  <2>8. QED
    BY <2>4, <2>7 DEF c, n2, o2
<1>7. QED
  BY <1>5, <1>6 DEF a, b, n2

\* The other branch stores to the variables recorded.
LEMMA RecalledLeads ==
  ASSUME NEW h \in Nat, NEW d, NEW u, NEW n, NEW o, Around(d, u, n, o), NEW lh,
         NEW l \in DOMAIN lh, l # 0, NEW m \in u, <<l, m>> \in o
  PROVE  Leads(ApplyIds(l), Pt(h, d + 1, u, n, 0, o), Pt(h, d, u, n, 0, {p \in o : p[1] # l}), lh)
<1> DEFINE a == Pt(h, d + 1, u, n, 0, o)
           o2 == {p \in o : p[1] # l}
           b == Pt(h, d, u, n, 0, o2)
           e == [do |-> "apply", label |-> l, add |-> FALSE]
<1>0. d \in Nat /\ o2 \in SUBSET (Nat \X Nat) /\ d + 1 \in Nat \ {0, 1}
  BY DEF Around
<1> HIDE DEF o2
<1>1. Around(d + 1, u, n, o) /\ Around(d, u, n, o2) /\ d \in Nat
  BY <1>0 DEF Around
<1>2a. /\ a \in Points /\ a.h = h /\ a.d = d + 1 /\ a.u = u /\ a.n = n /\ a.r = 0 /\ a.o = o
  BY <1>1, PtFacts
<1>2b. /\ b \in Points /\ b.h = h /\ b.d = d /\ b.u = u /\ b.n = n /\ b.r = 0 /\ b.o = o2
  BY <1>1, PtFacts
<1>2. /\ a \in Points /\ a.h = h /\ a.d = d + 1 /\ a.u = u /\ a.n = n /\ a.r = 0 /\ a.o = o
      /\ b \in Points /\ b.h = h /\ b.d = d /\ b.u = u /\ b.n = n /\ b.r = 0 /\ b.o = {p \in o : p[1] # l}
  BY <1>2a, <1>2b DEF o2
<1>3. e.do = "apply" /\ e.label = l /\ ~e.add
  OBVIOUS
<1> HIDE DEF a, b, e
<1>4. Step(e, a, b, lh)
  BY <1>1, <1>2, <1>3 DEF Step, Discipline
<1>5. QED
  BY <1>2, <1>4, LeadsOne DEF ApplyIds, a, b, e, o2

\* What a loop records and recalls is not followed.
LEMMA LoopLeads ==
  ASSUME NEW h \in Nat, NEW d, NEW u, NEW n, NEW o, Around(d, u, n, o), NEW lh,
         ~NoLoops, NEW l \in DOMAIN lh, l # 0
  PROVE  /\ Leads(Own(l), Pt(h, d, u, n, 0, o), Pt(h, d, u, n, 0, o), lh)
         /\ Leads(ApplyIds(l), Pt(h, d + 1, u, n, 0, o), Pt(h, d, u, n, 0, o), lh)
         /\ Leads(ApplyNew(l), Pt(h, d + 1, u, n, 0, o), Pt(h, d, u, n, 0, o), lh)
<1> DEFINE a == Pt(h, d + 1, u, n, 0, o)
           b == Pt(h, d, u, n, 0, o)
<1>1. Around(d + 1, u, n, o) /\ d \in Nat
  BY DEF Around
<1>2. /\ a \in Points /\ a.h = h /\ a.d = d + 1 /\ a.u = u /\ a.n = n /\ a.r = 0 /\ a.o = o
      /\ b \in Points /\ b.h = h /\ b.d = d /\ b.u = u /\ b.n = n /\ b.r = 0 /\ b.o = o
  BY <1>1, PtFacts
<1> HIDE DEF a, b
<1>3. Step([do |-> "own", label |-> l], b, b, lh)
  BY <1>2 DEF Step
<1>4. ASSUME NEW add PROVE Step([do |-> "apply", label |-> l, add |-> add], a, b, lh)
  BY <1>1, <1>2 DEF Step
<1>5. QED
  BY <1>2, <1>3, <1>4, LeadsOne DEF Own, ApplyIds, ApplyNew, a, b

-----------------------------------------------------------------------------
(* What the emit functions do.                                             *)

\* From any height and anywhere, the items take i operands and leave j.
Moves(s, i, j) ==
  \A h \in Nat : \A d, u, n, o, lh :
    Around(d, u, n, o) => Leads(s, Pt(h + i, d, u, n, 0, o), Pt(h + j, d, u, n, 0, o), lh)

LEMMA MovesJoin ==
  ASSUME NEW s, NEW t, NEW i, NEW j, NEW k, Moves(s, i, j), Moves(t, j, k)
  PROVE  Moves(s \o t, i, k)
BY LeadsJoin DEF Moves

LEMMA MovesShift ==
  ASSUME NEW s, NEW i \in Nat, NEW j \in Nat, NEW m \in Nat, Moves(s, i, j)
  PROVE  Moves(s, i + m, j + m)
<1> SUFFICES ASSUME NEW h \in Nat, NEW d, NEW u, NEW n, NEW o, NEW lh, Around(d, u, n, o)
             PROVE  Leads(s, Pt(h + (i + m), d, u, n, 0, o), Pt(h + (j + m), d, u, n, 0, o), lh)
  BY DEF Moves
<1>1. h + m \in Nat /\ (h + m) + i = h + (i + m) /\ (h + m) + j = h + (j + m)
  OBVIOUS
<1>2. Leads(s, Pt((h + m) + i, d, u, n, 0, o), Pt((h + m) + j, d, u, n, 0, o), lh)
  BY <1>1 DEF Moves
<1>3. QED
  BY <1>1, <1>2

LEMMA MovesNothing ==
  ASSUME NEW s, s = <<>>, NEW i \in Nat
  PROVE  Moves(s, i, i)
<1> SUFFICES ASSUME NEW h \in Nat, NEW d, NEW u, NEW n, NEW o, NEW lh, Around(d, u, n, o)
             PROVE  Leads(s, Pt(h + i, d, u, n, 0, o), Pt(h + i, d, u, n, 0, o), lh)
  BY DEF Moves
<1>1. Pt(h + i, d, u, n, 0, o) \in Points
  BY PtFacts
<1>2. QED
  BY <1>1, LeadsNowhere

LEMMA NodeMoves ==
  /\ Moves(Node("expr"), 0, 1) /\ Moves(Node("expr"), 1, 2)
  /\ Moves(Node("value"), 0, 1) /\ Moves(Node("value"), 1, 2)
  /\ Moves(Node("stmt"), 0, 0) /\ Moves(Node("stmts"), 0, 0)
<1>1. ASSUME NEW node \in {"expr", "value", "stmt", "stmts"}
      PROVE  Moves(Node(node), 0, Results(node))
  <2> SUFFICES ASSUME NEW h \in Nat, NEW d, NEW u, NEW n, NEW o, NEW lh, Around(d, u, n, o)
               PROVE  Leads(Node(node), Pt(h + 0, d, u, n, 0, o), Pt(h + Results(node), d, u, n, 0, o), lh)
    BY DEF Moves
  <2>1. h + 0 = h
    OBVIOUS
  <2>2. QED
    BY <2>1, NodeLeads
<1>2. Results("expr") = 1 /\ Results("value") = 1 /\ Results("stmt") = 0 /\ Results("stmts") = 0
  BY DEF Results
<1>3. /\ Moves(Node("expr"), 0, 1) /\ Moves(Node("value"), 0, 1)
      /\ Moves(Node("stmt"), 0, 0) /\ Moves(Node("stmts"), 0, 0)
  BY <1>1, <1>2
<1>4. Moves(Node("expr"), 0 + 1, 1 + 1) /\ Moves(Node("value"), 0 + 1, 1 + 1)
  BY <1>3, MovesShift
<1>5. QED
  BY <1>3, <1>4

LEMMA PlainMoves ==
  /\ Moves(Ins("ldc"), 0, 1) /\ Moves(Ins("ldc"), 1, 2) /\ Moves(Ins("ldc"), 2, 3)
  /\ Moves(Ins("dup"), 1, 2) /\ Moves(Ins("pop"), 1, 0)
  /\ "return" \in Construct => Moves(Ins("ret"), 1, 0)
  /\ \A k \in Nat : Moves(Msg(k), k, 1)
  /\ ~NoCurries => Moves(Msg(3), 2, 1)
<1>1. ASSUME NEW h \in Nat PROVE h + 0 = h
  OBVIOUS
<1>2. Moves(Ins("ldc"), 0, 1)
  BY <1>1, PlainLeads DEF Moves
<1>3. Moves(Ins("ldc"), 0 + 1, 1 + 1) /\ Moves(Ins("ldc"), 0 + 2, 1 + 2)
  BY <1>2, MovesShift
<1>4. Moves(Ins("dup"), 1, 2)
  BY PlainLeads DEF Moves
<1>5. Moves(Ins("pop"), 1, 0)
  BY <1>1, PlainLeads DEF Moves
<1>6. "return" \in Construct => Moves(Ins("ret"), 1, 0)
  BY <1>1, PlainLeads DEF Moves
<1>7. \A k \in Nat : Moves(Msg(k), k, 1)
  BY PlainLeads, ZenonT(60) DEF Moves
<1>8. ~NoCurries => Moves(Msg(3), 2, 1)
  BY PlainLeads DEF Moves
<1>9. QED
  BY <1>2, <1>3, <1>4, <1>5, <1>6, <1>7, <1>8

LEMMA NameMoves ==
  ASSUME NEW x \in Name
  PROVE  /\ Moves(LoadName(x), 0, 1)
         /\ Moves(StoreName(x), 1, 0) /\ Moves(StoreName(x), 2, 1)
         /\ Moves(BindName(x), 1, 0)
<1>1. ASSUME NEW h \in Nat PROVE h + 0 = h
  OBVIOUS
<1>2. Moves(LoadName(x), 0, 1)
  BY <1>1, NameLeads DEF Moves
<1>3. Moves(StoreName(x), 1, 0)
  BY <1>1, NameLeads DEF Moves
<1>4. Moves(StoreName(x), 1 + 1, 0 + 1)
  BY <1>3, MovesShift
<1>5. Moves(BindName(x), 1, 0)
  BY <1>1, NameLeads DEF Moves
<1>6. QED
  BY <1>2, <1>3, <1>4, <1>5

LEMMA MovesAt ==
  ASSUME NEW s, NEW i \in Nat, NEW j \in Nat, Moves(s, i, j), NEW h \in Nat, NEW d, NEW u, NEW n, NEW o,
         Around(d, u, n, o), NEW lh
  PROVE  Leads(s, Pt(h + i, d, u, n, 0, o), Pt(h + j, d, u, n, 0, o), lh)
BY DEF Moves

LEMMA ParenMoves ==
  ASSUME NEW flags, NEW x \in Name \cup {NoName}
  PROVE  Moves(Paren(flags, x), 0, IF "Eval" \in flags THEN 1 ELSE 0)
<1> DEFINE k == IF "Eval" \in flags THEN 1 ELSE 0
           eval == IF "Eval" \in flags THEN Node("expr") ELSE <<>>
<1>1. Moves(eval, 0, k)
  BY NodeMoves, MovesNothing
<1>2. CASE x = NoName
  <2>1. Paren(flags, x) = eval
    BY <1>2 DEF Paren
  <2>2. QED
    BY <1>1, <2>1
<1>3. CASE x # NoName
  <2> DEFINE open == IF "Scope" \in flags THEN OpenScope ELSE <<>>
             bind == IF "Bind" \in flags THEN Node("expr") \o BindName(x) ELSE <<>>
             apply == IF "Scope" \in flags THEN ApplyScope ELSE <<>>
  <2>1. Paren(flags, x) = open \o bind \o eval \o apply
    BY <1>3 DEF Paren
  <2>2. Moves(bind, 0, 0)
    <3>1. x \in Name
      BY <1>3
    <3>2. Moves(Node("expr") \o BindName(x), 0, 0)
      BY <3>1, NodeMoves, NameMoves, MovesJoin
    <3>3. QED
      BY <3>2, MovesNothing
  <2>3. k \in {0, 1}
    OBVIOUS
  <2> SUFFICES Moves(open \o bind \o eval \o apply, 0, k)
    BY <2>1
  <2> HIDE DEF open, bind, eval, apply, k
  <2> SUFFICES ASSUME NEW h \in Nat, NEW d, NEW u, NEW n, NEW o, NEW lh, Around(d, u, n, o)
               PROVE  Leads(open \o bind \o eval \o apply,
                            Pt(h + 0, d, u, n, 0, o), Pt(h + k, d, u, n, 0, o), lh)
    BY DEF Moves
  <2> DEFINE d2 == IF "Scope" \in flags THEN d + 1 ELSE d
  <2>4. h + 0 = h /\ h + k \in Nat /\ Around(d2, u, n, o)
    BY <2>3 DEF Around
  <2>5. Leads(open, Pt(h, d, u, n, 0, o), Pt(h, d2, u, n, 0, o), lh)
    <3>1. CASE "Scope" \in flags
      BY <3>1, ScopeLeads DEF open
    <3>2. CASE "Scope" \notin flags
      <4>1. Pt(h, d, u, n, 0, o) \in Points
        BY PtFacts
      <4>2. QED
        BY <3>2, <4>1, LeadsNowhere DEF open
    <3>3. QED
      BY <3>1, <3>2
  <2>6. Leads(apply, Pt(h + k, d2, u, n, 0, o), Pt(h + k, d, u, n, 0, o), lh)
    <3>1. CASE "Scope" \in flags
      BY <2>4, <3>1, ScopeLeads DEF apply
    <3>2. CASE "Scope" \notin flags
      <4>1. Pt(h + k, d, u, n, 0, o) \in Points
        BY <2>4, PtFacts
      <4>2. QED
        BY <3>2, <4>1, LeadsNowhere DEF apply
    <3>3. QED
      BY <3>1, <3>2
  <2> HIDE DEF d2
  <2>7. Leads(bind, Pt(h + 0, d2, u, n, 0, o), Pt(h + 0, d2, u, n, 0, o), lh)
    BY <2>2, <2>4 DEF Moves
  <2>8. Leads(eval, Pt(h + 0, d2, u, n, 0, o), Pt(h + k, d2, u, n, 0, o), lh)
    BY <1>1, <2>4 DEF Moves
  <2>9. QED
    BY <2>4, <2>5, <2>6, <2>7, <2>8, LeadsJoin
<1>4. QED
  BY <1>2, <1>3

\* One branch records the variables for the label E, the other recalls them and
\* ends at the label D.
LEMMA BranchesLead ==
  ASSUME NEW x \in Name \cup {NoName}, NEW child \in {"expr", "stmt"}, NEW orElse \in BOOLEAN,
         orElse \/ child = "stmt", Len(labels) \in Nat,
         NEW h \in Nat, NEW d, NEW u, NEW n, NEW o, Around(d, u, n, o), NEW lh,
         NEW E, NEW D, E = NewLabel(1), D = NewLabel(2),
         E \notin u, D \notin u, E \notin n, \A p \in o : p[1] # E,
         E \in DOMAIN lh, lh[E] = h,
         orElse => D \in DOMAIN lh /\ lh[D] = h + Results(child)
  PROVE  Leads(Branches(x, child, orElse),
               Pt(h, d, u \cup (IF orElse THEN {E, D} ELSE {E}), n \cup {E}, 0, o),
               Pt(h + Results(child), d, u, n, 0, o), lh)
<1> DEFINE k == Results(child)
           u1 == IF orElse THEN {E, D} ELSE {E}
           v == u \cup u1
           m == n \cup {E}
           o2 == o \cup {<<E, D>>}
<1>1. E = Len(labels) + 1 /\ D = Len(labels) + 2 /\ E \in Nat \ {0} /\ D \in Nat \ {0} /\ E # D
  BY DEF NewLabel
<1>2. k \in {0, 1} /\ (k = 0 \/ orElse) /\ h + k \in Nat
  BY DEF Results
<1>3. d + 1 \in Nat \ {0, 1} /\ d \in Nat \ {0, 1} /\ u \subseteq Nat /\ n \subseteq Nat /\ o \subseteq Nat \X Nat
  BY DEF Around
<1>4. /\ v \subseteq Nat /\ m \subseteq Nat /\ o2 \subseteq Nat \X Nat /\ v \ {E} \subseteq Nat
      /\ m \ {E} = n /\ E \in v /\ E \in m
  <2>1. v \subseteq Nat /\ v \ {E} \subseteq Nat /\ E \in v
    BY <1>1, <1>3
  <2>2. m \subseteq Nat /\ m \ {E} = n /\ E \in m
    BY <1>1, <1>3
  <2>3. o2 \subseteq Nat \X Nat
    BY <1>1, <1>3
  <2>4. QED
    BY <2>1, <2>2, <2>3
<1>5. /\ Around(d, v, m, o) /\ Around(d + 1, v, m, o)
      /\ Around(d, v, n, o) /\ Around(d, v, n, o2)
  BY <1>3, <1>4 DEF Around
<1>6. /\ Around(d, v \ {E}, n, o2) /\ Around(d + 1, v \ {E}, n, o2)
      /\ Around(d, v \ {E}, n, o)
  BY <1>3, <1>4 DEF Around
<1>7. {p \in o2 : p[1] # E} = o
  OBVIOUS
<1>8. orElse => D \in v /\ D \in v \ {E} /\ (v \ {E}) \ {D} = u
  BY <1>1
<1>9. ~orElse => v \ {E} = u
  OBVIOUS
<1> HIDE DEF k, v, m, o2
<1>10. h + 0 = h
  OBVIOUS
<1>11. Leads(OpenScope, Pt(h, d, v, m, 0, o), Pt(h, d + 1, v, m, 0, o), lh)
  BY <1>5, ScopeLeads
<1>12. Leads(Paren({"Bind", "Eval"}, x), Pt(h, d + 1, v, m, 0, o), Pt(h + 1, d + 1, v, m, 0, o), lh)
  <2>1. Moves(Paren({"Bind", "Eval"}, x), 0, 1)
    BY ParenMoves
  <2>2. QED
    BY <2>1, <1>5, <1>10 DEF Moves
<1>13. Leads(Jump("bez", E), Pt(h + 1, d + 1, v, m, 0, o), Pt(h, d + 1, v, m, 0, o), lh)
  BY <1>4, <1>5, JumpLeads
<1>14. Leads(Node(child), Pt(h, d + 1, v, m, 0, o), Pt(h + k, d + 1, v, m, 0, o), lh)
  BY <1>5, NodeLeads DEF k
<1>15. Leads(ApplyNew(E), Pt(h + k, d + 1, v, m, 0, o), Pt(h + k, d, v, n, E, o), lh)
  BY <1>1, <1>2, <1>4, <1>5, RecordedLeads
<1> DEFINE first == OpenScope \o Paren({"Bind", "Eval"}, x) \o Jump("bez", E) \o Node(child) \o ApplyNew(E)
           second == Jump("br", D) \o Label(E) \o OpenScope \o Node(child) \o ApplyIds(E) \o Label(D)
<1>16. Leads(first, Pt(h, d, v, m, 0, o), Pt(h + k, d, v, n, E, o), lh)
  BY <1>11, <1>12, <1>13, <1>14, <1>15, LeadsJoin
<1>17. Branches(x, child, orElse) = first \o (IF orElse THEN second ELSE Label(E))
  BY DEF Branches
<1> HIDE DEF first
<1>18. CASE orElse
  <2>1. Leads(Jump("br", D), Pt(h + k, d, v, n, E, o), Pt(h, d, v, n, 0, o2), lh)
    BY <1>1, <1>2, <1>4, <1>5, <1>8, <1>18, RecordedLeads DEF o2, k
  <2>2. Leads(Label(E), Pt(h, d, v, n, 0, o2), Pt(h, d, v \ {E}, n, 0, o2), lh)
    BY <1>4, <1>5, LabelLeads
  <2>3. Leads(OpenScope, Pt(h, d, v \ {E}, n, 0, o2), Pt(h, d + 1, v \ {E}, n, 0, o2), lh)
    BY <1>6, ScopeLeads
  <2>4. Leads(Node(child), Pt(h, d + 1, v \ {E}, n, 0, o2), Pt(h + k, d + 1, v \ {E}, n, 0, o2), lh)
    BY <1>6, NodeLeads DEF k
  <2>5. Leads(ApplyIds(E), Pt(h + k, d + 1, v \ {E}, n, 0, o2), Pt(h + k, d, v \ {E}, n, 0, o), lh)
    <3>1. <<E, D>> \in o2
      BY DEF o2
    <3>2. QED
      BY <1>1, <1>2, <1>6, <1>7, <1>8, <1>18, <3>1, RecalledLeads
  <2>6. Leads(Label(D), Pt(h + k, d, v \ {E}, n, 0, o), Pt(h + k, d, u, n, 0, o), lh)
    BY <1>2, <1>6, <1>8, <1>18, LabelLeads DEF k
  <2>7. Leads(second, Pt(h + k, d, v, n, E, o), Pt(h + k, d, u, n, 0, o), lh)
    BY <2>1, <2>2, <2>3, <2>4, <2>5, <2>6, LeadsJoin, ZenonT(60)
  <2> HIDE DEF second
  <2>8. QED
    BY <1>16, <1>17, <1>18, <2>7, LeadsJoin DEF k, v, m
<1>19. CASE ~orElse
  <2>1. k = 0 /\ h + k = h
    BY <1>2, <1>19
  <2>2. Leads(Label(E), Pt(h + k, d, v, n, E, o), Pt(h + k, d, v \ {E}, n, 0, o), lh)
    BY <1>1, <1>4, <1>5, <2>1, LabelLeads
  <2> HIDE DEF second
  <2>3. Leads(Branches(x, child, orElse), Pt(h, d, v, m, 0, o), Pt(h + k, d, v \ {E}, n, 0, o), lh)
    BY <1>16, <1>17, <1>19, <2>2, LeadsJoin
  <2>4. Leads(Branches(x, child, orElse), Pt(h, d, v, m, 0, o), Pt(h + k, d, u, n, 0, o), lh)
    BY <1>9, <1>19, <2>3
  <2>5. QED
    BY <2>4 DEF k, v, m
<1>20. QED
  BY <1>18, <1>19

LEMMA LoopLead ==
  ASSUME ~NoLoops, NEW x \in Name \cup {NoName}, NEW orElse \in BOOLEAN, Len(labels) \in Nat,
         NEW h \in Nat, NEW d, NEW u, NEW n, NEW o, Around(d, u, n, o), NEW lh,
         NEW A, NEW T, NEW B, A = NewLabel(1), T = NewLabel(2), B = NewLabel(3),
         A \notin u, T \notin u, B \notin u,
         {A, T, B} \subseteq DOMAIN lh, lh[A] = h, lh[T] = h, lh[B] = h
  PROVE  Leads(Loop(x, orElse), Pt(h, d, u \cup {A, T, B}, n, 0, o), Pt(h, d, u, n, 0, o), lh)
<1> DEFINE v == u \cup {A, T, B}
           w == u \cup {T, B}
           y == u \cup {B}
<1>1. A \in Nat \ {0} /\ T \in Nat \ {0} /\ B \in Nat \ {0} /\ A # T /\ T # B /\ A # B
  BY DEF NewLabel
<1>2. d + 1 \in Nat \ {0, 1} /\ d \in Nat \ {0, 1} /\ u \subseteq Nat
      /\ d + 2 \in Nat \ {0, 1} /\ (d + 1) + 1 = d + 2
  BY DEF Around
<1>3. v \ {A} = w /\ w \ {T} = y /\ y \ {B} = u /\ A \in v /\ T \in w /\ B \in y
  BY <1>1
<1>4. v \subseteq Nat /\ w \subseteq Nat /\ y \subseteq Nat
  BY <1>1, <1>2
<1> HIDE DEF v, w, y
<1>5. /\ Around(d, v, n, o) /\ Around(d + 1, v, n, o)
      /\ Around(d + 1, w, n, o) /\ Around(d + 2, w, n, o)
  BY <1>2, <1>4 DEF Around
<1>6. Around(d, y, n, o) /\ Around(d + 1, y, n, o) /\ Around(d + 2, y, n, o)
  BY <1>2, <1>4 DEF Around
<1>7. h + 0 = h /\ h + 1 \in Nat
  OBVIOUS
<1>8. A \in DOMAIN lh /\ T \in DOMAIN lh /\ B \in DOMAIN lh
  OBVIOUS
<1>11. Leads(OpenScope, Pt(h, d, v, n, 0, o), Pt(h, d + 1, v, n, 0, o), lh)
  BY <1>5, ScopeLeads
<1>12. Leads(Paren({"Bind"}, x), Pt(h, d + 1, v, n, 0, o), Pt(h, d + 1, v, n, 0, o), lh)
  <2>1. Moves(Paren({"Bind"}, x), 0, 0)
    BY ParenMoves
  <2>2. QED
    BY <2>1, <1>5, <1>7 DEF Moves
<1>13. Leads(Own(A), Pt(h, d + 1, v, n, 0, o), Pt(h, d + 1, v, n, 0, o), lh)
  BY <1>1, <1>5, <1>8, LoopLeads
<1>14. Leads(Jump("br", T), Pt(h, d + 1, v, n, 0, o), Pt(h, d + 1, v, n, 0, o), lh)
  BY <1>5, <1>8, JumpLeads
<1>15. Leads(Label(A), Pt(h, d + 1, v, n, 0, o), Pt(h, d + 1, w, n, 0, o), lh)
  BY <1>3, <1>5, <1>8, LabelLeads
<1>16. Leads(OpenScope, Pt(h, d + 1, w, n, 0, o), Pt(h, d + 2, w, n, 0, o), lh)
  BY <1>2, <1>5, ScopeLeads
<1>17. Leads(Node("stmt"), Pt(h, d + 2, w, n, 0, o), Pt(h, d + 2, w, n, 0, o), lh)
  BY <1>5, <1>7, NodeMoves DEF Moves
<1>18. Leads(ApplyIds(A), Pt(h, d + 2, w, n, 0, o), Pt(h, d + 1, w, n, 0, o), lh)
  BY <1>1, <1>2, <1>5, <1>8, LoopLeads
<1>19. Leads(Label(T), Pt(h, d + 1, w, n, 0, o), Pt(h, d + 1, y, n, 0, o), lh)
  BY <1>3, <1>5, <1>8, LabelLeads
<1>20. Leads(OpenScope, Pt(h, d + 1, y, n, 0, o), Pt(h, d + 2, y, n, 0, o), lh)
  BY <1>2, <1>6, ScopeLeads
<1>21. Leads(Paren({"Eval", "Scope"}, x), Pt(h, d + 2, y, n, 0, o), Pt(h + 1, d + 2, y, n, 0, o), lh)
  <2>1. Moves(Paren({"Eval", "Scope"}, x), 0, 1)
    BY ParenMoves
  <2>2. QED
    BY <2>1, <1>6, <1>7 DEF Moves
<1>22. Leads(ApplyIds(A), Pt(h + 1, d + 2, y, n, 0, o), Pt(h + 1, d + 1, y, n, 0, o), lh)
  BY <1>1, <1>2, <1>6, <1>7, <1>8, LoopLeads
<1>23. Leads(ApplyNew(B), Pt(h + 1, d + 1, y, n, 0, o), Pt(h + 1, d, y, n, 0, o), lh)
  BY <1>1, <1>6, <1>7, <1>8, LoopLeads
<1>24. Leads(Jump("bnz", A), Pt(h + 1, d, y, n, 0, o), Pt(h, d, y, n, 0, o), lh)
  BY <1>6, <1>8, JumpLeads
<1> DEFINE last == IF orElse THEN OpenScope \o Node("stmt") \o ApplyIds(B) ELSE <<>>
<1>25. Leads(last, Pt(h, d, y, n, 0, o), Pt(h, d, y, n, 0, o), lh)
  <2>1. Leads(OpenScope, Pt(h, d, y, n, 0, o), Pt(h, d + 1, y, n, 0, o), lh)
    BY <1>6, ScopeLeads
  <2>2. Leads(Node("stmt"), Pt(h, d + 1, y, n, 0, o), Pt(h, d + 1, y, n, 0, o), lh)
    BY <1>6, <1>7, NodeMoves DEF Moves
  <2>3. Leads(ApplyIds(B), Pt(h, d + 1, y, n, 0, o), Pt(h, d, y, n, 0, o), lh)
    BY <1>1, <1>6, <1>8, LoopLeads
  <2>4. Pt(h, d, y, n, 0, o) \in Points
    BY <1>6, PtFacts
  <2>5. CASE orElse
    BY <2>1, <2>2, <2>3, <2>5, LeadsJoin
  <2>6. CASE ~orElse
    BY <2>4, <2>6, LeadsNowhere
  <2>7. QED
    BY <2>5, <2>6
<1>26. Leads(Label(B), Pt(h, d, y, n, 0, o), Pt(h, d, u, n, 0, o), lh)
  BY <1>3, <1>6, <1>8, LabelLeads
<1> HIDE DEF last
<1>27. Loop(x, orElse) =
         OpenScope \o Paren({"Bind"}, x) \o Own(A) \o Jump("br", T) \o Label(A)
         \o OpenScope \o Node("stmt") \o ApplyIds(A) \o Label(T)
         \o OpenScope \o Paren({"Eval", "Scope"}, x) \o ApplyIds(A) \o ApplyNew(B) \o Jump("bnz", A)
         \o last \o Label(B)
  BY DEF Loop, last
<1> DEFINE p1 == OpenScope \o Paren({"Bind"}, x) \o Own(A) \o Jump("br", T) \o Label(A)
           p2 == p1 \o OpenScope \o Node("stmt") \o ApplyIds(A) \o Label(T)
           p3 == p2 \o OpenScope \o Paren({"Eval", "Scope"}, x) \o ApplyIds(A) \o ApplyNew(B)
                 \o Jump("bnz", A)
<1>28. Leads(p1, Pt(h, d, v, n, 0, o), Pt(h, d + 1, w, n, 0, o), lh)
  BY <1>11, <1>12, <1>13, <1>14, <1>15, LeadsJoin
<1> HIDE DEF p1
<1>29. Leads(p2, Pt(h, d, v, n, 0, o), Pt(h, d + 1, y, n, 0, o), lh)
  BY <1>16, <1>17, <1>18, <1>19, <1>28, LeadsJoin
<1> HIDE DEF p2
<1>30. Leads(p3, Pt(h, d, v, n, 0, o), Pt(h, d, y, n, 0, o), lh)
  BY <1>20, <1>21, <1>22, <1>23, <1>24, <1>29, LeadsJoin
<1>31. Loop(x, orElse) = p3 \o last \o Label(B)
  BY <1>27 DEF p1, p2, p3
<1> HIDE DEF p3
<1>32. QED
  BY <1>25, <1>26, <1>30, <1>31, LeadsJoin DEF v

Old == 1..Len(labels)
New(n) == Len(labels) + 1..Len(labels) + n

\* The items that take the place of a node, with n labels of their own, do what the
\* node does.
Expands(node, n, items) ==
  \A h \in Nat : \A d, u, m, o, lh :
    /\ Around(d, u, m, o) /\ u \subseteq Old /\ m \subseteq Old /\ (\A p \in o : p[1] \in Old)
    /\ lh \in [Old -> Nat]
    => \E lh2 \in [Old \cup New(n) -> Nat], m2 \in SUBSET New(n) :
         /\ \A l \in Old : lh2[l] = lh[l]
         /\ Leads(items, Pt(h, d, u \cup New(n), m \cup m2, 0, o),
                  Pt(h + Results(node), d, u, m, 0, o), lh2)

\* An emit function has taken the place of its node, which cost cost pieces.
Expanded ==
  \E n \in Nat : \E node, cost, items :
    Emitting(node, cost, n, items) /\ IsSeq(items) /\ Expands(node, n, items)

LEMMA PlainExpands ==
  ASSUME NEW node, NEW cost, NEW items, IsSeq(items), Moves(items, 0, Results(node)), Len(labels) \in Nat,
         Emitting(node, cost, 0, items)
  PROVE  Expanded
<1>1. New(0) = {}
  BY DEF New
<1>2. ASSUME NEW h \in Nat, NEW d, NEW u, NEW m, NEW o, NEW lh \in [Old -> Nat], Around(d, u, m, o)
      PROVE  \E lh2 \in [Old \cup New(0) -> Nat], m2 \in SUBSET New(0) :
               /\ \A l \in Old : lh2[l] = lh[l]
               /\ Leads(items, Pt(h, d, u \cup New(0), m \cup m2, 0, o),
                        Pt(h + Results(node), d, u, m, 0, o), lh2)
  <2>1. h + 0 = h
    OBVIOUS
  <2>2. Leads(items, Pt(h, d, u, m, 0, o), Pt(h + Results(node), d, u, m, 0, o), lh)
    BY <1>2, <2>1 DEF Moves
  <2>3. u \cup New(0) = u /\ m \cup {} = m /\ Old \cup New(0) = Old /\ {} \in SUBSET New(0)
    BY <1>1
  <2>4. Leads(items, Pt(h, d, u \cup New(0), m \cup {}, 0, o), Pt(h + Results(node), d, u, m, 0, o), lh)
    BY <2>2, <2>3
  <2>5. lh \in [Old \cup New(0) -> Nat]
    BY <2>3
  <2>6. QED
    BY <2>3, <2>4, <2>5
<1>3. Expands(node, 0, items)
  BY <1>2, ZenonT(60) DEF Expands
<1>4. 0 \in Nat /\ Emitting(node, cost, 0, items) /\ IsSeq(items) /\ Expands(node, 0, items)
  BY <1>3
<1>5. QED
  BY <1>4, Zenon DEF Expanded

LEMMA MovesSeq ==
  ASSUME NEW s, NEW i \in Nat, NEW j \in Nat, Moves(s, i, j)
  PROVE  IsSeq(s)
<1>1. Around(2, {}, {}, {})
  BY DEF Around
<1>2. Leads(s, Pt(0 + i, 2, {}, {}, 0, {}), Pt(0 + j, 2, {}, {}, 0, {}), <<>>)
  BY <1>1 DEF Moves
<1>3. QED
  BY <1>2 DEF Leads

LEMMA MovesExpands ==
  ASSUME NEW node, NEW cost, NEW items, Moves(items, 0, Results(node)), Len(labels) \in Nat,
         Emitting(node, cost, 0, items)
  PROVE  Expanded
<1>1. Results(node) \in Nat
  BY DEF Results
<1>2. IsSeq(items)
  BY <1>1, MovesSeq
<1>3. QED
  BY <1>2, PlainExpands

LEMMA ResultsOf ==
  Results("expr") = 1 /\ Results("value") = 1 /\ Results("stmt") = 0 /\ Results("stmts") = 0
BY DEF Results

LEMMA ExpressionsExpand ==
  ASSUME Len(labels) \in Nat,
         LoadLiteral \/ LoadIdentifier \/ LoadXInfix \/ LoadXUnary \/ LoadInc \/ LoadXMsg
         \/ LoadTuple \/ LoadXParen \/ LoadXBlock
  PROVE  Expanded
<1>1. ASSUME NEW cost, NEW items, Moves(items, 0, 1), Emitting("expr", cost, 0, items)
      PROVE  Expanded
  BY <1>1, MovesExpands, ResultsOf
<1>2. CASE LoadLiteral
  BY <1>1, <1>2, PlainMoves DEF LoadLiteral
<1>3. CASE LoadIdentifier
  BY <1>1, <1>3, NameMoves DEF LoadIdentifier
<1>4. Moves(Msg(0), 0, 1) /\ Moves(Msg(1), 1, 1) /\ Moves(Msg(2), 2, 1) /\ Moves(Msg(3), 3, 1)
  BY PlainMoves
<1>5. Moves(Node("expr") \o Node("expr") \o Msg(2), 0, 1)
  BY <1>4, NodeMoves, MovesJoin
<1>6. Moves(Node("expr") \o Msg(1), 0, 1)
  BY <1>4, NodeMoves, MovesJoin
<1>7. CASE LoadXInfix
  BY <1>1, <1>5, <1>7 DEF LoadXInfix
<1>8. CASE LoadXUnary
  BY <1>1, <1>6, <1>8 DEF LoadXUnary
<1>9. CASE LoadInc
  <2>1. PICK x \in Name :
          Emitting("expr", 1, 0, LoadName(x) \o Ins("ldc") \o Msg(2) \o Ins("dup") \o StoreName(x))
    BY <1>9 DEF LoadInc
  <2>2. Moves(LoadName(x) \o Ins("ldc") \o Msg(2), 0, 1)
    BY <1>4, NameMoves, PlainMoves, MovesJoin
  <2>3. Moves(LoadName(x) \o Ins("ldc") \o Msg(2) \o Ins("dup") \o StoreName(x), 0, 1)
    BY <2>2, NameMoves, PlainMoves, MovesJoin
  <2>4. QED
    BY <1>1, <2>1, <2>3
<1>10. CASE LoadXMsg
  <2>1. CASE Emitting("expr", 1, 0, Node("expr") \o Msg(1))
    BY <1>1, <1>6, <2>1
  <2>2. CASE Emitting("expr", 1, 0, Curried("curry keyword"))
    <3>1. Curried("curry keyword") = Node("expr") \o Node("expr") \o Ins("ldc") \o Msg(3)
      BY DEF Curried
    <3>2. Moves(Node("expr") \o Node("expr") \o Ins("ldc") \o Msg(3), 0, 1)
      BY <1>4, NodeMoves, PlainMoves, MovesJoin
    <3>3. QED
      BY <1>1, <2>2, <3>1, <3>2
  <2>3. CASE "curry" \in Construct /\ Emitting("expr", 1, 0, Curried("curry"))
    <3>1. Curried("curry") = Node("expr") \o <<>> \o Ins("ldc") \o Msg(3)
      BY DEF Curried
    <3>2. Moves(<<>>, 1, 1) /\ Moves(Msg(3), 2, 1)
      BY <2>3, MovesNothing, PlainMoves DEF NoCurries
    <3>3. Moves(Node("expr") \o <<>> \o Ins("ldc") \o Msg(3), 0, 1)
      BY <3>2, NodeMoves, PlainMoves, MovesJoin
    <3>4. QED
      BY <1>1, <2>3, <3>1, <3>3
  <2>4. QED
    BY <1>10, <2>1, <2>2, <2>3 DEF LoadXMsg
<1>11. CASE LoadTuple
  BY <1>1, <1>4, <1>5, <1>11 DEF LoadTuple
<1>12. CASE LoadXParen
  <2>1. PICK x \in Name : Emitting("expr", 1, 0, Paren({"Bind", "Eval", "Scope"}, x))
    BY <1>12 DEF LoadXParen
  <2>2. Moves(Paren({"Bind", "Eval", "Scope"}, x), 0, 1)
    BY ParenMoves
  <2>3. QED
    BY <1>1, <2>1, <2>2
<1>13. CASE LoadXBlock
  <2>1. Moves(OpenScope \o Node("stmts") \o ApplyScope, 0, 0)
    <3> DEFINE s == OpenScope \o Node("stmts") \o ApplyScope
    <3>1. ASSUME NEW h \in Nat, NEW d, NEW u, NEW n, NEW o, NEW lh, Around(d, u, n, o)
          PROVE  Leads(s, Pt(h + 0, d, u, n, 0, o), Pt(h + 0, d, u, n, 0, o), lh)
      <4>1. Around(d + 1, u, n, o) /\ h + 0 = h
        BY <3>1 DEF Around
      <4>2. Leads(OpenScope, Pt(h + 0, d, u, n, 0, o), Pt(h + 0, d + 1, u, n, 0, o), lh)
        BY <3>1, <4>1, ScopeLeads
      <4>3. Leads(ApplyScope, Pt(h + 0, d + 1, u, n, 0, o), Pt(h + 0, d, u, n, 0, o), lh)
        BY <3>1, <4>1, ScopeLeads
      <4>4. Leads(Node("stmts"), Pt(h + 0, d + 1, u, n, 0, o), Pt(h + 0, d + 1, u, n, 0, o), lh)
        BY <4>1, NodeMoves DEF Moves
      <4>5. QED
        BY <4>2, <4>3, <4>4, LeadsJoin
    <3> HIDE DEF s
    <3>2. Moves(s, 0, 0)
      BY <3>1 DEF Moves
    <3>3. QED
      BY <3>2 DEF s
  <2>2. Moves(OpenScope \o Node("stmts") \o ApplyScope \o Ins("ldc"), 0, 1)
    BY <2>1, PlainMoves, MovesJoin
  <2>3. QED
    BY <1>1, <1>13, <2>2 DEF LoadXBlock
<1>14. QED
  BY <1>2, <1>3, <1>7, <1>8, <1>9, <1>10, <1>11, <1>12, <1>13

LEMMA StatementsExpand ==
  ASSUME Len(labels) \in Nat,
         EmitStmts \/ EmitExpr \/ EmitDecl \/ EmitAssign \/ LoadAssignValue \/ EmitBinding \/ EmitReturn
  PROVE  Expanded
<1>1. ASSUME NEW cost, NEW items, Moves(items, 0, 0),
             Emitting("stmt", cost, 0, items) \/ Emitting("stmts", cost, 0, items)
      PROVE  Expanded
  BY <1>1, MovesExpands, ResultsOf
<1>2. Moves(<<>>, 0, 0)
  BY MovesNothing
<1>3. CASE EmitStmts
  <2>1. Moves(Node("stmt") \o Node("stmts"), 0, 0)
    BY NodeMoves, MovesJoin
  <2>2. QED
    BY <1>1, <1>2, <1>3, <2>1 DEF EmitStmts
<1>4. CASE EmitExpr
  <2>1. Moves(Node("expr") \o Ins("pop"), 0, 0)
    BY NodeMoves, PlainMoves, MovesJoin
  <2>2. QED
    BY <1>1, <1>4, <2>1 DEF EmitExpr
<1>5. CASE EmitDecl
  BY <1>1, <1>2, <1>5 DEF EmitDecl
<1>6. ASSUME NEW x \in Name
      PROVE  Moves(SAssign(x, FALSE), 0, 1) /\ Moves(SAssign(x, TRUE), 0, 1)
  <2>1. Moves(Ins("dup") \o StoreName(x), 1, 1)
    BY NameMoves, PlainMoves, MovesJoin
  <2>2. Moves(<<>>, 0, 0) /\ Moves(<<>>, 1, 1) /\ Moves(Msg(2), 2, 1)
    BY MovesNothing, PlainMoves
  <2>3. SAssign(x, FALSE) = <<>> \o Node("value") \o <<>> \o Ins("dup") \o StoreName(x)
    BY DEF SAssign
  <2>4. SAssign(x, TRUE) = LoadName(x) \o Node("value") \o Msg(2) \o Ins("dup") \o StoreName(x)
    BY DEF SAssign
  <2>5. Moves(<<>> \o Node("value") \o <<>>, 0, 1)
    BY <2>2, NodeMoves, MovesJoin
  <2>6. Moves(LoadName(x) \o Node("value") \o Msg(2), 0, 1)
    BY <2>2, NodeMoves, NameMoves, MovesJoin
  <2>7. Moves(<<>> \o Node("value") \o <<>> \o Ins("dup") \o StoreName(x), 0, 1)
    BY <2>5, NameMoves, PlainMoves, MovesJoin
  <2>8. Moves(LoadName(x) \o Node("value") \o Msg(2) \o Ins("dup") \o StoreName(x), 0, 1)
    BY <2>6, NameMoves, PlainMoves, MovesJoin
  <2>9. QED
    BY <2>3, <2>4, <2>7, <2>8
<1>7. CASE EmitAssign
  <2>1. PICK x \in Name, op \in BOOLEAN : Emitting("stmt", 0, 0, SAssign(x, op) \o Ins("pop"))
    BY <1>7 DEF EmitAssign
  <2>2. Moves(SAssign(x, op) \o Ins("pop"), 0, 0)
    BY <1>6, PlainMoves, MovesJoin
  <2>3. QED
    BY <1>1, <2>1, <2>2
<1>8. CASE LoadAssignValue
  <2>1. ASSUME NEW cost, NEW items, Moves(items, 0, 1), Emitting("value", cost, 0, items)
        PROVE  Expanded
    BY <2>1, MovesExpands, ResultsOf
  <2>2. CASE Emitting("value", 0, 0, Node("expr"))
    BY <2>1, <2>2, NodeMoves
  <2>3. CASE \E x \in Name : Emitting("value", 1, 0, SAssign(x, FALSE))
    BY <1>6, <2>1, <2>3
  <2>4. QED
    BY <1>8, <2>2, <2>3 DEF LoadAssignValue
<1>9. CASE EmitBinding
  <2>1. PICK x \in Name : Emitting("stmt", 0, 0, Node("expr") \o BindName(x))
    BY <1>9 DEF EmitBinding
  <2>2. Moves(Node("expr") \o BindName(x), 0, 0)
    BY NodeMoves, NameMoves, MovesJoin
  <2>3. QED
    BY <1>1, <2>1, <2>2
<1>10. CASE EmitReturn
  <2>1. "return" \in Construct /\ Emitting("stmt", 0, 0, Node("expr") \o Ins("ret"))
    BY <1>10 DEF EmitReturn
  <2>2. Moves(Node("expr") \o Ins("ret"), 0, 0)
    BY <2>1, NodeMoves, PlainMoves, MovesJoin
  <2>3. QED
    BY <1>1, <2>1, <2>2
<1>11. QED
  BY <1>3, <1>4, <1>5, <1>7, <1>8, <1>9, <1>10

LEMMA ExpandsSeq ==
  ASSUME NEW node, NEW n, NEW items, Expands(node, n, items)
  PROVE  IsSeq(items)
<1> DEFINE lh == [l \in Old |-> 0]
<1>1. lh \in [Old -> Nat] /\ Around(2, {}, {}, {}) /\ \A p \in {} : p[1] \in Old
  BY DEF Around
<1> HIDE DEF lh
<1>2. \E lh2 \in [Old \cup New(n) -> Nat], m2 \in SUBSET New(n) :
        Leads(items, Pt(0, 2, {} \cup New(n), {} \cup m2, 0, {}), Pt(0 + Results(node), 2, {}, {}, 0, {}), lh2)
  BY <1>1 DEF Expands
<1>3. QED
  BY <1>2 DEF Leads

LEMMA BranchesExpand ==
  ASSUME Len(labels) \in Nat, NEW x \in Name \cup {NoName}, NEW child \in {"expr", "stmt"},
         NEW orElse \in BOOLEAN, orElse \/ child = "stmt", NEW n \in Nat, n = IF orElse THEN 2 ELSE 1,
         NEW cost, Emitting(child, cost, n, Branches(x, child, orElse))
  PROVE  Expanded
<1> DEFINE items == Branches(x, child, orElse)
           E == Len(labels) + 1
           D == Len(labels) + 2
           k == Results(child)
<1>1. E = NewLabel(1) /\ D = NewLabel(2)
  BY DEF NewLabel
<1>2. New(n) = IF orElse THEN {E, D} ELSE {E}
  <2>1. New(1) = {E} /\ New(2) = {E, D}
    BY DEF New
  <2>2. QED
    BY <2>1
<1>3. E \notin Old /\ D \notin Old /\ E # D /\ k \in Nat
  BY DEF Old, Results
<1>4. ASSUME NEW h \in Nat, NEW d, NEW u, NEW m, NEW o, NEW lh \in [Old -> Nat], Around(d, u, m, o),
             u \subseteq Old, m \subseteq Old, \A p \in o : p[1] \in Old
      PROVE  \E lh2 \in [Old \cup New(n) -> Nat], m2 \in SUBSET New(n) :
               /\ \A l \in Old : lh2[l] = lh[l]
               /\ Leads(items, Pt(h, d, u \cup New(n), m \cup m2, 0, o), Pt(h + k, d, u, m, 0, o), lh2)
  <2> DEFINE lh2 == [l \in Old \cup New(n) |-> IF l \in Old THEN lh[l] ELSE IF l = E THEN h ELSE h + k]
  <2>1. lh2 \in [Old \cup New(n) -> Nat]
    BY <1>3
  <2>2. \A l \in Old : lh2[l] = lh[l]
    OBVIOUS
  <2>3. E \in DOMAIN lh2 /\ lh2[E] = h
    BY <1>2, <1>3
  <2>4. orElse => D \in DOMAIN lh2 /\ lh2[D] = h + k
    BY <1>2, <1>3
  <2>5. E \notin u /\ D \notin u /\ E \notin m /\ \A p \in o : p[1] # E
    BY <1>3, <1>4
  <2>6. {E} \in SUBSET New(n)
    BY <1>2
  <2> HIDE DEF lh2, E, D, items
  <2>7. Leads(items, Pt(h, d, u \cup (IF orElse THEN {E, D} ELSE {E}), m \cup {E}, 0, o),
              Pt(h + k, d, u, m, 0, o), lh2)
    BY <1>1, <1>4, <2>3, <2>4, <2>5, BranchesLead DEF items
  <2>8. Leads(items, Pt(h, d, u \cup New(n), m \cup {E}, 0, o), Pt(h + k, d, u, m, 0, o), lh2)
    BY <1>2, <2>7
  <2>9. QED
    BY <2>1, <2>2, <2>6, <2>8
<1> HIDE DEF E, D, items
<1>5. Expands(child, n, items)
  BY <1>4, ZenonT(60) DEF Expands
<1>6. IsSeq(items)
  BY <1>5, ExpandsSeq
<1>7. Emitting(child, cost, n, items)
  BY DEF items
<1>8. QED
  BY <1>5, <1>6, <1>7 DEF Expanded

LEMMA LoopExpands ==
  ASSUME Len(labels) \in Nat, ~NoLoops, NEW x \in Name \cup {NoName}, NEW orElse \in BOOLEAN,
         NEW cost, Emitting("stmt", cost, 3, Loop(x, orElse))
  PROVE  Expanded
<1> DEFINE items == Loop(x, orElse)
           A == Len(labels) + 1
           T == Len(labels) + 2
           B == Len(labels) + 3
<1>1. A = NewLabel(1) /\ T = NewLabel(2) /\ B = NewLabel(3)
  BY DEF NewLabel
<1>2. New(3) = {A, T, B}
  BY DEF New
<1>3. A \notin Old /\ T \notin Old /\ B \notin Old
  BY DEF Old
<1>4. ASSUME NEW h \in Nat, NEW d, NEW u, NEW m, NEW o, NEW lh \in [Old -> Nat], Around(d, u, m, o),
             u \subseteq Old
      PROVE  \E lh2 \in [Old \cup New(3) -> Nat], m2 \in SUBSET New(3) :
               /\ \A l \in Old : lh2[l] = lh[l]
               /\ Leads(items, Pt(h, d, u \cup New(3), m \cup m2, 0, o),
                        Pt(h + Results("stmt"), d, u, m, 0, o), lh2)
  <2> DEFINE lh2 == [l \in Old \cup New(3) |-> IF l \in Old THEN lh[l] ELSE h]
  <2>1. lh2 \in [Old \cup New(3) -> Nat]
    OBVIOUS
  <2>2. \A l \in Old : lh2[l] = lh[l]
    OBVIOUS
  <2>3. {A, T, B} \subseteq DOMAIN lh2 /\ lh2[A] = h /\ lh2[T] = h /\ lh2[B] = h
    BY <1>2, <1>3
  <2>4. A \notin u /\ T \notin u /\ B \notin u
    BY <1>3, <1>4
  <2> HIDE DEF lh2, A, T, B, items
  <2>5. Leads(items, Pt(h, d, u \cup {A, T, B}, m, 0, o), Pt(h, d, u, m, 0, o), lh2)
    BY <1>1, <1>4, <2>3, <2>4, LoopLead DEF items
  <2>6. m \cup {} = m /\ h + Results("stmt") = h /\ {} \in SUBSET New(3)
    BY ResultsOf
  <2>7. Leads(items, Pt(h, d, u \cup New(3), m \cup {}, 0, o), Pt(h + Results("stmt"), d, u, m, 0, o), lh2)
    BY <1>2, <2>5, <2>6
  <2>8. QED
    BY <2>1, <2>2, <2>6, <2>7
<1> HIDE DEF A, T, B, items
<1>5. Expands("stmt", 3, items)
  BY <1>4, ZenonT(60) DEF Expands
<1>6. IsSeq(items)
  BY <1>5, ExpandsSeq
<1>7. 3 \in Nat /\ Emitting("stmt", cost, 3, items)
  BY DEF items
<1>8. QED
  BY <1>5, <1>6, <1>7 DEF Expanded

LEMMA NodesExpand ==
  ASSUME Len(labels) \in Nat, EmitNode
  PROVE  Expanded
<1>1. Where(Name) \subseteq Name \cup {NoName}
  BY DEF Where
<1>2. CASE LoadXControl
  <2>1. PICK x \in Where(Name) : Emitting("expr", 1, 2, Branches(x, "expr", TRUE))
    BY <1>2 DEF LoadXControl
  <2>2. QED
    BY <1>1, <2>1, BranchesExpand
<1>3. CASE EmitIf
  <2>1. PICK x \in Where(Name) : \/ Emitting("stmt", 1, 1, Branches(x, "stmt", FALSE))
                                 \/ Emitting("stmt", 1, 2, Branches(x, "stmt", TRUE))
    BY <1>3 DEF EmitIf
  <2>2. QED
    BY <1>1, <2>1, BranchesExpand
<1>4. CASE EmitLoop
  <2>1. PICK x \in Where(Name) : \/ "loop" \in Construct /\ Emitting("stmt", 1, 3, Loop(x, FALSE))
                                 \/ "loop else" \in Construct /\ Emitting("stmt", 1, 3, Loop(x, TRUE))
    BY <1>4 DEF EmitLoop
  <2>2. ~NoLoops
    BY <2>1 DEF NoLoops
  <2>3. QED
    BY <1>1, <2>1, <2>2, LoopExpands
<1>5. QED
  BY <1>2, <1>3, <1>4, ExpressionsExpand, StatementsExpand DEF EmitNode

-----------------------------------------------------------------------------
(* While a function is compiled, what is left to do fits what was done.    *)

Heights(cd, lb, lh, hc) ==
  /\ hc \in [1..Len(cd) + 1 -> Nat] /\ hc[1] = 0
  /\ \A i \in 1..Len(cd) : StackStep(cd[i], hc[i], hc[i + 1], lh)
  /\ \A l \in 1..Len(lb) : lb[l] # NoPos => lb[l] \in 1..Len(cd) + 1 /\ hc[lb[l]] = lh[l]

\* The code cd with the labels lb, of the heights lh, ends at the height h.
CodeFlows(cd, lb, lh, h) ==
  /\ IsSeq(cd) /\ IsSeq(lb) /\ lh \in [1..Len(lb) -> Nat]
  /\ \E hc : Heights(cd, lb, lh, hc) /\ hc[Len(cd) + 1] = h

\* What is left to do leads from a to the end of the function.
Ahead(a, lh) ==
  \E b :
    /\ b.d = 2 /\ b.u = {}
    /\ \/ Leads(todo, a, b, lh)
       \/ /\ todo # <<>> /\ Head(todo).do = "merge"
          /\ \E c \in Points : Step(Head(todo), a, c, lh) /\ Leads(Tail(todo), c, b, lh)

Pending == {l \in Old : labels[l] = NoPos}

Flows(a, lh) ==
  /\ a \in Points /\ IsSeq(todo) /\ IsSeq(scopes) /\ IsSeq(ids) /\ Len(ids) = Len(labels)
  /\ a.d = Len(scopes) /\ a.u = Pending
  /\ a.n \subseteq Old /\ a.r \in {0} \cup Old /\ \A p \in a.o : p[1] \in Old
  /\ CodeFlows(code, labels, lh, a.h)
  /\ Ahead(a, lh)

LEMMA CodeGrows ==
  ASSUME NEW cd, NEW lb, NEW lh, NEW h, NEW ins, NEW h2 \in Nat,
         CodeFlows(cd, lb, lh, h), StackStep(ins, h, h2, lh)
  PROVE  CodeFlows(Append(cd, ins), lb, lh, h2)
<1>1. PICK hc : Heights(cd, lb, lh, hc) /\ hc[Len(cd) + 1] = h
  BY DEF CodeFlows
<1>2. IsSeq(cd) /\ IsSeq(lb) /\ lh \in [1..Len(lb) -> Nat]
  BY DEF CodeFlows
<1> DEFINE m == Len(cd)
           cd2 == Append(cd, ins)
           hc2 == [i \in 1..(m + 1) + 1 |-> IF i <= m + 1 THEN hc[i] ELSE h2]
<1>3. m \in Nat
  BY <1>2, SeqFacts
<1>4. /\ IsSeq(cd2) /\ Len(cd2) = m + 1 /\ cd2[m + 1] = ins
      /\ \A i \in 1..m : cd2[i] = cd[i]
  BY <1>2, AppendSeq
<1>5. /\ hc \in [1..m + 1 -> Nat] /\ hc[1] = 0 /\ hc[m + 1] = h
      /\ \A i \in 1..m : StackStep(cd[i], hc[i], hc[i + 1], lh)
      /\ \A l \in 1..Len(lb) : lb[l] # NoPos => lb[l] \in 1..m + 1 /\ hc[lb[l]] = lh[l]
  BY <1>1 DEF Heights
<1> HIDE DEF m, cd2
<1>6. hc2 \in [1..(m + 1) + 1 -> Nat] /\ hc2[(m + 1) + 1] = h2
  BY <1>3, <1>5
<1>7. \A i \in 1..m + 1 : hc2[i] = hc[i] /\ i \in 1..(m + 1) + 1
  BY <1>3
<1> HIDE DEF hc2
<1>8. hc2[1] = 0
  BY <1>3, <1>5, <1>7
<1>9. \A i \in 1..m + 1 : StackStep(cd2[i], hc2[i], hc2[i + 1], lh)
  <2> SUFFICES ASSUME NEW i \in 1..m + 1 PROVE StackStep(cd2[i], hc2[i], hc2[i + 1], lh)
    OBVIOUS
  <2>1. CASE i = m + 1
    <3>1. hc2[i] = h /\ hc2[i + 1] = h2 /\ cd2[i] = ins
      BY <1>3, <1>4, <1>5, <1>6, <1>7, <2>1
    <3>2. QED
      BY <3>1
  <2>2. CASE i # m + 1
    <3>1. i \in 1..m /\ i + 1 \in 1..m + 1
      BY <1>3, <2>2
    <3>2. QED
      BY <1>4, <1>5, <1>7, <3>1
  <2>3. QED
    BY <2>1, <2>2
<1>10. \A l \in 1..Len(lb) : lb[l] # NoPos => lb[l] \in 1..(m + 1) + 1 /\ hc2[lb[l]] = lh[l]
  BY <1>5, <1>7
<1>11. Heights(cd2, lb, lh, hc2)
  BY <1>4, <1>6, <1>8, <1>9, <1>10 DEF Heights
<1>12. \E k : Heights(cd2, lb, lh, k) /\ k[Len(cd2) + 1] = h2
  BY <1>4, <1>6, <1>11
<1>13. QED
  BY <1>2, <1>4, <1>12 DEF CodeFlows, cd2

LEMMA LabelPlaced ==
  ASSUME NEW cd, NEW lb, NEW lh, NEW h, NEW l \in 1..Len(lb), lh[l] = h, CodeFlows(cd, lb, lh, h)
  PROVE  CodeFlows(cd, [lb EXCEPT ![l] = Len(cd) + 1], lh, h)
<1>1. PICK hc : Heights(cd, lb, lh, hc) /\ hc[Len(cd) + 1] = h
  BY DEF CodeFlows
<1>2. IsSeq(cd) /\ IsSeq(lb) /\ lh \in [1..Len(lb) -> Nat]
  BY DEF CodeFlows
<1> DEFINE lb2 == [lb EXCEPT ![l] = Len(cd) + 1]
<1>3. Len(cd) \in Nat
  BY <1>2, SeqFacts
<1>4. PICK S : lb \in Seq(S)
  BY <1>2 DEF IsSeq
<1>5. lb2 \in Seq(S \cup {Len(cd) + 1}) /\ Len(lb2) = Len(lb)
  <2>1. lb \in Seq(S \cup {Len(cd) + 1})
    BY <1>4
  <2>2. QED
    BY <2>1
<1>6. \A k \in 1..Len(lb) : lb2[k] = IF k = l THEN Len(cd) + 1 ELSE lb[k]
  BY <1>4
<1> HIDE DEF lb2
<1>7. Heights(cd, lb2, lh, hc)
  <2>1. \A k \in 1..Len(lb2) : lb2[k] # NoPos => lb2[k] \in 1..Len(cd) + 1 /\ hc[lb2[k]] = lh[k]
    <3> SUFFICES ASSUME NEW k \in 1..Len(lb2), lb2[k] # NoPos
                 PROVE  lb2[k] \in 1..Len(cd) + 1 /\ hc[lb2[k]] = lh[k]
      OBVIOUS
    <3>1. CASE k = l
      BY <1>1, <1>3, <1>5, <1>6, <3>1
    <3>2. CASE k # l
      BY <1>1, <1>5, <1>6, <3>2 DEF Heights
    <3>3. QED
      BY <3>1, <3>2
  <2>2. QED
    BY <1>1, <2>1 DEF Heights
<1>8. IsSeq(lb2)
  BY <1>5 DEF IsSeq
<1>9. CodeFlows(cd, lb2, lh, h)
  BY <1>1, <1>2, <1>5, <1>7, <1>8 DEF CodeFlows
<1>10. QED
  BY <1>9 DEF lb2

LEMMA LabelsBegun ==
  ASSUME NEW cd, NEW lb, NEW lh, NEW h, NEW n \in Nat, CodeFlows(cd, lb, lh, h),
         NEW lh2 \in [1..Len(lb) + n -> Nat], \A l \in 1..Len(lb) : lh2[l] = lh[l]
  PROVE  /\ CodeFlows(cd, lb \o [l \in 1..n |-> NoPos], lh2, h)
         /\ Len(lb \o [l \in 1..n |-> NoPos]) = Len(lb) + n /\ Len(lb) \in Nat
         /\ \A l \in 1..Len(lb) : (lb \o [k \in 1..n |-> NoPos])[l] = lb[l]
         /\ \A l \in Len(lb) + 1..Len(lb) + n : (lb \o [k \in 1..n |-> NoPos])[l] = NoPos
<1>1. PICK hc : Heights(cd, lb, lh, hc) /\ hc[Len(cd) + 1] = h
  BY DEF CodeFlows
<1>2. IsSeq(cd) /\ IsSeq(lb) /\ lh \in [1..Len(lb) -> Nat]
  BY DEF CodeFlows
<1> DEFINE new == [l \in 1..n |-> NoPos]
           lb2 == lb \o new
<1>3. IsSeq(new) /\ Len(new) = n
  <2>1. new \in Seq({NoPos})
    OBVIOUS
  <2>2. Len(new) = n
    OBVIOUS
  <2>3. QED
    BY <2>1, <2>2 DEF IsSeq
<1>4. \A l \in 1..n : new[l] = NoPos
  OBVIOUS
<1>5. Len(lb) \in Nat
  BY <1>2, SeqFacts
<1> HIDE DEF new
<1>6. /\ IsSeq(lb2) /\ Len(lb2) = Len(lb) + n
      /\ \A l \in 1..Len(lb) : lb2[l] = lb[l]
      /\ \A l \in 1..n : lb2[Len(lb) + l] = NoPos
  BY <1>2, <1>3, <1>4, JoinSeq
<1> HIDE DEF lb2
<1>7. \A l \in Len(lb) + 1..Len(lb) + n : lb2[l] = NoPos
  <2> SUFFICES ASSUME NEW l \in Len(lb) + 1..Len(lb) + n PROVE lb2[l] = NoPos
    OBVIOUS
  <2>1. l - Len(lb) \in 1..n /\ Len(lb) + (l - Len(lb)) = l
    BY <1>5
  <2>2. lb2[Len(lb) + (l - Len(lb))] = NoPos
    BY <1>6, <2>1
  <2>3. QED
    BY <2>1, <2>2
<1>8. ASSUME NEW ins, NEW h1, NEW h2, StackStep(ins, h1, h2, lh)
      PROVE  StackStep(ins, h1, h2, lh2)
  <2>1. DOMAIN lh = 1..Len(lb) /\ DOMAIN lh2 = 1..Len(lb) + n /\ DOMAIN lh \subseteq DOMAIN lh2
    BY <1>2, <1>5
  <2>2. QED
    BY <1>8, <2>1 DEF StackStep
<1>9. \A l \in 1..Len(lb2) : lb2[l] # NoPos => l \in 1..Len(lb)
  BY <1>5, <1>6, <1>7
<1>10. Heights(cd, lb2, lh2, hc)
  <2>1. /\ hc \in [1..Len(cd) + 1 -> Nat] /\ hc[1] = 0
        /\ \A i \in 1..Len(cd) : StackStep(cd[i], hc[i], hc[i + 1], lh)
        /\ \A l \in 1..Len(lb) : lb[l] # NoPos => lb[l] \in 1..Len(cd) + 1 /\ hc[lb[l]] = lh[l]
    BY <1>1 DEF Heights
  <2>2. \A l \in 1..Len(lb2) : lb2[l] # NoPos => lb2[l] \in 1..Len(cd) + 1 /\ hc[lb2[l]] = lh2[l]
    BY <1>6, <1>9, <2>1
  <2>3. QED
    BY <1>8, <2>1, <2>2 DEF Heights
<1>11. CodeFlows(cd, lb2, lh2, h)
  BY <1>1, <1>2, <1>6, <1>10 DEF CodeFlows
<1>12. QED
  BY <1>5, <1>6, <1>7, <1>11 DEF lb2, new

LEMMA LeadsFacts ==
  ASSUME NEW s, NEW a, NEW b, NEW lh, Leads(s, a, b, lh)
  PROVE  a \in Points /\ IsSeq(s) /\ (s # <<>> => Head(s).do # "merge")
<1>1. PICK g : Flow(s, a, b, lh, g)
  BY DEF Leads
<1>2. IsSeq(s)
  BY DEF Leads
<1>3. Len(s) \in Nat
  BY <1>2, SeqFacts
<1>4. g \in [1..Len(s) + 1 -> Points] /\ g[1] = a /\ 1 \in 1..Len(s) + 1
  BY <1>1, <1>3 DEF Flow
<1>5. QED
  BY <1>2, <1>4, LeadsOn

\* The next item is done from here, and the rest after it.
LEMMA AheadOn ==
  ASSUME NEW a \in Points, NEW lh, Ahead(a, lh), todo # <<>>
  PROVE  \E b : /\ b.d = 2 /\ b.u = {}
                /\ \E c \in Points : Step(Head(todo), a, c, lh) /\ Leads(Tail(todo), c, b, lh)
<1>1. PICK b : /\ b.d = 2 /\ b.u = {}
               /\ \/ Leads(todo, a, b, lh)
                  \/ \E c \in Points : Step(Head(todo), a, c, lh) /\ Leads(Tail(todo), c, b, lh)
  BY DEF Ahead
<1>2. \E c \in Points : Step(Head(todo), a, c, lh) /\ Leads(Tail(todo), c, b, lh)
  BY <1>1, LeadsOn
<1>3. QED
  BY <1>1, <1>2

LEMMA AheadEnd ==
  ASSUME NEW a \in Points, NEW lh, Ahead(a, lh), todo = <<>>
  PROVE  a.d = 2 /\ a.u = {}
<1>1. PICK b : b.d = 2 /\ b.u = {} /\ Leads(todo, a, b, lh)
  BY DEF Ahead
<1>2. a = b
  BY <1>1, LeadsEnd
<1>3. QED
  BY <1>1, <1>2

\* How the labels a place names pass from one place to the next.
Linked(a, a2) ==
  /\ Head(todo).do = "node" =>
       \E n \in Nat :
         /\ BeginLabels(n) /\ a.r = 0 /\ a2.r = 0 /\ a2.o = a.o
         /\ a.n \subseteq a2.n /\ a2.n \subseteq a.n \cup New(n)
  /\ NoLoops /\ Head(todo).do # "node" =>
       \E c \in Points :
         /\ Discipline(Head(todo), a, c)
         /\ a2.r = c.r /\ a2.n = c.n
         /\ a2.o = IF todo' # <<>> /\ Head(todo').do = "merge" THEN a.o ELSE c.o
  /\ Head(todo).do \notin {"apply", "merge"} /\ todo' # <<>> => Head(todo').do # "merge"

LEMMA NoPosFacts ==
  NoPos \notin Nat
BY DEF NoPos

LEMMA PointIs ==
  ASSUME NEW a \in Points
  PROVE  /\ a = Pt(a.h, a.d, a.u, a.n, a.r, a.o) /\ Around(a.d, a.u, a.n, a.o)
         /\ a.h \in Nat /\ a.r \in Nat /\ a.d \in Nat
BY DEF Points, Pt, Around

LEMMA PointSame ==
  ASSUME NEW a \in Points, NEW b \in Points,
         a.h = b.h, a.d = b.d, a.u = b.u, a.n = b.n, a.r = b.r, a.o = b.o
  PROVE  a = b
<1>1. a = Pt(a.h, a.d, a.u, a.n, a.r, a.o) /\ b = Pt(b.h, b.d, b.u, b.n, b.r, b.o)
  BY PointIs
<1>2. QED
  BY <1>1

LEMMA NodeFlows ==
  ASSUME NEW a, NEW lh, Flows(a, lh), EmitNode
  PROVE  \E a2, lh2 : Flows(a2, lh2)' /\ Linked(a, a2)
<1>1. /\ a \in Points /\ IsSeq(todo) /\ IsSeq(scopes) /\ IsSeq(ids) /\ Len(ids) = Len(labels)
      /\ a.d = Len(scopes) /\ a.u = Pending
      /\ a.n \subseteq Old /\ a.r \in {0} \cup Old /\ (\A p \in a.o : p[1] \in Old)
      /\ CodeFlows(code, labels, lh, a.h)
      /\ Ahead(a, lh)
  BY DEF Flows
<1>2. IsSeq(labels) /\ lh \in [Old -> Nat]
  BY <1>1 DEF CodeFlows, Old
<1>3. Len(labels) \in Nat
  BY <1>2, SeqFacts
<1>4. Expanded
  BY <1>3, NodesExpand
<1>k. PICK n \in Nat : \E node, cost, items :
        Emitting(node, cost, n, items) /\ IsSeq(items) /\ Expands(node, n, items)
  BY <1>4, Zenon DEF Expanded
<1>5. PICK node, cost, items :
        Emitting(node, cost, n, items) /\ IsSeq(items) /\ Expands(node, n, items)
  BY <1>k
<1>6. /\ todo # <<>> /\ Head(todo).do = "node" /\ Head(todo).node = node
      /\ BeginLabels(n) /\ todo' = items \o Tail(todo)
  BY <1>5 DEF Emitting, Compiling
<1>7. PICK b : /\ b.d = 2 /\ b.u = {}
               /\ \E c \in Points : Step(Head(todo), a, c, lh) /\ Leads(Tail(todo), c, b, lh)
  BY <1>1, <1>6, AheadOn
<1>8. PICK c \in Points : Step(Head(todo), a, c, lh) /\ Leads(Tail(todo), c, b, lh)
  BY <1>7
<1>9. /\ c.h = a.h + Results(node) /\ a.r = 0 /\ c.r = 0 /\ c.n = a.n /\ c.o = a.o /\ c.d = a.d /\ c.u = a.u
  BY <1>6, <1>8 DEF Step
<1>10. a.u \subseteq Old
  BY <1>1 DEF Pending
<1>11. PICK lh2 \in [Old \cup New(n) -> Nat], m2 \in SUBSET New(n) :
         /\ \A l \in Old : lh2[l] = lh[l]
         /\ Leads(items, Pt(a.h, a.d, a.u \cup New(n), a.n \cup m2, 0, a.o),
                  Pt(a.h + Results(node), a.d, a.u, a.n, 0, a.o), lh2)
  <2>1. a.h \in Nat /\ Around(a.d, a.u, a.n, a.o)
    BY <1>1, PointIs
  <2>2. Expands(node, n, items)
    BY <1>5
  <2>3. a.n \subseteq Old /\ \A p \in a.o : p[1] \in Old
    BY <1>1
  <2>4. lh \in [Old -> Nat]
    BY <1>2
  <2> DEFINE h == a.h
             d == a.d
             u == a.u
             m == a.n
             o == a.o
  <2>5. /\ h \in Nat /\ Around(d, u, m, o) /\ u \subseteq Old /\ m \subseteq Old
        /\ \A p \in o : p[1] \in Old
    BY <1>10, <2>1, <2>3
  <2> HIDE DEF h, d, u, m, o
  <2>a. h \in Nat
    BY <2>5
  <2>b. Around(d, u, m, o)
    BY <2>5
  <2>c. u \subseteq Old
    BY <2>5
  <2>d. m \subseteq Old
    BY <2>5
  <2>e. \A p \in o : p[1] \in Old
    BY <2>5
  <2>6. \E lh2 \in [Old \cup New(n) -> Nat], m2 \in SUBSET New(n) :
           /\ \A l \in Old : lh2[l] = lh[l]
           /\ Leads(items, Pt(h, d, u \cup New(n), m \cup m2, 0, o),
                    Pt(h + Results(node), d, u, m, 0, o), lh2)
    BY <2>2, <2>4, <2>a, <2>b, <2>c, <2>d, <2>e DEF Expands
  <2>7. QED
    BY <2>6 DEF h, d, u, m, o
<1>u. PICK u2 : u2 = a.u \cup New(n)
  OBVIOUS
<1>n. PICK n2 : n2 = a.n \cup m2
  OBVIOUS
<1>p. PICK a2 : a2 = Pt(a.h, a.d, u2, n2, 0, a.o)
  OBVIOUS
<1>12. c = Pt(a.h + Results(node), a.d, a.u, a.n, 0, a.o)
  BY <1>8, <1>9, PointIs
<1>13. Leads(Tail(todo), c, b, lh2)
  <2>1. DOMAIN lh \subseteq DOMAIN lh2 /\ \A l \in DOMAIN lh : lh2[l] = lh[l]
    BY <1>2, <1>11
  <2>2. QED
    BY <2>1, <1>8, LeadsMore
<1>14. Leads(todo', a2, b, lh2)
  BY <1>6, <1>11, <1>12, <1>13, <1>u, <1>n, <1>p, LeadsJoin
<1>15. New(n) \subseteq Nat /\ Old \cup New(n) = 1..Len(labels) + n /\ New(n) \cap Old = {}
  BY <1>3 DEF New, Old
<1>16. Around(a.d, u2, n2, a.o)
  BY <1>1, <1>11, <1>15, <1>u, <1>n, PointIs DEF Around
<1>17. /\ a2 \in Points /\ a2.h = a.h /\ a2.d = a.d /\ a2.u = u2 /\ a2.n = n2 /\ a2.r = 0 /\ a2.o = a.o
  BY <1>1, <1>16, <1>p, PtFacts, PointIs
<1>18. /\ labels' = labels \o [l \in 1..n |-> NoPos] /\ ids' = ids \o [l \in 1..n |-> <<>>]
       /\ UNCHANGED <<scopes, nextScopeId, code>>
  BY <1>6 DEF BeginLabels
<1>19. /\ CodeFlows(code, labels', lh2, a.h)
       /\ Len(labels') = Len(labels) + n
       /\ \A l \in Old : labels'[l] = labels[l]
       /\ \A l \in New(n) : labels'[l] = NoPos
  <2>1. lh2 \in [1..Len(labels) + n -> Nat] /\ \A l \in 1..Len(labels) : lh2[l] = lh[l]
    BY <1>11, <1>15 DEF Old
  <2>2. /\ CodeFlows(code, labels \o [l \in 1..n |-> NoPos], lh2, a.h)
        /\ Len(labels \o [l \in 1..n |-> NoPos]) = Len(labels) + n /\ Len(labels) \in Nat
        /\ \A l \in 1..Len(labels) : (labels \o [k \in 1..n |-> NoPos])[l] = labels[l]
        /\ \A l \in Len(labels) + 1..Len(labels) + n : (labels \o [k \in 1..n |-> NoPos])[l] = NoPos
    <3>1. CodeFlows(code, labels, lh, a.h)
      BY <1>1
    <3>2. QED
      BY <2>1, <3>1, LabelsBegun
  <2>3. QED
    BY <1>18, <2>2 DEF Old, New
<1>20. Old' = Old \cup New(n)
  BY <1>15, <1>19 DEF Old
<1>21. Pending' = u2
  <2>1. Pending' = {l \in Old' : labels'[l] = NoPos}
    BY DEF Pending
  <2>2. QED
    BY <1>1, <1>15, <1>19, <1>20, <2>1, <1>u DEF Pending
<1>22. IsSeq(ids') /\ Len(ids') = Len(labels')
  <2> DEFINE new == [l \in 1..n |-> <<>>]
  <2>1. IsSeq(new) /\ Len(new) = n
    <3>1. new \in Seq({<<>>}) /\ Len(new) = n
      OBVIOUS
    <3>2. QED
      BY <3>1 DEF IsSeq
  <2>2. ids' = ids \o new
    BY <1>18
  <2> HIDE DEF new
  <2>3. IsSeq(ids \o new) /\ Len(ids \o new) = Len(ids) + Len(new)
    BY <1>1, <2>1, JoinSeq
  <2>4. QED
    BY <1>1, <1>19, <2>1, <2>2, <2>3
<1>23. n2 \subseteq Old' /\ \A p \in a.o : p[1] \in Old'
  BY <1>1, <1>11, <1>20, <1>n
<1>24. IsSeq(todo')
  BY <1>14 DEF Leads
<1>25. Ahead(a2, lh2)'
  BY <1>7, <1>14 DEF Ahead
<1>26. Flows(a2, lh2)'
  <2>1. IsSeq(scopes') /\ a2.d = Len(scopes') /\ a2.u = Pending' /\ IsSeq(todo')
    BY <1>1, <1>17, <1>18, <1>21, <1>24
  <2>2. IsSeq(ids') /\ Len(ids') = Len(labels') /\ a2.n \subseteq Old' /\ a2.r \in {0} \cup Old'
        /\ \A p \in a2.o : p[1] \in Old'
    BY <1>17, <1>22, <1>23
  <2>3. CodeFlows(code', labels', lh2, a2.h)
    BY <1>17, <1>18, <1>19
  <2>4. QED
    BY <1>17, <1>25, <2>1, <2>2, <2>3 DEF Flows
<1>27. Linked(a, a2)
  BY <1>6, <1>9, <1>11, <1>14, <1>17, <1>n, LeadsFacts DEF Linked
<1>28. QED
  BY <1>26, <1>27

\* What Flows says.
LEMMA FlowsFacts ==
  ASSUME NEW a, NEW lh, Flows(a, lh)
  PROVE  /\ a \in Points /\ IsSeq(todo) /\ IsSeq(scopes) /\ IsSeq(ids) /\ IsSeq(labels) /\ IsSeq(code)
         /\ Len(ids) = Len(labels) /\ Len(labels) \in Nat /\ Len(scopes) \in Nat /\ Len(code) \in Nat
         /\ a.d = Len(scopes) /\ a.u = Pending /\ a.h \in Nat /\ a.d \in Nat /\ a.d # 0 /\ a.d # 1
         /\ a.n \subseteq Old /\ a.r \in {0} \cup Old /\ (\A p \in a.o : p[1] \in Old)
         /\ CodeFlows(code, labels, lh, a.h) /\ Ahead(a, lh)
         /\ lh \in [Old -> Nat] /\ DOMAIN lh = Old
<1>1. /\ a \in Points /\ IsSeq(todo) /\ IsSeq(scopes) /\ IsSeq(ids) /\ Len(ids) = Len(labels)
      /\ a.d = Len(scopes) /\ a.u = Pending
      /\ a.n \subseteq Old /\ a.r \in {0} \cup Old /\ (\A p \in a.o : p[1] \in Old)
      /\ CodeFlows(code, labels, lh, a.h) /\ Ahead(a, lh)
  BY DEF Flows
<1>2. IsSeq(code) /\ IsSeq(labels) /\ lh \in [Old -> Nat] /\ DOMAIN lh = Old
  BY <1>1 DEF CodeFlows, Old
<1>3. a.h \in Nat /\ a.d \in Nat /\ a.d # 0 /\ a.d # 1
  BY <1>1 DEF Points
<1>4. QED
  BY <1>1, <1>2, <1>3, SeqFacts

\* A call leaves the place c, from which the rest of the calls go on.
LEMMA Onward ==
  ASSUME NEW a, NEW lh, Flows(a, lh), NEW e, NEW c \in Points, Step(e, a, c, lh), NEW b, b.d = 2, b.u = {},
         NEW a2 \in Points, a2.n = c.n, a2.r = c.r, a2.o = c.o \/ a2.o = a.o,
         \/ a2 = c /\ Leads(todo', c, b, lh)
         \/ /\ IsSeq(todo') /\ todo' # <<>> /\ Head(todo').do = "merge"
            /\ Step(Head(todo'), a2, c, lh) /\ Leads(Tail(todo'), c, b, lh),
         IsSeq(scopes'), a2.d = Len(scopes'), IsSeq(ids'), Len(ids') = Len(ids),
         Len(labels') = Len(labels), Pending' = a2.u, CodeFlows(code', labels', lh, a2.h)
  PROVE  Flows(a2, lh)'
<1>1. /\ Len(ids) = Len(labels) /\ DOMAIN lh = Old
      /\ a.n \subseteq Old /\ a.r \in {0} \cup Old /\ (\A p \in a.o : p[1] \in Old)
  BY FlowsFacts
<1>2. Old' = Old
  BY DEF Old
<1>3. c.n \subseteq a.n /\ c.r \in {0} \cup Old /\ \A p \in c.o : p \in a.o \/ (p[1] = a.r /\ a.r # 0)
  BY <1>1 DEF Step
<1>4. \A p \in c.o : p[1] \in Old
  BY <1>1, <1>3
<1>5. \A p \in a2.o : p[1] \in Old'
  BY <1>1, <1>2, <1>4
<1>6. a2.n \subseteq Old' /\ a2.r \in {0} \cup Old'
  BY <1>1, <1>2, <1>3
<1>7. IsSeq(todo')
  BY LeadsFacts
<1>8. Ahead(a2, lh)'
  <2>1. CASE a2 = c /\ Leads(todo', c, b, lh)
    BY <2>1 DEF Ahead
  <2>2. CASE /\ IsSeq(todo') /\ todo' # <<>> /\ Head(todo').do = "merge"
             /\ Step(Head(todo'), a2, c, lh) /\ Leads(Tail(todo'), c, b, lh)
    BY <2>2 DEF Ahead
  <2>3. QED
    BY <2>1, <2>2
<1>9. QED
  BY <1>1, <1>5, <1>6, <1>7, <1>8 DEF Flows

\* A call that returns.
LEMMA ReturnFlows ==
  ASSUME NEW a, NEW lh, Flows(a, lh), todo # <<>>, todo' = Tail(todo), Head(todo).do # "node",
         NEW c \in Points, Step(Head(todo), a, c, lh),
         NEW b, b.d = 2, b.u = {}, Leads(Tail(todo), c, b, lh),
         IsSeq(scopes'), c.d = Len(scopes'), IsSeq(ids'), Len(ids') = Len(ids),
         Len(labels') = Len(labels), Pending' = c.u, CodeFlows(code', labels', lh, c.h)
  PROVE  Flows(c, lh)' /\ Linked(a, c)
<1>1. Leads(todo', c, b, lh)
  OBVIOUS
<1>2. Flows(c, lh)'
  BY <1>1, Onward
<1>3. todo' # <<>> => Head(todo').do # "merge"
  BY <1>1, LeadsFacts
<1>4. NoLoops => Discipline(Head(todo), a, c)
  BY DEF Step
<1>5. Linked(a, c)
  BY <1>3, <1>4 DEF Linked
<1>6. QED
  BY <1>2, <1>5

LEMMA FunctionSeq ==
  ASSUME NEW n \in Nat, NEW s, s = [i \in 1..n |-> s[i]]
  PROVE  IsSeq(s) /\ Len(s) = n
<1> DEFINE S == {s[i] : i \in 1..n}
<1>1. s \in [1..n -> S]
  <2>1. \A i \in 1..n : s[i] \in S
    OBVIOUS
  <2> HIDE DEF S
  <2>2. QED
    BY <2>1
<1> HIDE DEF S
<1>2. s \in Seq(S) /\ Len(s) = n
  BY <1>1
<1>3. QED
  BY <1>2 DEF IsSeq

Changed(s, k, v) == [s EXCEPT ![k] = v]

LEMMA ChangedSeq ==
  ASSUME NEW s, IsSeq(s), NEW k \in 1..Len(s), NEW v, NEW s2, s2 = Changed(s, k, v)
  PROVE  /\ IsSeq(s2) /\ Len(s2) = Len(s) /\ s2[k] = v
         /\ \A i \in 1..Len(s) : i # k => s2[i] = s[i]
<1> DEFINE n == Len(s)
<1>1. n \in Nat /\ DOMAIN s = 1..n /\ k \in 1..n
  BY SeqFacts
<1>2. PICK S : s \in Seq(S)
  BY DEF IsSeq
<1>3. s2 = [i \in 1..n |-> IF i = k THEN v ELSE s[i]]
  BY <1>1, <1>2 DEF Changed
<1> HIDE DEF n
<1>4. s2 = [i \in 1..n |-> s2[i]]
  BY <1>3
<1>5. IsSeq(s2) /\ Len(s2) = n
  BY <1>1, <1>4, FunctionSeq
<1>6. s2[k] = v /\ \A i \in 1..n : i # k => s2[i] = s[i]
  BY <1>1, <1>3
<1>7. QED
  BY <1>5, <1>6 DEF n

\* What the current scope knows once recordVar has changed it.
Recorded(s, n, k, x, phi, count) ==
  [s EXCEPT !.vars = With(s.vars, x, <<phi, count>>),
            !.borrowed = IF k = n THEN s.borrowed ELSE With(s.borrowed, x, k)]

\* recordVar changes what the current scope knows of x, and nothing else.
LEMMA Recording ==
  ASSUME NEW sc, IsSeq(sc), sc # <<>>, NEW k, NEW x, NEW phi, NEW count,
         NEW sc2, sc2 = RecordVar(sc, k, x, phi, count)
  PROVE  /\ IsSeq(sc2) /\ Len(sc2) = Len(sc) /\ Len(sc) \in Nat \ {0}
         /\ \A i \in 1..Len(sc) : i # Len(sc) => sc2[i] = sc[i]
         /\ sc2[Len(sc)] = Recorded(sc[Len(sc)], Len(sc), k, x, phi, count)
<1> DEFINE n == Len(sc)
           t == Recorded(sc[n], n, k, x, phi, count)
<1>1. n \in Nat \ {0} /\ n \in 1..Len(sc)
  BY SeqFacts
<1>2. sc2 = Changed(sc, n, t)
  BY DEF RecordVar, Top, Recorded, Changed
<1> HIDE DEF n, t
<1>3. /\ IsSeq(sc2) /\ Len(sc2) = Len(sc) /\ sc2[n] = t
      /\ \A i \in 1..Len(sc) : i # n => sc2[i] = sc[i]
  BY <1>1, <1>2, ChangedSeq
<1>4. QED
  BY <1>1, <1>3 DEF n, t

LEMMA PendingSame ==
  ASSUME labels' = labels
  PROVE  Pending' = Pending
BY DEF Pending, Old

\* The calls that emit one instruction.
LEMMA InstructionFlows ==
  ASSUME NEW a, NEW lh, Flows(a, lh), todo # <<>>, todo' = Tail(todo),
         Head(todo).do \in {"ins", "load", "store", "bind"},
         NEW ins, code' = Append(code, ins),
         Head(todo).do = "ins" => ins = Head(todo).ins,
         Head(todo).do = "load" => ins.op = "ldvar",
         Head(todo).do \in {"store", "bind"} => ins.op = "stvar",
         labels' = labels, ids' = ids, IsSeq(scopes'), Len(scopes') = Len(scopes)
  PROVE  \E a2 : Flows(a2, lh)' /\ Linked(a, a2)
<1>1. /\ a \in Points /\ a.d = Len(scopes) /\ a.u = Pending /\ Ahead(a, lh) /\ CodeFlows(code, labels, lh, a.h)
      /\ IsSeq(ids)
  BY FlowsFacts
<1>2. PICK b : /\ b.d = 2 /\ b.u = {}
               /\ \E c \in Points : Step(Head(todo), a, c, lh) /\ Leads(Tail(todo), c, b, lh)
  BY <1>1, AheadOn
<1>3. PICK c \in Points : Step(Head(todo), a, c, lh) /\ Leads(Tail(todo), c, b, lh)
  BY <1>2
<1>4. c.d = a.d /\ c.u = a.u
  BY <1>3 DEF Step
<1>5. StackStep(ins, a.h, c.h, lh)
  <2>1. CASE Head(todo).do = "ins"
    BY <1>3, <2>1 DEF Step
  <2>2. CASE Head(todo).do = "load"
    <3>1. c.h = a.h + 1
      BY <1>3, <2>2 DEF Step
    <3>2. QED
      BY <2>2, <3>1 DEF StackStep
  <2>3. CASE Head(todo).do \in {"store", "bind"}
    <3>1. a.h > 0 /\ c.h = a.h - 1
      BY <1>3, <2>3 DEF Step
    <3>2. QED
      BY <2>3, <3>1 DEF StackStep
  <2>4. QED
    BY <2>1, <2>2, <2>3
<1>6. c.h \in Nat
  BY DEF Points
<1>7. CodeFlows(code', labels', lh, c.h)
  BY <1>1, <1>5, <1>6, CodeGrows
<1>8. Pending' = c.u
  BY <1>1, <1>4, PendingSame
<1>9. IsSeq(ids') /\ Len(ids') = Len(ids) /\ c.d = Len(scopes')
  BY <1>1, <1>4
<1>10. Flows(c, lh)' /\ Linked(a, c)
  BY <1>2, <1>3, <1>7, <1>8, <1>9, ReturnFlows
<1>11. QED
  BY <1>10

LEMMA SetRecords ==
  ASSUME NEW sc, NEW x
  PROVE  \E k, phi, count : Set(sc, x) = RecordVar(sc, k, x, phi, count)
BY DEF Set

LEMMA BindRecords ==
  ASSUME NEW sc, NEW x, NEW mut
  PROVE  \E k, phi, count : Bind(sc, x, mut) = RecordVar(sc, k, x, phi, count)
BY DEF Bind

LEMMA PhiRecords ==
  ASSUME NEW sc, NEW k, NEW x
  PROVE  \E phi, count : Phi(sc, k, x) = RecordVar(sc, k, x, phi, count)
BY DEF Phi

LEMMA DeclaredSeq ==
  ASSUME NEW sc, IsSeq(sc), NEW t, NEW d
  PROVE  IsSeq([sc EXCEPT ![t].decl = d]) /\ Len([sc EXCEPT ![t].decl = d]) = Len(sc)
<1>1. Len(sc) \in Nat /\ DOMAIN sc = 1..Len(sc)
  BY SeqFacts
<1> DEFINE sc2 == [sc EXCEPT ![t].decl = d]
<1>2. PICK S : sc \in Seq(S)
  BY DEF IsSeq
<1>3. sc2 = [i \in 1..Len(sc) |-> sc2[i]]
  BY <1>1, <1>2
<1> HIDE DEF sc2
<1>4. IsSeq(sc2) /\ Len(sc2) = Len(sc)
  BY <1>1, <1>3, FunctionSeq
<1>5. QED
  BY <1>4 DEF sc2

LEMMA PlainCallsFlow ==
  ASSUME NEW a, NEW lh, Flows(a, lh), EmitIns \/ GetName \/ SetName \/ BindNew
  PROVE  \E a2, lh2 : Flows(a2, lh2)' /\ Linked(a, a2)
<1>0. IsSeq(scopes) /\ scopes # <<>>
  <2>1. IsSeq(scopes) /\ a.d = Len(scopes) /\ a.d # 0
    BY FlowsFacts
  <2>2. QED
    BY <2>1, SeqFacts
<1>1. CASE EmitIns
  <2>1. /\ todo # <<>> /\ Head(todo).do = "ins" /\ code' = Append(code, Head(todo).ins) /\ todo' = Tail(todo)
        /\ scopes' = scopes /\ labels' = labels /\ ids' = ids
    BY <1>1 DEF EmitIns, Calls, Compiling, Emit, Returned, Call
  <2>2. \E a2 : Flows(a2, lh)' /\ Linked(a, a2)
    BY <1>0, <2>1, InstructionFlows
  <2>3. QED
    BY <2>2
<1>2. CASE GetName
  <2> DEFINE ins == [op |-> "ldvar", var |-> Get(scopes, Call.name), decl |-> DeclOf(scopes, Call.name)]
  <2>1. /\ todo # <<>> /\ Head(todo).do = "load" /\ code' = Append(code, ins) /\ todo' = Tail(todo)
        /\ scopes' = scopes /\ labels' = labels /\ ids' = ids
    BY <1>2 DEF GetName, LoadVar, Calls, Compiling, Emit, Returned
  <2>2. ins.op = "ldvar"
    OBVIOUS
  <2> HIDE DEF ins
  <2>3. \E a2 : Flows(a2, lh)' /\ Linked(a, a2)
    BY <1>0, <2>1, <2>2, InstructionFlows
  <2>4. QED
    BY <2>3
<1>3. CASE SetName
  <2> DEFINE sc == Set(scopes, Call.name)
             ins == [op |-> "stvar", var |-> Get(sc, Call.name), decl |-> DeclOf(sc, Call.name)]
  <2>1. /\ todo # <<>> /\ Head(todo).do = "store" /\ code' = Append(code, ins) /\ todo' = Tail(todo)
        /\ scopes' = sc /\ labels' = labels /\ ids' = ids
    BY <1>3 DEF SetName, StoreVar, StoredAs, Calls, Compiling, Returned
  <2>2. ins.op = "stvar"
    OBVIOUS
  <2> HIDE DEF ins
  <2>3. IsSeq(sc) /\ Len(sc) = Len(scopes)
    <3>1. PICK k, phi, count : sc = RecordVar(scopes, k, Call.name, phi, count)
      BY SetRecords
    <3>2. QED
      BY <1>0, <3>1, Recording
  <2>4. \E a2 : Flows(a2, lh)' /\ Linked(a, a2)
    BY <2>1, <2>2, <2>3, InstructionFlows
  <2>5. QED
    BY <2>4
<1>4. CASE BindNew
  <2>0. PICK mut \in BOOLEAN : BindVar(Call.name, mut)
    BY <1>4 DEF BindNew
  <2> DEFINE sc1 == Bind(scopes, Call.name, mut)
             sc == [sc1 EXCEPT ![Top(scopes)].decl = With(sc1[Top(scopes)].decl, Call.name, Len(code) + 1)]
             ins == [op |-> "stvar", var |-> Get(sc, Call.name), decl |-> DeclOf(sc, Call.name)]
  <2>1. /\ todo # <<>> /\ Head(todo).do = "bind" /\ code' = Append(code, ins) /\ todo' = Tail(todo)
        /\ scopes' = sc /\ labels' = labels /\ ids' = ids
    BY <1>4, <2>0 DEF BindNew, BindVar, StoredAs, Calls, Compiling
  <2>2. ins.op = "stvar"
    OBVIOUS
  <2> HIDE DEF ins
  <2>3. IsSeq(sc1) /\ Len(sc1) = Len(scopes)
    <3>1. PICK k, phi, count : sc1 = RecordVar(scopes, k, Call.name, phi, count)
      BY BindRecords
    <3>2. QED
      BY <1>0, <3>1, Recording
  <2>4. IsSeq(sc) /\ Len(sc) = Len(scopes)
    <3> HIDE DEF sc1
    <3>1. QED
      BY <2>3, DeclaredSeq, ZenonT(60)
  <2>5. \E a2 : Flows(a2, lh)' /\ Linked(a, a2)
    BY <2>1, <2>2, <2>4, InstructionFlows
  <2>6. QED
    BY <2>5
<1>5. QED
  BY <1>1, <1>2, <1>3, <1>4

LEMMA ScopesChain ==
  ASSUME NEW a, NEW lh, Flows(a, lh)
  PROVE  IsSeq(scopes) /\ scopes # <<>> /\ Len(scopes) \in Nat
<1>1. IsSeq(scopes) /\ a.d = Len(scopes) /\ a.d # 0
  BY FlowsFacts
<1>2. QED
  BY <1>1, SeqFacts

LEMMA FrontSeq ==
  ASSUME NEW s, IsSeq(s), s # <<>>, NEW f, f = Front(s)
  PROVE  IsSeq(f) /\ Len(f) = Len(s) - 1 /\ \A i \in 1..Len(f) : f[i] = s[i]
<1>1. Len(s) \in Nat \ {0}
  BY SeqFacts
<1>2. PICK S : s \in Seq(S)
  BY DEF IsSeq
<1>3. f = [i \in 1..Len(s) - 1 |-> s[i]]
  <2>1. f = SubSeq(s, 1, Len(s) - 1)
    BY DEF Front
  <2>2. Len(s) - 1 \in Nat /\ Len(s) - 1 <= Len(s)
    BY <1>1
  <2>3. QED
    BY <1>2, <2>1, <2>2
<1>4. Len(s) - 1 \in Nat
  BY <1>1
<1>5. f = [i \in 1..Len(s) - 1 |-> f[i]]
  BY <1>3
<1>6. IsSeq(f) /\ Len(f) = Len(s) - 1
  BY <1>4, <1>5, FunctionSeq
<1>7. QED
  BY <1>3, <1>6

LEMMA EnterFlows ==
  ASSUME NEW a, NEW lh, Flows(a, lh), EnterScope
  PROVE  \E a2, lh2 : Flows(a2, lh2)' /\ Linked(a, a2)
<1>1. /\ todo # <<>> /\ Head(todo).do = "push" /\ todo' = Tail(todo)
      /\ scopes' = Append(scopes, Scope(nextScopeId)) /\ code' = code /\ labels' = labels /\ ids' = ids
  BY DEF EnterScope, Calls, Compiling, Returned, PushScope
<1>2. /\ a \in Points /\ a.d = Len(scopes) /\ a.u = Pending /\ Ahead(a, lh) /\ CodeFlows(code, labels, lh, a.h)
      /\ IsSeq(ids) /\ IsSeq(scopes)
  BY FlowsFacts
<1>3. PICK b : /\ b.d = 2 /\ b.u = {}
               /\ \E c \in Points : Step(Head(todo), a, c, lh) /\ Leads(Tail(todo), c, b, lh)
  BY <1>1, <1>2, AheadOn
<1>4. PICK c \in Points : Step(Head(todo), a, c, lh) /\ Leads(Tail(todo), c, b, lh)
  BY <1>3
<1>5. c.d = a.d + 1 /\ c.u = a.u /\ c.h = a.h
  BY <1>1, <1>4 DEF Step
<1>6. IsSeq(scopes') /\ Len(scopes') = c.d
  BY <1>1, <1>2, <1>5, AppendSeq
<1>7. Pending' = c.u
  BY <1>1, <1>2, <1>5, PendingSame
<1>8. Head(todo).do # "node"
  BY <1>1
<1>9. Flows(c, lh)' /\ Linked(a, c)
  BY <1>1, <1>2, <1>3, <1>4, <1>5, <1>6, <1>7, <1>8, ReturnFlows
<1>10. QED
  BY <1>9

LEMMA OwnFlows ==
  ASSUME NEW a, NEW lh, Flows(a, lh), OwnIds
  PROVE  \E a2, lh2 : Flows(a2, lh2)' /\ Linked(a, a2)
<1> DEFINE l == Head(todo).label
           v == [key \in {Top(scopes)} \X Owned(scopes[Top(scopes)]) |-> VarOf(scopes, Top(scopes), key[2])]
<1>1. /\ todo # <<>> /\ Head(todo).do = "own" /\ todo' = Tail(todo)
      /\ ids' = Changed(ids, l, v) /\ code' = code /\ labels' = labels /\ scopes' = scopes
  BY DEF OwnIds, Calls, Compiling, Returned, RecordOwned, Call, Changed
<1> HIDE DEF v
<1>2. /\ a \in Points /\ a.d = Len(scopes) /\ a.u = Pending /\ Ahead(a, lh) /\ CodeFlows(code, labels, lh, a.h)
      /\ IsSeq(ids) /\ IsSeq(scopes) /\ Len(ids) = Len(labels) /\ DOMAIN lh = Old
  BY FlowsFacts
<1>3. PICK b : /\ b.d = 2 /\ b.u = {}
               /\ \E c \in Points : Step(Head(todo), a, c, lh) /\ Leads(Tail(todo), c, b, lh)
  BY <1>1, <1>2, AheadOn
<1>4. PICK c \in Points : Step(Head(todo), a, c, lh) /\ Leads(Tail(todo), c, b, lh)
  BY <1>3
<1>5. c.d = a.d /\ c.u = a.u /\ c.h = a.h /\ l \in 1..Len(ids)
  BY <1>1, <1>2, <1>4 DEF Step, Old
<1>6. IsSeq(ids') /\ Len(ids') = Len(ids)
  BY <1>1, <1>2, <1>5, ChangedSeq
<1>7. Pending' = c.u
  BY <1>1, <1>2, <1>5, PendingSame
<1>8. Head(todo).do # "node" /\ IsSeq(scopes') /\ c.d = Len(scopes')
  BY <1>1, <1>2, <1>5
<1>9. Flows(c, lh)' /\ Linked(a, c)
  BY <1>1, <1>2, <1>3, <1>4, <1>5, <1>6, <1>7, <1>8, ReturnFlows
<1>10. QED
  BY <1>9

LEMMA PlaceFlows ==
  ASSUME NEW a, NEW lh, Flows(a, lh), PlaceLabel
  PROVE  \E a2, lh2 : Flows(a2, lh2)' /\ Linked(a, a2)
<1> DEFINE l == Head(todo).label
<1>1. /\ todo # <<>> /\ Head(todo).do = "label" /\ todo' = Tail(todo)
      /\ labels' = [labels EXCEPT ![l] = Len(code) + 1] /\ code' = code /\ ids' = ids /\ scopes' = scopes
  BY DEF PlaceLabel, Calls, Compiling, Returned, Place, Call
<1>2. /\ a \in Points /\ a.d = Len(scopes) /\ a.u = Pending /\ Ahead(a, lh) /\ CodeFlows(code, labels, lh, a.h)
      /\ IsSeq(ids) /\ IsSeq(scopes) /\ IsSeq(labels) /\ Len(ids) = Len(labels) /\ DOMAIN lh = Old
      /\ Len(code) \in Nat
  BY FlowsFacts
<1>3. PICK b : /\ b.d = 2 /\ b.u = {}
               /\ \E c \in Points : Step(Head(todo), a, c, lh) /\ Leads(Tail(todo), c, b, lh)
  BY <1>1, <1>2, AheadOn
<1>4. PICK c \in Points : Step(Head(todo), a, c, lh) /\ Leads(Tail(todo), c, b, lh)
  BY <1>3
<1>5. c.d = a.d /\ c.u = a.u \ {l} /\ c.h = a.h /\ l \in a.u /\ l \in Old /\ lh[l] = a.h
  BY <1>1, <1>2, <1>4 DEF Step
<1>6. l \in 1..Len(labels)
  BY <1>5 DEF Old
<1> HIDE DEF l
<1>7. labels' = Changed(labels, l, Len(code) + 1)
  BY <1>1 DEF Changed
<1>8. /\ Len(labels') = Len(labels) /\ labels'[l] = Len(code) + 1
      /\ \A k \in 1..Len(labels) : k # l => labels'[k] = labels[k]
  BY <1>2, <1>6, <1>7, ChangedSeq
<1>9. Pending' = c.u
  <2>1. Old' = Old
    BY <1>8 DEF Old
  <2>2. Len(code) + 1 # NoPos
    BY <1>2, NoPosFacts
  <2>3. Pending' = {k \in Old' : labels'[k] = NoPos}
    BY DEF Pending
  <2>4. QED
    BY <1>2, <1>5, <1>8, <2>1, <2>2, <2>3 DEF Pending, Old
<1>10. CodeFlows(code', labels', lh, c.h)
  <2>1. CodeFlows(code, [labels EXCEPT ![l] = Len(code) + 1], lh, a.h)
    BY <1>2, <1>5, <1>6, LabelPlaced
  <2>2. QED
    BY <1>1, <1>5, <2>1
<1>11. Head(todo).do # "node" /\ IsSeq(scopes') /\ c.d = Len(scopes') /\ IsSeq(ids') /\ Len(ids') = Len(ids)
  BY <1>1, <1>2, <1>5
<1>12. Flows(c, lh)' /\ Linked(a, c)
  BY <1>1, <1>3, <1>4, <1>8, <1>9, <1>10, <1>11, ReturnFlows
<1>13. QED
  BY <1>12

LEMMA NothingJoin ==
  ASSUME NEW n, n = <<>>, NEW s, IsSeq(s)
  PROVE  n \o s = s
<1>1. PICK S : s \in Seq(S)
  BY DEF IsSeq
<1>2. n \o s = s
  BY <1>1
<1>3. QED
  BY <1>2

LEMMA OneJoin ==
  ASSUME NEW e, NEW s, IsSeq(s), NEW t, t = <<e>> \o s
  PROVE  IsSeq(t) /\ t # <<>> /\ Head(t) = e /\ Tail(t) = s
<1>1. PICK S : s \in Seq(S)
  BY DEF IsSeq
<1>2. s \in Seq(S \cup {e}) /\ <<e>> \in Seq(S \cup {e})
  BY <1>1
<1>3. t \in Seq(S \cup {e}) /\ Len(t) = 1 + Len(s) /\ Len(s) \in Nat /\ t[1] = e
  BY <1>2
<1>4. IsSeq(t) /\ t # <<>> /\ Head(t) = e
  BY <1>3 DEF IsSeq
<1>5. Tail(t) = s
  <2>1. Tail(t) \in Seq(S \cup {e}) /\ Len(Tail(t)) = Len(s)
    BY <1>3, <1>4
  <2>2. \A i \in 1..Len(s) : t[i + 1] = s[i]
    BY <1>2
  <2>3. \A i \in 1..Len(s) : Tail(t)[i] = t[i + 1]
    BY <1>3, <1>4
  <2>4. QED
    BY <1>2, <2>1, <2>2, <2>3
<1>6. QED
  BY <1>4, <1>5

LEMMA JoinAssoc ==
  ASSUME NEW r, NEW s, NEW t, IsSeq(r), IsSeq(s), IsSeq(t)
  PROVE  (r \o s) \o t = r \o (s \o t)
<1>1. PICK R : r \in Seq(R)
  BY DEF IsSeq
<1>2. PICK S : s \in Seq(S)
  BY DEF IsSeq
<1>3. PICK T : t \in Seq(T)
  BY DEF IsSeq
<1> DEFINE U == R \cup S \cup T
<1>4. r \in Seq(U) /\ s \in Seq(U) /\ t \in Seq(U)
  BY <1>1, <1>2, <1>3
<1> HIDE DEF U
<1>5. QED
  BY <1>4

\* What an applyScope merges, it merges without leaving its place.
LEMMA MergesOn ==
  ASSUME NEW e, NEW e2, NEW a \in Points, NEW c \in Points, NEW lh, Step(e, a, c, lh),
         e.do \in {"apply", "merge"}, e2.do = "merge", e2.label = e.label, e2.add = e.add
  PROVE  /\ c.h = a.h /\ c.u = a.u
         /\ \E a2 \in Points :
              /\ a2.h = a.h /\ a2.d = c.d /\ a2.u = a.u /\ a2.n = c.n /\ a2.r = c.r
              /\ a2.o = IF NoLoops THEN a.o ELSE c.o
              /\ Step(e2, a2, c, lh)
<1>1. c.h = a.h /\ c.u = a.u /\ e.label \in {0} \cup DOMAIN lh /\ c.r \in {0} \cup DOMAIN lh
  BY DEF Step
<1> DEFINE o == IF NoLoops THEN a.o ELSE c.o
           a2 == Pt(a.h, c.d, a.u, c.n, c.r, o)
<1>2. Around(c.d, a.u, c.n, o) /\ a.h \in Nat /\ c.r \in Nat
  BY PointIs DEF Around
<1> HIDE DEF o
<1>3. /\ a2 \in Points /\ a2.h = a.h /\ a2.d = c.d /\ a2.u = a.u /\ a2.n = c.n /\ a2.r = c.r /\ a2.o = o
  BY <1>2, PtFacts
<1> HIDE DEF a2
<1>4. NoLoops => Discipline(e, a, c)
  BY DEF Step
<1>5. ASSUME NoLoops PROVE Discipline(e2, a2, c)
  BY <1>3, <1>4, <1>5 DEF Discipline, o
<1>6. \A p \in c.o : p \in a2.o
  <2>1. CASE NoLoops
    BY <1>3, <1>4, <2>1 DEF Discipline, o
  <2>2. CASE ~NoLoops
    BY <1>3, <2>2 DEF o
  <2>3. QED
    BY <2>1, <2>2
<1>7. Step(e2, a2, c, lh)
  BY <1>1, <1>3, <1>5, <1>6 DEF Step
<1>8. QED
  BY <1>1, <1>3, <1>7 DEF o

\* applyScope, or one round of it, with left yet to be merged.
LEMMA MergingFlows ==
  ASSUME NEW a, NEW lh, Flows(a, lh), todo # <<>>, Head(todo).do \in {"apply", "merge"},
         NEW popped, NEW left,
         todo' = Merging(popped, left, Head(todo).label, Head(todo).add) \o Tail(todo),
         IsSeq(scopes'), Len(scopes') = IF Head(todo).do = "apply" THEN Len(scopes) - 1 ELSE Len(scopes),
         IsSeq(ids'), Len(ids') = Len(ids), labels' = labels,
         CodeFlows(code', labels, lh, a.h)
  PROVE  \E a2, lh2 : Flows(a2, lh2)' /\ Linked(a, a2)
<1>2. /\ a \in Points /\ a.d = Len(scopes) /\ a.u = Pending /\ Ahead(a, lh) /\ IsSeq(todo)
  BY FlowsFacts
<1>3. PICK b : /\ b.d = 2 /\ b.u = {}
               /\ \E c \in Points : Step(Head(todo), a, c, lh) /\ Leads(Tail(todo), c, b, lh)
  BY <1>2, AheadOn
<1>4. PICK c \in Points : Step(Head(todo), a, c, lh) /\ Leads(Tail(todo), c, b, lh)
  BY <1>3
<1>5. c.d = Len(scopes') /\ c.u = a.u /\ c.h = a.h
  BY <1>2, <1>4 DEF Step
<1>6. IsSeq(Tail(todo)) /\ Head(todo).do # "node"
  BY <1>2, TailSeq
<1>7. Pending' = a.u
  BY <1>2, PendingSame
<1>8. CASE left = {}
  <2>1. Merging(popped, left, Head(todo).label, Head(todo).add) = <<>>
    BY <1>8 DEF Merging
  <2>2. todo' = Tail(todo)
    BY <1>6, <2>1, NothingJoin
  <2>3. Len(labels') = Len(labels) /\ CodeFlows(code', labels', lh, c.h) /\ Pending' = c.u
    BY <1>5, <1>7
  <2>4. Flows(c, lh)' /\ Linked(a, c)
    BY <1>3, <1>4, <1>5, <1>6, <2>2, <2>3, ReturnFlows
  <2>5. QED
    BY <2>4
<1>9. CASE left # {}
  <2>e. PICK e2 : e2 = [do |-> "merge", popped |-> popped, left |-> left, label |-> Head(todo).label, add |-> Head(todo).add]
    OBVIOUS
  <2>1. e2.do = "merge" /\ e2.label = Head(todo).label /\ e2.add = Head(todo).add
    BY <2>e
  <2>2. todo' = <<e2>> \o Tail(todo)
    BY <1>9, <2>e DEF Merging
  <2>3. IsSeq(todo') /\ todo' # <<>> /\ Head(todo') = e2 /\ Tail(todo') = Tail(todo)
    BY <1>6, <2>2, OneJoin
  <2>4. PICK a2 \in Points :
              /\ a2.h = a.h /\ a2.d = c.d /\ a2.u = a.u /\ a2.n = c.n /\ a2.r = c.r
              /\ a2.o = IF NoLoops THEN a.o ELSE c.o
              /\ Step(e2, a2, c, lh)
    BY <1>2, <1>4, <2>1, MergesOn
  <2>5. a2.o = c.o \/ a2.o = a.o
    BY <2>4
  <2>6. Step(Head(todo'), a2, c, lh) /\ Leads(Tail(todo'), c, b, lh) /\ Head(todo').do = "merge"
    BY <1>4, <2>1, <2>3, <2>4
  <2>7. Len(labels') = Len(labels) /\ CodeFlows(code', labels', lh, a2.h) /\ Pending' = a2.u
        /\ a2.d = Len(scopes')
    BY <1>5, <1>7, <2>4
  <2>8. Flows(a2, lh)'
    BY <1>3, <1>4, <2>3, <2>4, <2>5, <2>6, <2>7, Onward
  <2>9. NoLoops => Discipline(Head(todo), a, c)
    BY <1>4 DEF Step
  <2>10. Linked(a, a2)
    BY <1>6, <2>3, <2>4, <2>6, <2>9 DEF Linked
  <2>11. QED
    BY <2>8, <2>10
<1>10. QED
  BY <1>8, <1>9

LEMMA ChangedAnywhere ==
  ASSUME NEW s, IsSeq(s), NEW k, NEW v, NEW s2, s2 = Changed(s, k, v)
  PROVE  IsSeq(s2) /\ Len(s2) = Len(s)
<1>1. Len(s) \in Nat /\ DOMAIN s = 1..Len(s)
  BY SeqFacts
<1>2. PICK S : s \in Seq(S)
  BY DEF IsSeq
<1>3. s2 = [i \in 1..Len(s) |-> s2[i]]
  BY <1>1, <1>2 DEF Changed
<1>4. QED
  BY <1>1, <1>3, FunctionSeq

LEMMA AppendTwo ==
  ASSUME NEW s, IsSeq(s), NEW e, NEW f
  PROVE  s \o <<e, f>> = Append(Append(s, e), f)
<1>1. PICK S : s \in Seq(S)
  BY DEF IsSeq
<1>2. s \in Seq(S \cup {e, f}) /\ <<e, f>> \in Seq(S \cup {e, f})
  BY <1>1
<1>3. QED
  BY <1>2

LEMMA LeaveFlows ==
  ASSUME NEW a, NEW lh, Flows(a, lh), LeaveScope
  PROVE  \E a2, lh2 : Flows(a2, lh2)' /\ Linked(a, a2)
<1>1. /\ todo # <<>> /\ Head(todo).do = "apply"
      /\ scopes' = Front(scopes) /\ code' = code /\ labels' = labels /\ ids' = ids
  BY DEF LeaveScope, Calls, Compiling, PopScope
<1>2. PICK popped, left : todo' = Merging(popped, left, Head(todo).label, Head(todo).add) \o Tail(todo)
  BY DEF LeaveScope, Call
<1>3. CodeFlows(code', labels, lh, a.h) /\ IsSeq(ids') /\ Len(ids') = Len(ids)
  BY <1>1, FlowsFacts
<1>4. IsSeq(scopes') /\ Len(scopes') = Len(scopes) - 1
  BY <1>1, ScopesChain, FrontSeq
<1>5. QED
  BY <1>1, <1>2, <1>3, <1>4, MergingFlows

\* What one round of applyScope changes.
LEMMA MergeFacts ==
  ASSUME NEW popped, NEW l, NEW add, NEW x, Merge(popped, l, add, x), IsSeq(code), IsSeq(ids), IsSeq(scopes),
         scopes # <<>>
  PROVE  /\ \E load, store :
              /\ load.op = "ldvar" /\ store.op = "stvar"
              /\ code' = Append(Append(code, load), store)
         /\ IsSeq(scopes') /\ Len(scopes') = Len(scopes) /\ IsSeq(ids') /\ Len(ids') = Len(ids)
         /\ labels' = labels
<1> DEFINE k == popped.borrowed[x]
           key == <<k, x>>
           has == l # 0 /\ key \in DOMAIN ids[l]
           sc == IF has THEN scopes ELSE Phi(scopes, k, x)
           phi == IF has THEN ids[l][key] ELSE VarOf(sc, Top(sc), x)
           load == [op |-> "ldvar", var |-> <<popped.id, x, popped.vars[x]>>, decl |-> NoDecl]
           store == [op |-> "stvar", var |-> phi, decl |-> NoDecl]
<1>1. /\ scopes' = sc /\ code' = code \o <<load, store>> /\ labels' = labels
      /\ ids' = IF add THEN [ids EXCEPT ![l] = With(@, key, phi)] ELSE ids
  BY DEF Merge
<1>2. load.op = "ldvar" /\ store.op = "stvar"
  OBVIOUS
<1> HIDE DEF load, store, has, phi, key, k
<1>3. code' = Append(Append(code, load), store)
  BY <1>1, AppendTwo
<1>4. IsSeq(sc) /\ Len(sc) = Len(scopes)
  <2>1. PICK p, c : Phi(scopes, k, x) = RecordVar(scopes, k, x, p, c)
    BY PhiRecords
  <2>2. IsSeq(Phi(scopes, k, x)) /\ Len(Phi(scopes, k, x)) = Len(scopes)
    BY <2>1, Recording
  <2>3. QED
    BY <2>2
<1>5. IsSeq(ids') /\ Len(ids') = Len(ids)
  <2>1. CASE add
    <3>1. ids' = Changed(ids, l, With(ids[l], key, phi))
      BY <1>1, <2>1 DEF Changed
    <3>2. QED
      BY <3>1, ChangedAnywhere
  <2>2. CASE ~add
    BY <1>1, <2>2
  <2>3. QED
    BY <2>1, <2>2
<1>6. QED
  BY <1>1, <1>2, <1>3, <1>4, <1>5

LEMMA MergeNameFlows ==
  ASSUME NEW a, NEW lh, Flows(a, lh), MergeName
  PROVE  \E a2, lh2 : Flows(a2, lh2)' /\ Linked(a, a2)
<1>1. todo # <<>> /\ Head(todo).do = "merge"
  BY DEF MergeName, Calls, Compiling
<1>2. PICK x : /\ Merge(Call.popped, Call.label, Call.add, x)
               /\ todo' = Merging(Call.popped, Call.left \ {x}, Call.label, Call.add) \o Tail(todo)
  BY DEF MergeName
<1>3. IsSeq(code) /\ IsSeq(ids) /\ a.h \in Nat /\ CodeFlows(code, labels, lh, a.h)
  BY FlowsFacts
<1>4. /\ \E load, store :
           /\ load.op = "ldvar" /\ store.op = "stvar"
           /\ code' = Append(Append(code, load), store)
      /\ IsSeq(scopes') /\ Len(scopes') = Len(scopes) /\ IsSeq(ids') /\ Len(ids') = Len(ids)
      /\ labels' = labels
  BY <1>2, <1>3, ScopesChain, MergeFacts
<1>5. PICK load, store : /\ load.op = "ldvar" /\ store.op = "stvar"
                         /\ code' = Append(Append(code, load), store)
  BY <1>4
<1>6. a.h + 1 \in Nat /\ a.h + 1 > 0 /\ a.h = (a.h + 1) - 1
  BY <1>3
<1>7. StackStep(load, a.h, a.h + 1, lh) /\ StackStep(store, a.h + 1, a.h, lh)
  BY <1>5, <1>6 DEF StackStep
<1>8. CodeFlows(Append(code, load), labels, lh, a.h + 1)
  BY <1>3, <1>6, <1>7, CodeGrows
<1>9. CodeFlows(code', labels, lh, a.h)
  BY <1>3, <1>5, <1>7, <1>8, CodeGrows
<1>10. todo' = Merging(Call.popped, Call.left \ {x}, Head(todo).label, Head(todo).add) \o Tail(todo)
  BY <1>2 DEF Call
<1>11. Head(todo).do \in {"apply", "merge"}
       /\ Len(scopes') = IF Head(todo).do = "apply" THEN Len(scopes) - 1 ELSE Len(scopes)
  BY <1>1, <1>4
<1>12. QED
  BY <1>1, <1>4, <1>9, <1>10, <1>11, MergingFlows

\* A step of the compiler that throws no error leaves a place from which what is
\* left to do leads to the end of the function.
LEMMA CompileFlows ==
  ASSUME NEW a, NEW lh, Flows(a, lh), EmitNode \/ MakeCall
  PROVE  \E a2, lh2 : Flows(a2, lh2)' /\ Linked(a, a2)
<1>1. CASE EmitNode
  BY <1>1, NodeFlows
<1>2. CASE MakeCall
  BY <1>2, PlainCallsFlow, EnterFlows, LeaveFlows, MergeNameFlows, OwnFlows, PlaceFlows DEF MakeCall
<1>3. QED
  BY <1>1, <1>2

LEMMA InitFlows ==
  ASSUME CompilerInit
  PROVE  \E a, lh : Flows(a, lh) /\ a.h = 0 /\ a.r = 0 /\ a.o = {} /\ a.n = {}
<1> DEFINE a == Pt(0, 2, {}, {}, 0, {})
           b == Pt(1, 2, {}, {}, 0, {})
<1>p. PICK q : q = a
  OBVIOUS
<1>e. PICK lh : lh = [l \in 1..0 |-> 0]
  OBVIOUS
<1>1. \E params : FunctionInit(params)
  BY DEF CompilerInit
<1>2. /\ code = <<>> /\ labels = <<>> /\ ids = <<>>
      /\ \E s, t : scopes = <<s, t>>
  BY <1>1 DEF FunctionInit
<1>3. IsSeq(scopes) /\ Len(scopes) = 2
  <2>1. PICK s, t : scopes = <<s, t>>
    BY <1>2
  <2>2. scopes \in Seq({s, t}) /\ Len(scopes) = 2
    BY <2>1
  <2>3. QED
    BY <2>2 DEF IsSeq
<1>4. IsSeq(code) /\ Len(code) = 0 /\ IsSeq(labels) /\ Len(labels) = 0 /\ IsSeq(ids) /\ Len(ids) = 0
  BY <1>2, NothingSeq
<1>5. Around(2, {}, {}, {})
  BY DEF Around
<1>6. a \in Points /\ a.h = 0 /\ a.d = 2 /\ a.u = {} /\ a.n = {} /\ a.r = 0 /\ a.o = {}
      /\ b.d = 2 /\ b.u = {}
  BY <1>5, PtFacts
<1>7. 0 + 1 = 1
  OBVIOUS
<1>8. Leads(Ins("ret"), Pt(0 + 1, 2, {}, {}, 0, {}), Pt(0, 2, {}, {}, 0, {}), lh)
  BY <1>5, PlainLeads
<1>9. Leads(Node("stmts"), Pt(0, 2, {}, {}, 0, {}), Pt(0 + 0, 2, {}, {}, 0, {}), lh)
  BY <1>5, NodeLeads, ResultsOf
<1>10. Leads(Node("expr"), Pt(0, 2, {}, {}, 0, {}), Pt(0 + 1, 2, {}, {}, 0, {}), lh)
  BY <1>5, NodeLeads, ResultsOf
<1>11. Leads(Ins("ldc"), Pt(0, 2, {}, {}, 0, {}), Pt(0 + 1, 2, {}, {}, 0, {}), lh)
  BY <1>5, PlainLeads
<1>12. Leads(Node("expr") \o Ins("ret"), a, a, lh)
  BY <1>7, <1>8, <1>10, LeadsJoin
<1>13. Leads(Node("stmts") \o Ins("ldc") \o Ins("ret"), a, a, lh)
  <2>1. Leads(Node("stmts") \o Ins("ldc"), a, b, lh)
    BY <1>7, <1>9, <1>11, LeadsJoin
  <2>2. QED
    BY <1>7, <1>8, <2>1, LeadsJoin
<1>14. Leads(todo, a, a, lh)
  BY <1>12, <1>13 DEF CompilerInit
<1> HIDE DEF a, b
<1>15. Ahead(q, lh) /\ IsSeq(todo)
  BY <1>6, <1>14, <1>p DEF Ahead, Leads
<1>16. CodeFlows(code, labels, lh, 0)
  <2> DEFINE hc == [i \in 1..1 |-> 0]
  <2>1. hc \in [1..1 -> Nat] /\ hc[1] = 0
    OBVIOUS
  <2> HIDE DEF hc
  <2>2. Heights(code, labels, lh, hc) /\ hc[Len(code) + 1] = 0
    BY <1>4, <2>1 DEF Heights
  <2>3. lh \in [1..0 -> Nat]
    BY <1>e
  <2>4. QED
    BY <1>4, <2>2, <2>3 DEF CodeFlows
<1>17. Pending = {} /\ Old = {}
  BY <1>4 DEF Pending, Old
<1>18. Flows(q, lh)
  BY <1>3, <1>4, <1>6, <1>15, <1>16, <1>17, <1>p DEF Flows
<1>19. QED
  BY <1>6, <1>18, <1>p

\* The last thing a function does is to return.
Ends ==
  IF todo = <<>>
  THEN /\ code # <<>> /\ code[Len(code)].op = "ret"
       /\ \A l \in Old : labels[l] # NoPos => labels[l] \in 1..Len(code)
  ELSE todo[Len(todo)].do = "ins" /\ todo[Len(todo)].ins.op = "ret"

LEMMA LastKept ==
  ASSUME NEW s, NEW t, NEW items, IsSeq(s), IsSeq(items), s # <<>>, Tail(s) # <<>>, t = items \o Tail(s)
  PROVE  t # <<>> /\ t[Len(t)] = s[Len(s)]
<1>1. /\ IsSeq(Tail(s)) /\ Len(Tail(s)) = Len(s) - 1 /\ Len(s) \in Nat \ {0}
      /\ \A i \in 1..Len(s) - 1 : Tail(s)[i] = s[i + 1]
  BY TailSeq
<1>2. Len(Tail(s)) \in Nat \ {0} /\ Len(items) \in Nat
  BY <1>1, SeqFacts
<1>3. /\ IsSeq(t) /\ Len(t) = Len(items) + Len(Tail(s))
      /\ \A i \in 1..Len(Tail(s)) : t[Len(items) + i] = Tail(s)[i]
  BY <1>1, JoinSeq
<1>4. t # <<>>
  BY <1>2, <1>3, SeqFacts
<1>5. t[Len(t)] = Tail(s)[Len(Tail(s))]
  BY <1>2, <1>3
<1>6. Tail(s)[Len(Tail(s))] = s[Len(s)]
  BY <1>1, <1>2
<1>7. QED
  BY <1>4, <1>5, <1>6

LEMMA OnlyOne ==
  ASSUME NEW s, IsSeq(s), s # <<>>, Tail(s) = <<>>
  PROVE  s[Len(s)] = Head(s)
<1>1. IsSeq(Tail(s)) /\ Len(Tail(s)) = Len(s) - 1 /\ Len(s) \in Nat \ {0} /\ Head(s) = s[1]
  BY TailSeq
<1>2. Len(Tail(s)) = 0
  BY NothingSeq
<1>3. Len(s) = 1
  <2>1. \A n \in Nat : n - 1 = 0 => n = 1
    OBVIOUS
  <2>2. Len(s) \in Nat /\ Len(s) - 1 = 0
    BY <1>1, <1>2
  <2>3. QED
    BY <2>1, <2>2
<1>4. QED
  BY <1>1, <1>3

\* Only an instruction may be the last thing.
LEMMA EndsKept ==
  ASSUME Ends, IsSeq(todo), todo # <<>>, Head(todo).do # "ins",
         NEW items, IsSeq(items), todo' = items \o Tail(todo)
  PROVE  Ends'
<1>1. todo[Len(todo)].do = "ins" /\ todo[Len(todo)].ins.op = "ret"
  BY DEF Ends
<1>2. Tail(todo) # <<>>
  BY <1>1, OnlyOne
<1>3. todo' # <<>> /\ todo'[Len(todo')] = todo[Len(todo)]
  BY <1>2, LastKept
<1>4. QED
  BY <1>1, <1>3 DEF Ends

LEMMA MergingSeq ==
  ASSUME NEW popped, NEW left, NEW l, NEW add
  PROVE  IsSeq(Merging(popped, left, l, add))
BY NothingSeq, OneSeq DEF Merging

LEMMA CompileEnds ==
  ASSUME NEW a, NEW lh, Flows(a, lh), Ends, Compile
  PROVE  Ends'
<1>1. IsSeq(todo) /\ Len(labels) \in Nat /\ IsSeq(code) /\ (IsSeq(Tail(todo)) \/ todo = <<>>)
  BY FlowsFacts, TailSeq
<1>2. CASE EmitNode
  <2>1. Len(labels) \in Nat /\ IsSeq(todo)
    BY FlowsFacts
  <2>2. PICK n, node, cost, items : n \in Nat /\ Emitting(node, cost, n, items) /\ IsSeq(items) /\ Expands(node, n, items)
    BY <1>2, <2>1, NodesExpand, Zenon DEF Expanded
  <2>3. todo # <<>> /\ Head(todo).do # "ins" /\ todo' = items \o Tail(todo)
    BY <2>2 DEF Emitting, Compiling
  <2>4. QED
    BY <2>1, <2>2, <2>3, EndsKept
<1>3. CASE EmitIns
  <2>1. /\ todo # <<>> /\ todo' = Tail(todo) /\ code' = Append(code, Head(todo).ins) /\ labels' = labels
    BY <1>3 DEF EmitIns, Calls, Compiling, Emit, Returned, Call
  <2>2. IsSeq(todo) /\ IsSeq(code) /\ IsSeq(Tail(todo)) /\ CodeFlows(code, labels, lh, a.h)
    BY <2>1, FlowsFacts, TailSeq
  <2>3. CASE Tail(todo) = <<>>
    <3>1. Head(todo).ins.op = "ret"
      BY <2>1, <2>2, <2>3, OnlyOne DEF Ends
    <3>2. IsSeq(code') /\ Len(code') = Len(code) + 1 /\ code'[Len(code) + 1] = Head(todo).ins /\ Len(code) \in Nat
      BY <2>1, <2>2, AppendSeq, SeqFacts
    <3>3. code' # <<>> /\ code'[Len(code')].op = "ret"
      BY <3>1, <3>2, SeqFacts
    <3>4. \A l \in Old : labels[l] # NoPos => labels[l] \in 1..Len(code)+1
      BY <2>2 DEF CodeFlows, Heights, Old
    <3>5. Old' = Old
      BY <2>1 DEF Old
    <3>6. QED
      BY <2>1, <2>3, <3>2, <3>3, <3>4, <3>5 DEF Ends
  <2>4. CASE Tail(todo) # <<>>
    <3>1. PICK items : items = <<>>
      OBVIOUS
    <3>2. IsSeq(items) /\ todo' = items \o Tail(todo)
      BY <2>1, <2>2, <3>1, NothingSeq, NothingJoin
    <3>3. todo' # <<>> /\ todo'[Len(todo')] = todo[Len(todo)]
      BY <2>1, <2>2, <2>4, <3>2, LastKept
    <3>4. QED
      BY <2>1, <3>3 DEF Ends
  <2>5. QED
    BY <2>3, <2>4
<1>4. ASSUME todo # <<>>, Head(todo).do # "ins", todo' = Tail(todo) PROVE Ends'
  <2>1. PICK items : items = <<>>
    OBVIOUS
  <2>2. IsSeq(todo) /\ IsSeq(Tail(todo))
    BY <1>4, FlowsFacts, TailSeq
  <2>3. IsSeq(items) /\ todo' = items \o Tail(todo)
    BY <1>4, <2>1, <2>2, NothingSeq, NothingJoin
  <2>4. QED
    BY <1>4, <2>2, <2>3, EndsKept
<1>5. CASE GetName \/ SetName \/ BindNew \/ EnterScope \/ OwnIds \/ PlaceLabel
  BY <1>4, <1>5 DEF GetName, SetName, BindNew, EnterScope, OwnIds, PlaceLabel, Calls, Compiling, Returned
<1>6. CASE LeaveScope \/ MergeName
  <2>1. todo # <<>> /\ Head(todo).do # "ins"
    BY <1>6 DEF LeaveScope, MergeName, Calls, Compiling
  <2>2. \E popped, left, l, add : todo' = Merging(popped, left, l, add) \o Tail(todo)
    BY <1>6 DEF LeaveScope, MergeName
  <2>3. IsSeq(todo)
    BY FlowsFacts
  <2>4. QED
    BY <2>1, <2>2, <2>3, MergingSeq, EndsKept
<1>7. CASE Error
  BY <1>7 DEF Error, function, Ends, Old
<1>8. QED
  BY <1>2, <1>3, <1>5, <1>6, <1>7 DEF Compile, MakeCall

-----------------------------------------------------------------------------
(* The bytecode is executed with the heights it was compiled for.          *)

LEMMA InitEnds ==
  ASSUME CompilerInit
  PROVE  Ends
<1>1. ASSUME NEW s, IsSeq(s), todo = s \o Ins("ret") PROVE Ends
  <2>1. IsSeq(Ins("ret")) /\ Len(Ins("ret")) = 1 /\ Ins("ret")[1].do = "ins" /\ Ins("ret")[1].ins.op = "ret"
    BY OneSeq DEF Ins
  <2>2. IsSeq(todo) /\ Len(todo) = Len(s) + 1 /\ todo[Len(s) + 1] = Ins("ret")[1] /\ Len(s) \in Nat
    BY <1>1, <2>1, JoinSeq, SeqFacts
  <2>3. todo # <<>>
    BY <2>2, SeqFacts
  <2>4. QED
    BY <2>1, <2>2, <2>3 DEF Ends
<1>2. IsSeq(Node("expr")) /\ IsSeq(Node("stmts")) /\ IsSeq(Ins("ldc"))
  BY OneSeq DEF Node, Ins
<1>3. IsSeq(Node("stmts") \o Ins("ldc"))
  BY <1>2, JoinSeq
<1>4. QED
  BY <1>1, <1>2, <1>3 DEF CompilerInit

Flowing == \E a, lh : Flows(a, lh)

LEMMA CompileFlowing ==
  ASSUME Flowing, Ends, Compile
  PROVE  Flowing' /\ Ends'
<1>1. PICK a, lh : Flows(a, lh)
  BY DEF Flowing
<1>2. Ends'
  BY <1>1, CompileEnds
<1>3. CASE EmitNode \/ MakeCall
  BY <1>1, <1>2, <1>3, CompileFlows DEF Flowing
<1>4. CASE Error
  <2>1. /\ scopes' = scopes /\ code' = code /\ labels' = labels /\ ids' = ids /\ todo' = todo
    BY <1>4 DEF Error, function
  <2>2. Pending' = Pending /\ Old' = Old
    BY <2>1 DEF Pending, Old
  <2>3. Ahead(a, lh)' <=> Ahead(a, lh)
    BY <2>1 DEF Ahead
  <2>4. Flows(a, lh)'
    BY <1>1, <2>1, <2>2, <2>3 DEF Flows
  <2>5. QED
    BY <1>2, <2>4 DEF Flowing
<1>5. QED
  BY <1>3, <1>4 DEF Compile

\* What is compiled is well formed.
WellFormed ==
  /\ Len(scopes) = 2 /\ IsSeq(code) /\ Len(code) \in Nat /\ code # <<>> /\ code[Len(code)].op = "ret"
  /\ \A l \in Old : labels[l] \in 1..Len(code)
  /\ \E lh, hc : lh \in [Old -> Nat] /\ Heights(code, labels, lh, hc)

LEMMA CompiledWell ==
  ASSUME Flowing, Ends, Compiled
  PROVE  WellFormed
<1>1. PICK a, lh : Flows(a, lh)
  BY DEF Flowing
<1>2. /\ a \in Points /\ a.d = Len(scopes) /\ a.u = Pending /\ IsSeq(code) /\ Len(code) \in Nat
      /\ CodeFlows(code, labels, lh, a.h) /\ Ahead(a, lh) /\ lh \in [Old -> Nat]
  BY <1>1, FlowsFacts
<1>3. a.d = 2 /\ a.u = {}
  BY <1>2, AheadEnd DEF Compiled
<1>4. \A l \in Old : labels[l] # NoPos
  BY <1>2, <1>3 DEF Pending
<1>5. code # <<>> /\ code[Len(code)].op = "ret" /\ \A l \in Old : labels[l] \in 1..Len(code)
  BY <1>4 DEF Ends, Compiled
<1>6. \E hc : Heights(code, labels, lh, hc)
  BY <1>2 DEF CodeFlows
<1>7. QED
  BY <1>2, <1>3, <1>5, <1>6 DEF WellFormed

Running ==
  /\ pc = 0 => operands = <<>>
  /\ pc # 0 =>
       /\ Compiled /\ pc \in 1..Len(code)
       /\ NoCurries =>
            /\ IsSeq(operands)
            /\ \E lh, hc : lh \in [Old -> Nat] /\ Heights(code, labels, lh, hc) /\ Len(operands) = hc[pc]

LEMMA TypedHeight ==
  ASSUME NEW lh, NEW hc, Heights(code, labels, lh, hc), Len(code) \in Nat, pc \in 1..Len(code)
  PROVE  /\ hc[pc] \in Nat /\ hc[pc + 1] \in Nat /\ StackStep(Instr, hc[pc], hc[pc + 1], lh)
         /\ hc[1] = 0
BY DEF Heights, Instr

LEMMA NoUnderflow ==
  ASSUME Flowing, Ends, Running, NoCurries
  PROVE  NeverUnderflows
<1> SUFFICES ASSUME pc # 0 PROVE Len(operands) >= Takes(Instr)
  BY DEF NeverUnderflows
<1>1. WellFormed
  BY CompiledWell DEF Running
<1>2. PICK lh, hc : lh \in [Old -> Nat] /\ Heights(code, labels, lh, hc) /\ Len(operands) = hc[pc]
  BY DEF Running
<1>3. /\ hc[pc] \in Nat /\ hc[pc + 1] \in Nat /\ StackStep(Instr, hc[pc], hc[pc + 1], lh)
  BY <1>1, <1>2, TypedHeight DEF Running, WellFormed
<1> HIDE DEF Instr
<1>4. QED
  BY <1>2, <1>3 DEF StackStep, Takes

LEMMA OneResult ==
  ASSUME Flowing, Ends, Running, NoCurries, "return" \notin Construct
  PROVE  ReturnsOne
<1> SUFFICES ASSUME At("ret") PROVE Len(operands) = 1
  BY DEF ReturnsOne
<1>1. pc # 0 /\ Instr.op = "ret"
  BY DEF At
<1>2. WellFormed
  BY <1>1, CompiledWell DEF Running
<1>3. PICK lh, hc : lh \in [Old -> Nat] /\ Heights(code, labels, lh, hc) /\ Len(operands) = hc[pc]
  BY <1>1 DEF Running
<1>4. /\ hc[pc] \in Nat /\ hc[pc + 1] \in Nat /\ StackStep(Instr, hc[pc], hc[pc + 1], lh)
  BY <1>1, <1>2, <1>3, TypedHeight DEF Running, WellFormed
<1> HIDE DEF Instr
<1>5. QED
  BY <1>1, <1>3, <1>4 DEF StackStep

LEMMA DropSeq ==
  ASSUME NEW s, IsSeq(s), NEW k \in 0..Len(s), NEW t, t = SubSeq(s, k + 1, Len(s))
  PROVE  IsSeq(t) /\ Len(t) = Len(s) - k
<1>1. Len(s) \in Nat
  BY SeqFacts
<1>2. PICK S : s \in Seq(S)
  BY DEF IsSeq
<1>3. t \in Seq(S) /\ Len(t) = Len(s) - k
  BY <1>1, <1>2
<1>4. QED
  BY <1>3 DEF IsSeq

LEMMA PushSeq ==
  ASSUME NEW s, IsSeq(s), NEW e, NEW t, t = <<e>> \o s
  PROVE  IsSeq(t) /\ Len(t) = Len(s) + 1
BY OneSeq, JoinSeq, SeqFacts

\* Where an instruction other than a jump leads to.
LEMMA NextPlace ==
  ASSUME WellFormed, pc \in 1..Len(code), Instr.op # "ret"
  PROVE  pc + 1 \in 1..Len(code)
<1>1. pc # Len(code)
  BY DEF WellFormed, Instr
<1>2. Len(code) \in Nat
  BY DEF WellFormed
<1>3. QED
  BY <1>1, <1>2

LEMMA JumpPlace ==
  ASSUME NEW lh \in [Old -> Nat], NEW h1, NEW h2, StackStep(Instr, h1, h2, lh), WellFormed,
         Instr.op \in {"bez", "bnz", "br"}
  PROVE  Instr.label \in Old /\ labels[Instr.label] \in 1..Len(code)
<1>1. Instr.label \in DOMAIN lh
  BY DEF StackStep
<1>2. QED
  BY <1>1 DEF WellFormed

LEMMA ExecuteRuns ==
  ASSUME Flowing, Ends, Running, Execute
  PROVE  Running'
<1>1. pc # 0 /\ Compiled /\ pc \in 1..Len(code) /\ Len(operands) >= Takes(Instr)
  BY DEF Running, Execute
<1>2. WellFormed
  BY <1>1, CompiledWell
<1>3. /\ code' = code /\ labels' = labels /\ todo' = todo /\ failed' = failed
  BY DEF Execute, compiler, function
<1>4. Len(code) \in Nat
  BY <1>2 DEF WellFormed
<1>5. ASSUME NEW lh \in [Old -> Nat], NEW hc, Heights(code, labels, lh, hc)
      PROVE  /\ pc' \in 1..Len(code)
             /\ Instr.op \notin {"br"} => pc' = pc + 1 \/ hc[pc'] = hc[pc + 1]
             /\ Instr.op = "br" => hc[pc'] = hc[pc]
  <2>1. /\ hc[pc] \in Nat /\ hc[pc + 1] \in Nat /\ StackStep(Instr, hc[pc], hc[pc + 1], lh)
    BY <1>1, <1>4, <1>5, TypedHeight
  <2>2. ASSUME Instr.op \in {"bez", "bnz", "br"}
        PROVE  /\ Instr.label \in Old /\ labels[Instr.label] \in 1..Len(code)
               /\ hc[labels[Instr.label]] = lh[Instr.label]
    <3>1. Instr.label \in Old /\ labels[Instr.label] \in 1..Len(code)
      BY <1>2, <2>1, <2>2, JumpPlace
    <3>2. labels[Instr.label] # NoPos
      BY <1>4, <3>1, NoPosFacts
    <3>3. QED
      BY <1>5, <3>1, <3>2 DEF Heights, Old
  <2>3. CASE Operate \/ DupOrPop \/ Ldvar \/ Stvar
    <3>1. pc' = pc + 1 /\ Instr.op \notin {"ret", "br"}
      BY <2>3 DEF Operate, DupOrPop, Ldvar, Stvar
    <3>2. QED
      BY <1>1, <1>2, <3>1, NextPlace
  <2>4. CASE Br
    <3>1. pc' = labels[Instr.label] /\ Instr.op = "br"
      BY <2>4 DEF Br
    <3>2. lh[Instr.label] = hc[pc]
      BY <2>1, <3>1 DEF StackStep
    <3>3. QED
      BY <2>2, <3>1, <3>2
  <2>5. CASE Bez
    <3>1. pc' \in {pc + 1, labels[Instr.label]} /\ Instr.op \in {"bez", "bnz"}
      BY <2>5 DEF Bez
    <3>2. lh[Instr.label] = hc[pc + 1]
      BY <2>1, <3>1 DEF StackStep
    <3>3. pc + 1 \in 1..Len(code)
      BY <1>1, <1>2, <3>1, NextPlace
    <3>4. QED
      BY <2>2, <3>1, <3>2, <3>3
  <2>6. QED
    BY <2>3, <2>4, <2>5 DEF Execute
<1>6. pc' \in 1..Len(code)
  BY <1>2, <1>5 DEF WellFormed
<1>7. ASSUME NoCurries
      PROVE  /\ IsSeq(operands')
             /\ \E lh, hc : lh \in [Old -> Nat] /\ Heights(code, labels, lh, hc) /\ Len(operands') = hc[pc']
  <2>1. IsSeq(operands)
    BY <1>1, <1>7 DEF Running
  <2>2. PICK lh, hc : lh \in [Old -> Nat] /\ Heights(code, labels, lh, hc) /\ Len(operands) = hc[pc]
    BY <1>1, <1>7 DEF Running
  <2>3. /\ hc[pc] \in Nat /\ hc[pc + 1] \in Nat /\ StackStep(Instr, hc[pc], hc[pc + 1], lh)
    BY <1>1, <1>4, <2>2, TypedHeight
  <2>4. /\ Instr.op # "br" => pc' = pc + 1 \/ hc[pc'] = hc[pc + 1]
        /\ Instr.op = "br" => hc[pc'] = hc[pc]
    BY <1>5, <2>2
  <2>5. Len(operands) \in Nat
    BY <2>1, SeqFacts
  <2>6. CASE Operate
    <3>1. Instr.op \in {"ldc", "msg"} /\ operands' = <<pc>> \o SubSeq(operands, Takes(Instr) + 1, Len(operands))
      BY <2>6 DEF Operate
    <3> DEFINE k == Takes(Instr)
               t == SubSeq(operands, k + 1, Len(operands))
    <3>2. k \in 0..Len(operands) /\ hc[pc + 1] = hc[pc] - k + 1
      BY <1>7, <2>2, <2>3, <3>1 DEF Takes, StackStep
    <3>3. operands' = <<pc>> \o t
      BY <3>1
    <3> HIDE DEF k
    <3>4. IsSeq(t) /\ Len(t) = Len(operands) - k
      BY <2>1, <3>2, DropSeq
    <3> HIDE DEF t
    <3>5. IsSeq(operands') /\ Len(operands') = Len(operands) - k + 1
      BY <3>3, <3>4, PushSeq
    <3>6. hc[pc'] = hc[pc + 1]
      BY <2>4, <3>1
    <3>7. QED
      BY <2>2, <3>2, <3>5, <3>6
  <2>7. CASE DupOrPop
    <3>1. Instr.op \in {"dup", "pop"}
          /\ operands' = IF Instr.op = "dup" THEN <<Head(operands)>> \o operands ELSE Tail(operands)
      BY <2>7 DEF DupOrPop
    <3>2. hc[pc'] = hc[pc + 1]
      BY <2>4, <3>1
    <3>3. CASE Instr.op = "dup"
      <4>1. IsSeq(operands') /\ Len(operands') = Len(operands) + 1
        BY <2>1, <3>1, <3>3, PushSeq
      <4>2. QED
        BY <2>2, <2>3, <3>2, <3>3, <4>1 DEF StackStep
    <3>4. CASE Instr.op = "pop"
      <4>1. hc[pc] > 0 /\ hc[pc + 1] = hc[pc] - 1
        BY <2>3, <3>4 DEF StackStep
      <4>2. operands # <<>>
        BY <2>1, <2>2, <4>1, SeqFacts
      <4>3. IsSeq(operands') /\ Len(operands') = Len(operands) - 1
        BY <2>1, <3>1, <3>4, <4>2, TailSeq
      <4>4. QED
        BY <2>2, <3>2, <4>1, <4>3
    <3>5. QED
      BY <3>1, <3>3, <3>4
  <2>8. CASE Ldvar
    <3>1. Instr.op = "ldvar" /\ \E v : operands' = <<v>> \o operands
      BY <2>8 DEF Ldvar
    <3>2. IsSeq(operands') /\ Len(operands') = Len(operands) + 1
      BY <2>1, <3>1, PushSeq
    <3>3. hc[pc'] = hc[pc + 1] /\ hc[pc + 1] = hc[pc] + 1
      BY <2>3, <2>4, <3>1 DEF StackStep
    <3>4. QED
      BY <2>2, <3>2, <3>3
  <2>9. CASE Stvar \/ Bez
    <3>1. Instr.op \in {"stvar", "bez", "bnz"} /\ operands' = Tail(operands)
      BY <2>9 DEF Stvar, Bez
    <3>2. hc[pc] > 0 /\ hc[pc + 1] = hc[pc] - 1
      BY <2>3, <3>1 DEF StackStep
    <3>3. operands # <<>>
      BY <2>1, <2>2, <3>2, SeqFacts
    <3>4. IsSeq(operands') /\ Len(operands') = Len(operands) - 1
      BY <2>1, <3>1, <3>3, TailSeq
    <3>5. hc[pc'] = hc[pc + 1]
      BY <2>4, <3>1
    <3>6. QED
      BY <2>2, <3>2, <3>4, <3>5
  <2>10. CASE Br
    <3>1. Instr.op = "br" /\ operands' = operands
      BY <2>10 DEF Br
    <3>2. QED
      BY <2>1, <2>2, <2>4, <3>1
  <2>11. QED
    BY <2>6, <2>7, <2>8, <2>9, <2>10 DEF Execute
<1>8. Compiled' /\ pc' # 0 /\ Old' = Old
  BY <1>1, <1>3, <1>4, <1>6 DEF Compiled, Old
<1>9. Running'
  BY <1>3, <1>6, <1>7, <1>8 DEF Running
<1>10. QED
  BY <1>9

Sound == Flowing /\ Ends /\ Running

LEMMA SoundInit ==
  ASSUME Init
  PROVE  Sound
<1>1. Flowing
  BY InitFlows DEF Init, Flowing
<1>2. Ends
  BY InitEnds DEF Init
<1>3. Running
  BY DEF Init, Running
<1>4. QED
  BY <1>1, <1>2, <1>3 DEF Sound

LEMMA CompileSame ==
  ASSUME Flowing, Ends, UNCHANGED compiler
  PROVE  Flowing' /\ Ends'
<1>1. PICK a, lh : Flows(a, lh)
  BY DEF Flowing
<1>2. /\ scopes' = scopes /\ code' = code /\ labels' = labels /\ ids' = ids /\ todo' = todo
  BY DEF compiler, function
<1>3. Pending' = Pending /\ Old' = Old
  BY <1>2 DEF Pending, Old
<1>4. Ahead(a, lh)' <=> Ahead(a, lh)
  BY <1>2 DEF Ahead
<1>5. Flows(a, lh)'
  BY <1>1, <1>2, <1>3, <1>4 DEF Flows
<1>6. Ends'
  BY <1>2, <1>3 DEF Ends
<1>7. QED
  BY <1>5, <1>6 DEF Flowing

LEMMA RunningSame ==
  ASSUME Running, UNCHANGED vars
  PROVE  Running'
<1>1. /\ code' = code /\ labels' = labels /\ todo' = todo /\ failed' = failed /\ pc' = pc /\ operands' = operands
  BY DEF vars, compiler, function, path
<1>2. QED
  BY <1>1 DEF Running, Compiled, Old

LEMMA SoundNext ==
  ASSUME Sound, [Next]_vars
  PROVE  Sound'
<1>1. Flowing /\ Ends /\ Running
  BY DEF Sound
<1>2. CASE CompileNext
  <2>1. Flowing' /\ Ends'
    BY <1>1, <1>2, CompileFlowing DEF CompileNext
  <2>2. pc = 0
    <3>1. ~Compiled
      BY <1>2 DEF CompileNext, Compile, EmitNode, MakeCall, Error, Compiled, Calls, Compiling,
         LoadLiteral, LoadIdentifier, LoadXInfix, LoadXUnary, LoadInc, LoadXMsg, LoadTuple, LoadXParen,
         LoadXBlock, LoadXControl, EmitStmts, EmitExpr, EmitDecl, EmitAssign, LoadAssignValue, EmitBinding,
         EmitIf, EmitLoop, EmitReturn, Emitting, EmitIns, GetName, SetName, BindNew, EnterScope, LeaveScope,
         MergeName, OwnIds, PlaceLabel
    <3>2. QED
      BY <1>1, <3>1 DEF Running
  <2>3. Running'
    BY <1>1, <1>2, <2>2 DEF CompileNext, path, Running
  <2>4. QED
    BY <2>1, <2>3 DEF Sound
<1>3. CASE Start
  <2>1. Flowing' /\ Ends'
    BY <1>1, <1>3, CompileSame DEF Start
  <2>2. WellFormed
    BY <1>1, <1>3, CompiledWell DEF Start
  <2>3. /\ code' = code /\ labels' = labels /\ todo' = todo /\ failed' = failed
        /\ pc' = 1 /\ operands' = operands /\ Compiled /\ operands = <<>>
    BY <1>1, <1>3 DEF Start, compiler, function, Running
  <2>4. 1 \in 1..Len(code)
    BY <2>2, SeqFacts DEF WellFormed
  <2>5. PICK lh, hc : lh \in [Old -> Nat] /\ Heights(code, labels, lh, hc)
    BY <2>2 DEF WellFormed
  <2>6. hc[1] = 0 /\ IsSeq(operands) /\ Len(operands) = 0
    BY <2>3, <2>5, NothingSeq DEF Heights
  <2>7. Running'
    BY <2>3, <2>4, <2>5, <2>6 DEF Running, Compiled, Old
  <2>8. QED
    BY <2>1, <2>7 DEF Sound
<1>4. CASE Execute
  <2>1. Flowing' /\ Ends'
    BY <1>1, <1>4, CompileSame DEF Execute
  <2>2. Running'
    BY <1>1, <1>4, ExecuteRuns
  <2>3. QED
    BY <2>1, <2>2 DEF Sound
<1>5. CASE UNCHANGED vars
  <2>1. UNCHANGED compiler
    BY <1>5 DEF vars
  <2>2. QED
    BY <1>1, <1>5, <2>1, CompileSame, RunningSame DEF Sound
<1>6. CASE Terminated
  BY <1>5, <1>6 DEF Terminated
<1>7. QED
  BY <1>2, <1>3, <1>4, <1>5, <1>6 DEF Next

\* The invariant: what is left to compile leads from the heights of the code so far
\* to the end of the function, and execution is at the height of its instruction.
THEOREM Soundness == Spec => []Sound
<1>1. Init => Sound
  BY SoundInit
<1>2. Sound /\ [Next]_vars => Sound'
  BY SoundNext
<1>3. QED
  BY <1>1, <1>2, PTL DEF Spec

\* Whatever is compiled, every instruction finds the operands it takes on the
\* stack, if no message is curried.
THEOREM Balanced == ASSUME NoCurries PROVE Spec => []NeverUnderflows
<1>1. Sound => NeverUnderflows
  BY NoUnderflow DEF Sound
<1>2. QED
  BY <1>1, Soundness, PTL

\* And a function returns with its result alone on the stack, if it has no return
\* statement.
THEOREM OneReturned == ASSUME NoCurries, "return" \notin Construct PROVE Spec => []ReturnsOne
<1>1. Sound => ReturnsOne
  BY OneResult DEF Sound
<1>2. QED
  BY <1>1, Soundness, PTL

-----------------------------------------------------------------------------
(* The chain of scopes.                                                    *)

LEMMA Least ==
  ASSUME NEW T, T \subseteq Nat, T # {}
  PROVE  \E x \in T : \A y \in T : x <= y
<1> DEFINE R == OpToRel(<, Nat)
<1>1. IsWellFoundedOn(R, Nat)
  BY NatLessThanWellFounded
<1>2. \A x, y \in Nat : x < y => <<x, y>> \in R
  BY DEF OpToRel
<1> HIDE DEF R
<1>3. PICK x \in T : \A y \in T : ~ (<<y, x>> \in R)
  BY <1>1, WFMin
<1>4. \A y \in T : ~(y < x)
  BY <1>2, <1>3
<1>5. QED
  BY <1>3, <1>4

LEMMA MaxFacts ==
  ASSUME NEW n \in Nat, NEW S, S \subseteq 1..n, S # {}
  PROVE  Max(S) \in S /\ \A y \in S : Max(S) >= y
<1> DEFINE T == {n - k : k \in S}
<1>1. T \subseteq Nat /\ T # {}
  <2>1. \A k \in S : n - k \in Nat
    OBVIOUS
  <2>2. PICK k : k \in S
    OBVIOUS
  <2>3. n - k \in T
    BY <2>2
  <2>4. QED
    BY <2>1, <2>3
<1>2. PICK t \in T : \A y \in T : t <= y
  BY <1>1, Least
<1>3. PICK k \in S : t = n - k
  BY <1>2
<1>4. \A y \in S : n - k <= n - y
  BY <1>2, <1>3
<1>5. \A y \in S : k >= y
  <2> SUFFICES ASSUME NEW y \in S PROVE k >= y
    OBVIOUS
  <2>1. k \in Nat /\ y \in Nat /\ n - k <= n - y
    BY <1>4
  <2>2. QED
    BY <2>1
<1>6. QED
  BY <1>5 DEF Max

\* holderOf finds the innermost scope that knows the name.
LEMMA Holder ==
  ASSUME NEW sc, IsSeq(sc), NEW x, Known(sc, x)
  PROVE  /\ HolderOf(sc, x) \in 1..Len(sc) /\ x \in DOMAIN sc[HolderOf(sc, x)].vars
         /\ \A j \in 1..Len(sc) : j > HolderOf(sc, x) => x \notin DOMAIN sc[j].vars
<1>1. Len(sc) \in Nat /\ DOMAIN sc = 1..Len(sc)
  BY SeqFacts
<1> DEFINE S == {k \in DOMAIN sc : x \in DOMAIN sc[k].vars}
<1>2. S \subseteq 1..Len(sc) /\ S # {}
  BY <1>1 DEF Known
<1>3. Max(S) \in S /\ \A y \in S : Max(S) >= y
  BY <1>1, <1>2, MaxFacts
<1>4. HolderOf(sc, x) = Max(S)
  BY DEF HolderOf
<1>5. HolderOf(sc, x) \in 1..Len(sc) /\ x \in DOMAIN sc[HolderOf(sc, x)].vars
  BY <1>1, <1>3, <1>4
<1>6. \A j \in 1..Len(sc) : x \in DOMAIN sc[j].vars => j \in S
  BY <1>1
<1>7. ASSUME NEW j \in 1..Len(sc), j > HolderOf(sc, x), x \in DOMAIN sc[j].vars PROVE FALSE
  <2>1. HolderOf(sc, x) >= j
    BY <1>3, <1>4, <1>6, <1>7
  <2>2. HolderOf(sc, x) \in Nat /\ j \in Nat
    BY <1>1, <1>5
  <2>3. QED
    BY <1>7, <2>1, <2>2
<1>8. QED
  BY <1>5, <1>7

LEMMA WithFacts ==
  ASSUME NEW f, NEW k, NEW v, NEW g, g = With(f, k, v)
  PROVE  /\ DOMAIN g = DOMAIN f \cup {k} /\ g[k] = v
         /\ \A j \in DOMAIN f : j # k => g[j] = f[j]
BY DEF With

Fields == {"id", "vars", "borrowed", "decl"}
Counts == Nat \X (Nat \cup {COUNT_CONST})

\* The variables X the scope s at place k borrowed are in the scopes they were
\* borrowed from, mutable, and in no scope between.
Lent(sc, k, s, X) ==
  \A x \in X :
    /\ s.borrowed[x] \in 1..k - 1
    /\ x \in DOMAIN sc[s.borrowed[x]].vars
    /\ sc[s.borrowed[x]].vars[x][2] # COUNT_CONST
    /\ \A j \in 1..k - 1 : j > s.borrowed[x] => x \notin DOMAIN sc[j].vars

ScopeSound(sc, k, s) ==
  /\ DOMAIN s = Fields
  /\ DOMAIN s.vars \subseteq Name
  /\ \A x \in DOMAIN s.vars : s.vars[x] \in Counts
  /\ DOMAIN s.borrowed \subseteq DOMAIN s.vars
  /\ Lent(sc, k, s, DOMAIN s.borrowed)

Chained(sc, n) ==
  /\ n \in Nat
  /\ \A k \in 1..Len(sc) : ScopeSound(sc, k, sc[k]) /\ sc[k].id \in 0..n - 1
  /\ \A i, j \in 1..Len(sc) : i < j => sc[i].id < sc[j].id

\* What is merged was borrowed.
Merged(sc, e) ==
  /\ DOMAIN e.popped.borrowed \subseteq Name /\ e.left \subseteq DOMAIN e.popped.borrowed
  /\ Lent(sc, Len(sc) + 1, e.popped, e.left)

Chain ==
  /\ Chained(scopes, nextScopeId)
  /\ todo # <<>> /\ Head(todo).do = "merge" => Merged(scopes, Head(todo))

LEMMA LentBelow ==
  ASSUME NEW sc, NEW sc2, NEW k, NEW s, NEW X, Lent(sc, k, s, X), \A i \in 1..k - 1 : sc2[i] = sc[i]
  PROVE  Lent(sc2, k, s, X)
<1> SUFFICES ASSUME NEW x \in X
             PROVE  /\ s.borrowed[x] \in 1..k - 1
                    /\ x \in DOMAIN sc2[s.borrowed[x]].vars
                    /\ sc2[s.borrowed[x]].vars[x][2] # COUNT_CONST
                    /\ \A j \in 1..k - 1 : j > s.borrowed[x] => x \notin DOMAIN sc2[j].vars
  BY DEF Lent
<1>1. /\ s.borrowed[x] \in 1..k - 1
      /\ x \in DOMAIN sc[s.borrowed[x]].vars
      /\ sc[s.borrowed[x]].vars[x][2] # COUNT_CONST
      /\ \A j \in 1..k - 1 : j > s.borrowed[x] => x \notin DOMAIN sc[j].vars
  BY DEF Lent
<1>2. QED
  BY <1>1

\* The current scope alone changes.
LEMMA TopChanged ==
  ASSUME NEW sc, IsSeq(sc), sc # <<>>, NEW n, Chained(sc, n),
         NEW sc2, Len(sc2) = Len(sc), \A i \in 1..Len(sc) : i # Len(sc) => sc2[i] = sc[i],
         sc2[Len(sc)].id = sc[Len(sc)].id, ScopeSound(sc, Len(sc), sc2[Len(sc)])
  PROVE  Chained(sc2, n)
<1>1. Len(sc) \in Nat \ {0}
  BY SeqFacts
<1>2. \A k \in 1..Len(sc) : sc2[k].id = sc[k].id
  OBVIOUS
<1>3. ASSUME NEW k \in 1..Len(sc) PROVE ScopeSound(sc2, k, sc2[k])
  <2>1. ScopeSound(sc, k, sc2[k])
    BY DEF Chained
  <2>2. \A i \in 1..k - 1 : sc2[i] = sc[i]
    BY <1>1
  <2>3. Lent(sc2, k, sc2[k], DOMAIN sc2[k].borrowed)
    BY <2>1, <2>2, LentBelow DEF ScopeSound
  <2>4. QED
    BY <2>1, <2>3 DEF ScopeSound
<1>4. QED
  BY <1>2, <1>3 DEF Chained

\* The scope at place n may store to x, which scope k holds.
Lendable(sc, n, k, x) ==
  \/ k = n
  \/ /\ k \in 1..n - 1 /\ x \in DOMAIN sc[k].vars /\ sc[k].vars[x][2] # COUNT_CONST
     /\ \A j \in 1..n - 1 : j > k => x \notin DOMAIN sc[j].vars

\* What the current scope records of x it may record.
LEMMA RecordedSound ==
  ASSUME NEW sc, NEW n, NEW s, ScopeSound(sc, n, s), NEW k, NEW x \in Name,
         NEW phi \in Nat, NEW count \in Nat \cup {COUNT_CONST},
         Lendable(sc, n, k, x),
         NEW s2, s2 = Recorded(s, n, k, x, phi, count)
  PROVE  ScopeSound(sc, n, s2) /\ s2.id = s.id /\ s2.decl = s.decl
         /\ s2.vars = With(s.vars, x, <<phi, count>>)
         /\ s2.borrowed = IF k = n THEN s.borrowed ELSE With(s.borrowed, x, k)
<1>1. /\ DOMAIN s = Fields
      /\ DOMAIN s.vars \subseteq Name
      /\ \A y \in DOMAIN s.vars : s.vars[y] \in Counts
      /\ DOMAIN s.borrowed \subseteq DOMAIN s.vars
      /\ Lent(sc, n, s, DOMAIN s.borrowed)
  BY DEF ScopeSound
<1> DEFINE vs == With(s.vars, x, <<phi, count>>)
           bs == IF k = n THEN s.borrowed ELSE With(s.borrowed, x, k)
<1>2. DOMAIN s2 = Fields /\ s2.id = s.id /\ s2.decl = s.decl /\ s2.vars = vs /\ s2.borrowed = bs
  BY <1>1 DEF Recorded, Fields
<1>3. /\ DOMAIN vs = DOMAIN s.vars \cup {x} /\ vs[x] = <<phi, count>>
      /\ \A y \in DOMAIN s.vars : y # x => vs[y] = s.vars[y]
  BY DEF With
<1>4. k # n => /\ DOMAIN bs = DOMAIN s.borrowed \cup {x} /\ bs[x] = k
               /\ \A y \in DOMAIN s.borrowed : y # x => bs[y] = s.borrowed[y]
  <2>1. CASE k # n
    <3>1. bs = With(s.borrowed, x, k)
      BY <2>1
    <3> HIDE DEF bs
    <3>2. QED
      BY <3>1 DEF With
  <2>2. QED
    BY <2>1
<1>5. k = n => bs = s.borrowed
  OBVIOUS
<1> HIDE DEF vs, bs
<1>6. \A y \in DOMAIN vs : vs[y] \in Counts
  <2>1. <<phi, count>> \in Counts
    BY DEF Counts
  <2>2. QED
    BY <1>1, <1>3, <2>1
<1>7. Lent(sc, n, s2, DOMAIN bs)
  <2> SUFFICES ASSUME NEW y \in DOMAIN bs
               PROVE  /\ bs[y] \in 1..n - 1
                      /\ y \in DOMAIN sc[bs[y]].vars
                      /\ sc[bs[y]].vars[y][2] # COUNT_CONST
                      /\ \A j \in 1..n - 1 : j > bs[y] => y \notin DOMAIN sc[j].vars
    BY <1>2 DEF Lent
  <2>1. CASE y \in DOMAIN s.borrowed /\ bs[y] = s.borrowed[y]
    BY <1>1, <2>1 DEF Lent
  <2>2. CASE k # n /\ y = x
    BY <1>4, <2>2 DEF Lendable
  <2>3. QED
    BY <1>4, <1>5, <2>1, <2>2
<1>8. ScopeSound(sc, n, s2)
  BY <1>1, <1>2, <1>3, <1>4, <1>5, <1>6, <1>7 DEF ScopeSound
<1>9. QED
  BY <1>2, <1>8 DEF vs, bs

\* recordVar keeps the chain sound.
LEMMA RecordChained ==
  ASSUME NEW sc, IsSeq(sc), sc # <<>>, NEW m, Chained(sc, m), NEW k, NEW x \in Name,
         NEW phi \in Nat, NEW count \in Nat \cup {COUNT_CONST},
         Lendable(sc, Len(sc), k, x),
         NEW sc2, sc2 = RecordVar(sc, k, x, phi, count)
  PROVE  Chained(sc2, m)
<1> DEFINE n == Len(sc)
<1>1. /\ IsSeq(sc2) /\ Len(sc2) = n /\ n \in Nat \ {0}
      /\ \A i \in 1..n : i # n => sc2[i] = sc[i]
      /\ sc2[n] = Recorded(sc[n], n, k, x, phi, count)
  BY Recording
<1>2. ScopeSound(sc, n, sc[n])
  BY <1>1 DEF Chained
<1>3. ScopeSound(sc, n, sc2[n]) /\ sc2[n].id = sc[n].id
  <2>1. Lendable(sc, n, k, x)
    OBVIOUS
  <2>2. PICK s, s2 : s = sc[n] /\ s2 = sc2[n]
    OBVIOUS
  <2> HIDE DEF n
  <2>3. ScopeSound(sc, n, s) /\ s2 = Recorded(s, n, k, x, phi, count)
    BY <1>1, <1>2, <2>2
  <2>4. ScopeSound(sc, n, s2)
    BY <2>1, <2>3, RecordedSound
  <2>6. s2.id = s.id
    BY <2>3 DEF Recorded, ScopeSound, Fields
  <2>5. QED
    BY <2>2, <2>4, <2>6
<1>4. QED
  BY <1>1, <1>3, TopChanged

\* A name that can be stored to can be borrowed.
LEMMA HolderLends ==
  ASSUME NEW sc, IsSeq(sc), NEW m, Chained(sc, m), NEW x, Known(sc, x)
  PROVE  /\ HolderOf(sc, x) \in 1..Len(sc) /\ x \in DOMAIN sc[HolderOf(sc, x)].vars /\ x \in Name
         /\ sc[HolderOf(sc, x)].vars[x] \in Counts
         /\ Mutable(sc, x) => sc[HolderOf(sc, x)].vars[x][2] # COUNT_CONST
         /\ HolderOf(sc, x) # Len(sc) => HolderOf(sc, x) \in 1..Len(sc) - 1
         /\ \A j \in 1..Len(sc) : j > HolderOf(sc, x) => x \notin DOMAIN sc[j].vars
<1>1. /\ HolderOf(sc, x) \in 1..Len(sc) /\ x \in DOMAIN sc[HolderOf(sc, x)].vars
      /\ \A j \in 1..Len(sc) : j > HolderOf(sc, x) => x \notin DOMAIN sc[j].vars
  BY Holder
<1>2. ScopeSound(sc, HolderOf(sc, x), sc[HolderOf(sc, x)])
  BY <1>1 DEF Chained
<1>3. x \in Name /\ sc[HolderOf(sc, x)].vars[x] \in Counts
  BY <1>1, <1>2 DEF ScopeSound
<1>4. Len(sc) \in Nat
  BY SeqFacts
<1>5. HolderOf(sc, x) # Len(sc) => HolderOf(sc, x) \in 1..Len(sc) - 1
  BY <1>1, <1>4
<1>6. QED
  BY <1>1, <1>3, <1>5 DEF Mutable

LEMMA CountsFacts ==
  ASSUME NEW v \in Counts
  PROVE  v[1] \in Nat /\ v[2] \in Nat \cup {COUNT_CONST} /\ (v[2] # COUNT_CONST => v[2] \in Nat /\ v[2] + 1 \in Nat)
BY DEF Counts

LEMMA SetChained ==
  ASSUME NEW sc, IsSeq(sc), sc # <<>>, NEW m, Chained(sc, m), NEW x, Known(sc, x), Mutable(sc, x),
         NEW sc2, sc2 = Set(sc, x)
  PROVE  Chained(sc2, m)
<1> DEFINE k == HolderOf(sc, x)
           v == sc[k].vars[x]
<1>1. /\ k \in 1..Len(sc) /\ x \in DOMAIN sc[k].vars /\ x \in Name /\ v \in Counts /\ v[2] # COUNT_CONST
      /\ k # Len(sc) => k \in 1..Len(sc) - 1
      /\ \A j \in 1..Len(sc) : j > k => x \notin DOMAIN sc[j].vars
  BY HolderLends
<1>2. v[1] \in Nat /\ v[2] + 1 \in Nat
  BY <1>1, CountsFacts
<1>3. Len(sc) \in Nat
  BY SeqFacts
<1>4. sc2 = IF k # Len(sc) THEN RecordVar(sc, k, x, 0, 0) ELSE RecordVar(sc, k, x, v[1], v[2] + 1)
  BY DEF Set, Top
<1>5. CASE k # Len(sc)
  <2>1. Lendable(sc, Len(sc), k, x)
    BY <1>1, <1>3, <1>5 DEF Lendable
  <2> HIDE DEF k
  <2>2. sc2 = RecordVar(sc, k, x, 0, 0)
    BY <1>4, <1>5
  <2>3. 0 \in Nat /\ 0 \in Nat \cup {COUNT_CONST} /\ x \in Name
    BY <1>1
  <2>4. QED
    BY <2>1, <2>2, <2>3, RecordChained
<1>6. CASE k = Len(sc)
  <2> HIDE DEF k, v
  <2>1. sc2 = RecordVar(sc, k, x, v[1], v[2] + 1)
    BY <1>4, <1>6
  <2>2. v[2] + 1 \in Nat \cup {COUNT_CONST} /\ x \in Name
    BY <1>1, <1>2
  <2>3. Lendable(sc, Len(sc), k, x)
    BY <1>6 DEF Lendable
  <2>4. QED
    BY <1>2, <2>1, <2>2, <2>3, RecordChained
<1>7. QED
  BY <1>5, <1>6

LEMMA BindChained ==
  ASSUME NEW sc, IsSeq(sc), sc # <<>>, NEW m, Chained(sc, m), NEW x \in Name, NEW mut,
         NEW sc2, sc2 = Bind(sc, x, mut)
  PROVE  Chained(sc2, m)
<1>1. PICK count : count = IF mut THEN 0 ELSE COUNT_CONST
  OBVIOUS
<1>2. sc2 = RecordVar(sc, Len(sc), x, 0, count)
  BY <1>1 DEF Bind, Top
<1>3. count \in Nat \cup {COUNT_CONST}
  BY <1>1
<1>4. QED
  BY <1>2, <1>3, RecordChained DEF Lendable

LEMMA PhiChained ==
  ASSUME NEW sc, IsSeq(sc), sc # <<>>, NEW m, Chained(sc, m), NEW popped, NEW X,
         Lent(sc, Len(sc) + 1, popped, X), NEW x \in X, x \in Name,
         NEW sc2, sc2 = Phi(sc, popped.borrowed[x], x)
  PROVE  Chained(sc2, m)
<1> DEFINE k == popped.borrowed[x]
           v == sc[k].vars[x]
<1>1. Len(sc) \in Nat /\ Len(sc) + 1 - 1 = Len(sc)
  BY SeqFacts
<1>2. /\ k \in 1..Len(sc) + 1 - 1 /\ x \in DOMAIN sc[k].vars /\ sc[k].vars[x][2] # COUNT_CONST
      /\ \A j \in 1..Len(sc) + 1 - 1 : j > k => x \notin DOMAIN sc[j].vars
  BY DEF Lent
<1>3. ScopeSound(sc, k, sc[k])
  BY <1>1, <1>2 DEF Chained
<1>4. v \in Counts
  BY <1>2, <1>3 DEF ScopeSound
<1>5. v[1] \in Nat /\ v[1] + 1 \in Nat
  BY <1>4, CountsFacts
<1>6. sc2 = IF k # Len(sc) THEN RecordVar(sc, k, x, 0, 0) ELSE RecordVar(sc, k, x, v[1] + 1, 0)
  BY DEF Phi, Top
<1>7. 0 \in Nat /\ 0 \in Nat \cup {COUNT_CONST}
  OBVIOUS
<1>8. CASE k # Len(sc)
  <2>1. Lendable(sc, Len(sc), k, x)
    BY <1>1, <1>2, <1>8 DEF Lendable
  <2> HIDE DEF k
  <2>2. sc2 = RecordVar(sc, k, x, 0, 0)
    BY <1>6, <1>8
  <2>3. QED
    BY <1>7, <2>1, <2>2, RecordChained
<1>9. CASE k = Len(sc)
  <2> HIDE DEF k, v
  <2>1. sc2 = RecordVar(sc, k, x, v[1] + 1, 0)
    BY <1>6, <1>9
  <2>2. Lendable(sc, Len(sc), k, x)
    BY <1>9 DEF Lendable
  <2>3. QED
    BY <1>5, <1>7, <2>1, <2>2, RecordChained
<1>10. QED
  BY <1>8, <1>9

LEMMA NoNames ==
  ASSUME NEW f, f = <<>>
  PROVE  DOMAIN f = {}
OBVIOUS

LEMMA ScopeIs ==
  ASSUME NEW id, NEW s, s = Scope(id)
  PROVE  /\ DOMAIN s = Fields /\ s.id = id /\ DOMAIN s.vars = {} /\ DOMAIN s.borrowed = {}
         /\ DOMAIN s.decl = {}
BY NoNames DEF Scope, Fields

LEMMA EmptySound ==
  ASSUME NEW sc, NEW k, NEW id, NEW s, s = Scope(id)
  PROVE  ScopeSound(sc, k, s) /\ s.id = id
<1>1. DOMAIN s = Fields /\ s.id = id /\ DOMAIN s.vars = {} /\ DOMAIN s.borrowed = {}
  BY ScopeIs
<1>2. QED
  BY <1>1 DEF ScopeSound, Lent

LEMMA InitChain ==
  ASSUME CompilerInit
  PROVE  Chain
<1>1. PICK params \in SUBSET Name : FunctionInit(params)
  BY DEF CompilerInit
<1> DEFINE vs == [x \in params |-> <<0, COUNT_CONST>>]
           ds == [x \in params |-> 0]
           s == [Scope(0) EXCEPT !.vars = vs, !.decl = ds]
           t == Scope(1)
<1>2. scopes = <<s, t>> /\ nextScopeId = 2
  BY <1>1 DEF FunctionInit
<1>3. ScopeSound(scopes, 2, t) /\ t.id = 1
  BY EmptySound
<1>4. DOMAIN s = Fields /\ s.id = 0 /\ s.vars = vs /\ DOMAIN s.borrowed = {}
  <2>1. DOMAIN Scope(0) = Fields /\ Scope(0).id = 0 /\ DOMAIN Scope(0).borrowed = {}
    BY ScopeIs
  <2>2. QED
    BY <2>1 DEF Fields
<1>5. DOMAIN vs = params /\ \A x \in params : vs[x] = <<0, COUNT_CONST>>
  OBVIOUS
<1>6. <<0, COUNT_CONST>> \in Counts
  BY DEF Counts
<1> HIDE DEF vs, s, t
<1>7. ScopeSound(scopes, 1, s)
  BY <1>4, <1>5, <1>6 DEF ScopeSound, Lent
<1>8. Len(scopes) = 2 /\ scopes[1] = s /\ scopes[2] = t
  BY <1>2
<1>9. \A k \in 1..Len(scopes) : k = 1 \/ k = 2
  BY <1>8
<1>10. Chained(scopes, nextScopeId)
  BY <1>2, <1>3, <1>4, <1>7, <1>8, <1>9 DEF Chained
<1>11. PICK a, lh : Flows(a, lh)
  BY InitFlows
<1>12. todo # <<>> => Head(todo).do # "merge"
  <2>1. ASSUME NEW items, IsSeq(items), NEW node, todo = Node(node) \o items PROVE Head(todo).do # "merge"
    <3> DEFINE e == [do |-> "node", node |-> node]
    <3>1. todo = <<e>> \o items
      BY <2>1 DEF Node
    <3>2. e.do = "node"
      OBVIOUS
    <3> HIDE DEF e
    <3>3. Head(todo) = e
      BY <2>1, <3>1, OneJoin
    <3>4. QED
      BY <3>2, <3>3
  <2>2. IsSeq(Ins("ldc")) /\ IsSeq(Ins("ret")) /\ IsSeq(Node("stmts"))
    BY OneSeq DEF Ins, Node
  <2>3. CASE todo = Node("expr") \o Ins("ret")
    BY <2>1, <2>2, <2>3
  <2>4. CASE todo = Node("stmts") \o Ins("ldc") \o Ins("ret")
    <3>1. IsSeq(Ins("ldc") \o Ins("ret"))
      BY <2>2, JoinSeq
    <3>2. todo = Node("stmts") \o (Ins("ldc") \o Ins("ret"))
      BY <2>2, <2>4, JoinAssoc, SMTT(30)
    <3>3. QED
      BY <2>1, <3>1, <3>2
  <2>5. QED
    BY <2>3, <2>4 DEF CompilerInit
<1>13. QED
  BY <1>10, <1>12 DEF Chain

LEMMA FrontChained ==
  ASSUME NEW sc, IsSeq(sc), sc # <<>>, NEW m, Chained(sc, m), NEW sc2, sc2 = Front(sc)
  PROVE  Chained(sc2, m)
<1>1. /\ IsSeq(sc2) /\ Len(sc2) = Len(sc) - 1 /\ Len(sc) \in Nat /\ \A i \in 1..Len(sc2) : sc2[i] = sc[i]
  BY FrontSeq, SeqFacts
<1>2. \A k \in 1..Len(sc2) : k \in 1..Len(sc)
  BY <1>1
<1>3. ASSUME NEW k \in 1..Len(sc2) PROVE ScopeSound(sc2, k, sc2[k])
  <2>1. ScopeSound(sc, k, sc2[k])
    BY <1>1, <1>2 DEF Chained
  <2>2. \A i \in 1..k - 1 : sc2[i] = sc[i]
    BY <1>1
  <2>3. Lent(sc2, k, sc2[k], DOMAIN sc2[k].borrowed)
    BY <2>1, <2>2, LentBelow DEF ScopeSound
  <2>4. QED
    BY <2>1, <2>3 DEF ScopeSound
<1>4. QED
  BY <1>1, <1>2, <1>3 DEF Chained

LEMMA PushChained ==
  ASSUME NEW sc, IsSeq(sc), NEW m, Chained(sc, m), NEW sc2, sc2 = Append(sc, Scope(m))
  PROVE  Chained(sc2, m + 1)
<1>1. /\ IsSeq(sc2) /\ Len(sc2) = Len(sc) + 1 /\ Len(sc) \in Nat /\ sc2[Len(sc) + 1] = Scope(m)
      /\ \A i \in 1..Len(sc) : sc2[i] = sc[i]
  BY AppendSeq, SeqFacts
<1>2. m \in Nat
  BY DEF Chained
<1>3. ASSUME NEW k \in 1..Len(sc2) PROVE ScopeSound(sc2, k, sc2[k]) /\ sc2[k].id \in 0..m
  <2>1. CASE k = Len(sc) + 1
    <3>1. ScopeSound(sc2, k, sc2[k]) /\ sc2[k].id = m
      BY <1>1, <2>1, EmptySound
    <3>2. QED
      BY <1>2, <3>1
  <2>2. CASE k # Len(sc) + 1
    <3>1. k \in 1..Len(sc) /\ \A i \in 1..k - 1 : sc2[i] = sc[i]
      BY <1>1, <2>2
    <3>2. ScopeSound(sc, k, sc2[k]) /\ sc2[k].id \in 0..m - 1
      BY <1>1, <3>1 DEF Chained
    <3>3. Lent(sc2, k, sc2[k], DOMAIN sc2[k].borrowed)
      BY <3>1, <3>2, LentBelow DEF ScopeSound
    <3>4. QED
      BY <1>2, <3>2, <3>3 DEF ScopeSound
  <2>3. QED
    BY <2>1, <2>2
<1>4. ASSUME NEW i \in 1..Len(sc2), NEW j \in 1..Len(sc2), i < j PROVE sc2[i].id < sc2[j].id
  <2>1. i \in 1..Len(sc) /\ sc2[i].id = sc[i].id /\ sc[i].id \in 0..m - 1
    BY <1>1, <1>4 DEF Chained
  <2>2. CASE j = Len(sc) + 1
    <3>1. sc2[j].id = m
      BY <1>1, <2>2, EmptySound
    <3>2. QED
      BY <1>2, <2>1, <3>1
  <2>3. CASE j # Len(sc) + 1
    <3>1. j \in 1..Len(sc) /\ sc2[j] = sc[j]
      BY <1>1, <2>3
    <3>2. QED
      BY <1>4, <2>1, <3>1 DEF Chained
  <2>4. QED
    BY <2>2, <2>3
<1>5. QED
  BY <1>2, <1>3, <1>4 DEF Chained

\* The declarations of a scope are not part of the code.
LEMMA DeclaredChained ==
  ASSUME NEW sc, IsSeq(sc), sc # <<>>, NEW m, Chained(sc, m), NEW d,
         NEW sc2, sc2 = [sc EXCEPT ![Len(sc)].decl = d]
  PROVE  Chained(sc2, m)
<1>1. Len(sc) \in Nat \ {0} /\ Len(sc) \in 1..Len(sc)
  BY SeqFacts
<1> DEFINE n == Len(sc)
           s == sc[n]
           s2 == [s EXCEPT !.decl = d]
<1>2. sc2 = Changed(sc, n, s2)
  BY DEF Changed
<1>3. ScopeSound(sc, n, s)
  BY <1>1 DEF Chained
<1>4. DOMAIN s2 = Fields /\ s2.id = s.id /\ s2.vars = s.vars /\ s2.borrowed = s.borrowed
  BY <1>3 DEF ScopeSound, Fields
<1> HIDE DEF s2
<1>5. ScopeSound(sc, n, s2)
  BY <1>3, <1>4 DEF ScopeSound, Lent
<1> HIDE DEF s, n
<1>6. Len(sc2) = Len(sc) /\ sc2[n] = s2 /\ \A i \in 1..Len(sc) : i # n => sc2[i] = sc[i]
  BY <1>1, <1>2, ChangedSeq DEF n
<1>7. sc2[Len(sc)].id = sc[Len(sc)].id /\ ScopeSound(sc, Len(sc), sc2[Len(sc)])
  BY <1>4, <1>5, <1>6 DEF n, s
<1>8. QED
  BY <1>6, <1>7, TopChanged DEF n

LEMMA CallNamed ==
  ASSUME NEW a, NEW lh, Flows(a, lh), todo # <<>>, Head(todo).do \in {"load", "store", "bind"}
  PROVE  Head(todo).name \in Name
<1>1. a \in Points /\ Ahead(a, lh)
  BY FlowsFacts
<1>2. PICK c \in Points : Step(Head(todo), a, c, lh)
  BY <1>1, AheadOn
<1>3. QED
  BY <1>2 DEF Step

\* Whether the call after this one is a merge.
LEMMA NoMerge ==
  ASSUME NEW a, NEW lh, Flows(a, lh), EmitNode \/ MakeCall, Head(todo).do \notin {"apply", "merge"}, todo' # <<>>
  PROVE  Head(todo').do # "merge"
<1>1. PICK a2, lh2 : Flows(a2, lh2)' /\ Linked(a, a2)
  BY CompileFlows
<1>2. QED
  BY <1>1 DEF Linked

LEMMA TailNoMerge ==
  ASSUME NEW a, NEW lh, Flows(a, lh), todo # <<>>, Tail(todo) # <<>>
  PROVE  Head(Tail(todo)).do # "merge"
<1>1. a \in Points /\ Ahead(a, lh)
  BY FlowsFacts
<1>2. PICK b : /\ b.d = 2 /\ b.u = {}
               /\ \E c \in Points : Step(Head(todo), a, c, lh) /\ Leads(Tail(todo), c, b, lh)
  BY <1>1, AheadOn
<1>3. QED
  BY <1>2, LeadsFacts

\* What is left to merge after a step of applyScope.
LEMMA MergingOnward ==
  ASSUME NEW a, NEW lh, Flows(a, lh), todo # <<>>, NEW popped, NEW left, NEW l, NEW add,
         todo' = Merging(popped, left, l, add) \o Tail(todo), todo' # <<>>, Head(todo').do = "merge"
  PROVE  Head(todo').popped = popped /\ Head(todo').left = left /\ Head(todo').label = l /\ Head(todo').add = add
         /\ left # {}
<1>1. IsSeq(todo) /\ IsSeq(Tail(todo))
  BY FlowsFacts, TailSeq
<1>2. left # {}
  <2>1. CASE left = {}
    <3>1. Merging(popped, left, l, add) = <<>>
      BY <2>1 DEF Merging
    <3>2. todo' = Tail(todo)
      BY <1>1, <3>1, NothingJoin
    <3>3. QED
      BY <3>2, TailNoMerge
  <2>2. QED
    BY <2>1
<1>3. PICK e : e = [do |-> "merge", popped |-> popped, left |-> left, label |-> l, add |-> add]
  OBVIOUS
<1>4. todo' = <<e>> \o Tail(todo)
  BY <1>2, <1>3 DEF Merging
<1>5. Head(todo') = e
  BY <1>1, <1>4, OneJoin
<1>6. QED
  BY <1>2, <1>3, <1>5

LEMMA ChainCalls ==
  ASSUME NEW a, NEW lh, Flows(a, lh), Chain, EmitIns \/ GetName \/ SetName \/ BindNew \/ EnterScope \/ OwnIds \/ PlaceLabel
  PROVE  Chain'
<1>1. IsSeq(scopes) /\ scopes # <<>> /\ Chained(scopes, nextScopeId)
  BY ScopesChain DEF Chain
<1>2. Head(todo).do \notin {"apply", "merge"} /\ todo # <<>>
  BY DEF EmitIns, GetName, SetName, BindNew, EnterScope, OwnIds, PlaceLabel, Calls, Compiling
<1>3. todo' # <<>> => Head(todo').do # "merge"
  BY <1>2, NoMerge DEF MakeCall
<1>4. CASE EmitIns \/ GetName \/ OwnIds \/ PlaceLabel
  <2>1. scopes' = scopes /\ nextScopeId' = nextScopeId
    BY <1>4 DEF EmitIns, GetName, OwnIds, PlaceLabel, Emit, LoadVar, RecordOwned, Place
  <2>2. QED
    BY <1>1, <1>3, <2>1 DEF Chain
<1>5. CASE SetName
  <2>1. /\ scopes' = Set(scopes, Call.name) /\ nextScopeId' = nextScopeId
        /\ Known(scopes, Call.name) /\ Mutable(scopes, Call.name)
    BY <1>5 DEF SetName, StoreVar, StoredAs, Storable, Loadable
  <2>2. Chained(scopes', nextScopeId)
    BY <1>1, <2>1, SetChained
  <2>3. QED
    BY <1>3, <2>1, <2>2 DEF Chain
<1>6. CASE BindNew
  <2>0. PICK mut \in BOOLEAN : BindVar(Call.name, mut)
    BY <1>6 DEF BindNew
  <2> DEFINE sc1 == Bind(scopes, Call.name, mut)
             d == With(sc1[Top(scopes)].decl, Call.name, Len(code) + 1)
  <2>1. scopes' = [sc1 EXCEPT ![Len(scopes)].decl = d] /\ nextScopeId' = nextScopeId
    BY <2>0 DEF BindVar, StoredAs, Top
  <2>2. Call.name \in Name
    BY <1>2, <1>6, CallNamed DEF BindNew, Calls, Call
  <2>3. IsSeq(sc1) /\ Len(sc1) = Len(scopes)
    <3>1. PICK k, phi, count : sc1 = RecordVar(scopes, k, Call.name, phi, count)
      BY BindRecords
    <3>2. QED
      BY <1>1, <3>1, Recording
  <2>4. Chained(sc1, nextScopeId)
    BY <1>1, <2>2, BindChained
  <2>5. sc1 # <<>>
    BY <1>1, <2>3, SeqFacts
  <2> HIDE DEF sc1, d
  <2>6. scopes' = [sc1 EXCEPT ![Len(sc1)].decl = d]
    BY <2>1, <2>3
  <2>7. Chained(scopes', nextScopeId)
    BY <2>3, <2>4, <2>5, <2>6, DeclaredChained
  <2>8. QED
    BY <1>3, <2>1, <2>7 DEF Chain
<1>7. CASE EnterScope
  <2>1. scopes' = Append(scopes, Scope(nextScopeId)) /\ nextScopeId' = nextScopeId + 1
    BY <1>7 DEF EnterScope, PushScope
  <2>2. Chained(scopes', nextScopeId')
    BY <1>1, <2>1, PushChained
  <2>3. QED
    BY <1>3, <2>2 DEF Chain
<1>8. QED
  BY <1>4, <1>5, <1>6, <1>7

LEMMA LeaveChain ==
  ASSUME NEW a, NEW lh, Flows(a, lh), Chain, LeaveScope
  PROVE  Chain'
<1>1. IsSeq(scopes) /\ scopes # <<>> /\ Chained(scopes, nextScopeId)
  BY ScopesChain DEF Chain
<1> DEFINE popped == scopes[Len(scopes)]
<1>2. /\ scopes' = Front(scopes) /\ nextScopeId' = nextScopeId /\ todo # <<>>
      /\ todo' = Merging(popped, DOMAIN popped.borrowed, Call.label, Call.add) \o Tail(todo)
  BY DEF LeaveScope, PopScope, Calls, Compiling, Top, Modified
<1>3. Chained(scopes', nextScopeId)
  BY <1>1, <1>2, FrontChained
<1>4. /\ Len(scopes') = Len(scopes) - 1 /\ Len(scopes) \in Nat \ {0}
      /\ \A i \in 1..Len(scopes') : scopes'[i] = scopes[i]
  BY <1>1, <1>2, FrontSeq, SeqFacts
<1>5. Len(scopes) \in 1..Len(scopes) /\ Len(scopes') + 1 = Len(scopes)
  BY <1>4
<1>6. ScopeSound(scopes, Len(scopes), popped)
  BY <1>1, <1>5 DEF Chained
<1>7. Lent(scopes, Len(scopes), popped, DOMAIN popped.borrowed)
  BY <1>6 DEF ScopeSound
<1>8. PICK s : s = popped
  OBVIOUS
<1>9. PICK sc : sc = scopes
  OBVIOUS
<1>10. Lent(scopes', Len(scopes') + 1, s, DOMAIN s.borrowed)
  <2>1. Lent(scopes, Len(scopes), s, DOMAIN s.borrowed)
    BY <1>7, <1>8
  <2>2. \A i \in 1..Len(scopes) - 1 : scopes'[i] = scopes[i]
    BY <1>4
  <2>3. Lent(scopes', Len(scopes), s, DOMAIN s.borrowed)
    BY <2>1, <2>2, LentBelow
  <2>4. QED
    BY <1>5, <2>3
<1>11. DOMAIN s.borrowed \subseteq Name
  BY <1>6, <1>8 DEF ScopeSound
<1>12. ASSUME todo' # <<>>, Head(todo').do = "merge" PROVE Merged(scopes', Head(todo'))
  <2>1. Head(todo').popped = popped /\ Head(todo').left = DOMAIN popped.borrowed
    BY <1>2, <1>12, MergingOnward, SMTT(30)
  <2>2. QED
    BY <1>8, <1>10, <1>11, <2>1 DEF Merged
<1>13. QED
  BY <1>2, <1>3, <1>12 DEF Chain

LEMMA MergeChain ==
  ASSUME NEW a, NEW lh, Flows(a, lh), Chain, MergeName
  PROVE  Chain'
<1>1. IsSeq(scopes) /\ scopes # <<>> /\ Chained(scopes, nextScopeId)
  BY ScopesChain DEF Chain
<1>2. todo # <<>> /\ Head(todo).do = "merge"
  BY DEF MergeName, Calls, Compiling
<1>p. PICK popped : popped = Head(todo).popped
  OBVIOUS
<1>l. PICK left : left = Head(todo).left
  OBVIOUS
<1>3. PICK x \in left : /\ Merge(popped, Call.label, Call.add, x)
                        /\ todo' = Merging(popped, left \ {x}, Call.label, Call.add) \o Tail(todo)
  BY <1>p, <1>l DEF MergeName, Call
<1>4. /\ DOMAIN popped.borrowed \subseteq Name /\ left \subseteq DOMAIN popped.borrowed
      /\ Lent(scopes, Len(scopes) + 1, popped, left)
  BY <1>2, <1>p, <1>l DEF Chain, Merged
<1>5. x \in Name
  BY <1>4
<1>6. scopes' = scopes \/ scopes' = Phi(scopes, popped.borrowed[x], x)
  BY <1>3 DEF Merge
<1>7. nextScopeId' = nextScopeId
  BY <1>3 DEF Merge
<1>8. Chained(scopes', nextScopeId)
  BY <1>1, <1>4, <1>5, <1>6, PhiChained
<1>9. Len(scopes') = Len(scopes) /\ \A i \in 1..Len(scopes) : i # Len(scopes) => scopes'[i] = scopes[i]
  <2>1. CASE scopes' = scopes
    BY <2>1
  <2>2. CASE scopes' = Phi(scopes, popped.borrowed[x], x)
    <3>1. PICK phi, count : scopes' = RecordVar(scopes, popped.borrowed[x], x, phi, count)
      BY <2>2, PhiRecords
    <3>2. QED
      BY <1>1, <3>1, Recording
  <2>3. QED
    BY <1>6, <2>1, <2>2
\* The other variables are as they were.
<1>10. \A y \in left \ {x} :
         /\ popped.borrowed[y] \in 1..Len(scopes) + 1 - 1
         /\ y \in DOMAIN scopes[popped.borrowed[y]].vars
         /\ scopes[popped.borrowed[y]].vars[y][2] # COUNT_CONST
         /\ \A j \in 1..Len(scopes) + 1 - 1 : j > popped.borrowed[y] => y \notin DOMAIN scopes[j].vars
  BY <1>4 DEF Lent
<1>11. \A i \in 1..Len(scopes) : \A y \in left \ {x} :
         /\ y \in DOMAIN scopes'[i].vars <=> y \in DOMAIN scopes[i].vars
         /\ y \in DOMAIN scopes[i].vars => scopes'[i].vars[y] = scopes[i].vars[y]
  <2>1. CASE scopes' = scopes
    BY <2>1
  <2>2. CASE scopes' = Phi(scopes, popped.borrowed[x], x)
    <3>1. PICK phi, count : scopes' = RecordVar(scopes, popped.borrowed[x], x, phi, count)
      BY <2>2, PhiRecords
    <3>2. scopes'[Len(scopes)] = Recorded(scopes[Len(scopes)], Len(scopes), popped.borrowed[x], x, phi, count)
          /\ Len(scopes) \in Nat \ {0}
      BY <1>1, <3>1, Recording
    <3>3. ScopeSound(scopes, Len(scopes), scopes[Len(scopes)])
      BY <1>1, <3>2 DEF Chained
    <3>4. PICK n, s, s2 : n = Len(scopes) /\ s = scopes[n] /\ s2 = scopes'[n]
      OBVIOUS
    <3>5. s2.vars = With(s.vars, x, <<phi, count>>)
      BY <3>2, <3>3, <3>4 DEF Recorded, ScopeSound, Fields
    <3>6. \A y \in left \ {x} :
            /\ y \in DOMAIN s2.vars <=> y \in DOMAIN s.vars
            /\ y \in DOMAIN s.vars => s2.vars[y] = s.vars[y]
      BY <3>5 DEF With
    <3>7. QED
      BY <1>9, <3>4, <3>6
  <2>3. QED
    BY <1>6, <2>1, <2>2
<1>12. Lent(scopes', Len(scopes') + 1, popped, left \ {x})
  <2>1. Len(scopes) \in Nat /\ Len(scopes) + 1 - 1 = Len(scopes)
    BY ScopesChain
  <2>2. QED
    BY <1>9, <1>10, <1>11, <2>1 DEF Lent
<1>13. ASSUME todo' # <<>>, Head(todo').do = "merge" PROVE Merged(scopes', Head(todo'))
  <2>1. Head(todo').popped = popped /\ Head(todo').left = left \ {x}
    BY <1>2, <1>3, <1>13, MergingOnward
  <2>2. QED
    BY <1>4, <1>12, <2>1 DEF Merged
<1>14. QED
  BY <1>7, <1>8, <1>13 DEF Chain

LEMMA CompileChain ==
  ASSUME NEW a, NEW lh, Flows(a, lh), Chain, Compile
  PROVE  Chain'
<1>1. CASE EmitNode
  <2>1. Len(labels) \in Nat
    BY FlowsFacts
  <2>2. PICK n, node, cost, items : n \in Nat /\ Emitting(node, cost, n, items) /\ IsSeq(items) /\ Expands(node, n, items)
    BY <1>1, <2>1, NodesExpand, Zenon DEF Expanded
  <2>3. Head(todo).do = "node" /\ scopes' = scopes /\ nextScopeId' = nextScopeId
    BY <2>2 DEF Emitting, BeginLabels
  <2>4. todo' # <<>> => Head(todo').do # "merge"
    BY <1>1, <2>3, NoMerge
  <2>5. QED
    BY <2>3, <2>4 DEF Chain
<1>2. CASE MakeCall
  BY <1>2, ChainCalls, LeaveChain, MergeChain DEF MakeCall
<1>3. CASE Error
  BY <1>3 DEF Error, function, Chain
<1>4. QED
  BY <1>1, <1>2, <1>3 DEF Compile

LEMMA ChainInit ==
  ASSUME Init
  PROVE  Chain
BY InitChain DEF Init

LEMMA ChainSame ==
  ASSUME Chain, UNCHANGED compiler
  PROVE  Chain'
BY DEF Chain, compiler, function

LEMMA ChainNext ==
  ASSUME Sound, Chain, [Next]_vars
  PROVE  Chain'
<1>1. PICK a, lh : Flows(a, lh)
  BY DEF Sound, Flowing
<1>2. CASE CompileNext
  BY <1>1, <1>2, CompileChain DEF CompileNext
<1>3. CASE UNCHANGED compiler
  BY <1>3, ChainSame
<1>4. QED
  BY <1>2, <1>3 DEF Next, Start, Execute, Terminated, vars

LEMMA Typed ==
  ASSUME Sound, Chain
  PROVE  TypeOK
<1>1. PICK a, lh : Flows(a, lh)
  BY DEF Sound, Flowing
<1>2. IsSeq(scopes) /\ DOMAIN scopes = 1..Len(scopes)
  BY <1>1, ScopesChain, SeqFacts
<1>3. ASSUME NEW k \in DOMAIN scopes, NEW s, s = scopes[k]
      PROVE  /\ s.id \in 0..nextScopeId - 1
             /\ DOMAIN s.vars \subseteq Name
             /\ DOMAIN s.borrowed \subseteq DOMAIN s.vars
             /\ \A x \in DOMAIN s.borrowed :
                  s.borrowed[x] < k /\ x \in DOMAIN scopes[s.borrowed[x]].vars
  <2>1. ScopeSound(scopes, k, s) /\ s.id \in 0..nextScopeId - 1 /\ k \in Int
    BY <1>2, <1>3 DEF Chain, Chained
  <2>2. \A x \in DOMAIN s.borrowed : s.borrowed[x] \in 1..k - 1 /\ x \in DOMAIN scopes[s.borrowed[x]].vars
    BY <2>1 DEF ScopeSound, Lent
  <2>3. QED
    BY <2>1, <2>2 DEF ScopeSound
<1>4. ASSUME Compiled PROVE Len(scopes) = 2 /\ \A l \in DOMAIN labels : labels[l] \in 1..Len(code)
  BY <1>4, CompiledWell DEF Sound, WellFormed, Old
<1>5. pc \in 0..Len(code)
  <2>1. IsSeq(code) /\ Len(code) \in Nat
    BY <1>1, FlowsFacts
  <2>2. pc = 0 \/ pc \in 1..Len(code)
    BY DEF Sound, Running
  <2>3. QED
    BY <2>1, <2>2
<1>6. QED
  BY <1>3, <1>4, <1>5 DEF TypeOK

LEMMA Merges ==
  ASSUME Sound, Chain
  PROVE  PhiSound
<1> SUFFICES ASSUME Calls("merge"), NEW x \in Call.left, NEW k, k = Call.popped.borrowed[x]
             PROVE  /\ k \in DOMAIN scopes
                    /\ x \in DOMAIN scopes[k].vars
                    /\ scopes[k].vars[x][2] # COUNT_CONST
  BY DEF PhiSound
<1>1. PICK a, lh : Flows(a, lh)
  BY DEF Sound, Flowing
<1>2. IsSeq(scopes) /\ DOMAIN scopes = 1..Len(scopes) /\ Len(scopes) \in Nat
  BY <1>1, ScopesChain, SeqFacts
<1>3. Lent(scopes, Len(scopes) + 1, Call.popped, Call.left)
  BY DEF Chain, Merged, Calls, Compiling, Call
<1>4. k \in 1..Len(scopes) + 1 - 1 /\ x \in DOMAIN scopes[k].vars /\ scopes[k].vars[x][2] # COUNT_CONST
  BY <1>3 DEF Lent
<1>5. QED
  BY <1>2, <1>4

LEMMA Chains == Spec => [](Sound /\ Chain)
<1>1. Init => Sound /\ Chain
  BY SoundInit, ChainInit
<1>2. Sound /\ Chain /\ [Next]_vars => (Sound /\ Chain)'
  BY SoundNext, ChainNext
<1>3. QED
  BY <1>1, <1>2, PTL DEF Spec

\* The chain of scopes stays well formed, every label an emit function begins is
\* placed, and execution never leaves the bytecode.
THEOREM TypeCorrect == Spec => []TypeOK
<1>1. Sound /\ Chain => TypeOK
  BY Typed
<1>2. QED
  BY <1>1, Chains, PTL

\* The assertions of ScopeClosure::phi hold whenever a scope is applied.
THEOREM PhiCorrect == Spec => []PhiSound
<1>1. Sound /\ Chain => PhiSound
  BY Merges
<1>2. QED
  BY <1>1, Chains, PTL

-----------------------------------------------------------------------------
(* No path stores a variable twice.                                        *)

Stores(cd, i, v) == i \in 1..Len(cd) /\ cd[i].op = "stvar" /\ cd[i].var = v
Straight(ins) == ins.op \in {"ldvar", "stvar"}
Jumping(ins) == ins.op \in {"br", "bez", "bnz"}

\* Behind i the code only copies variables, until at b it leaves for the label m.
LeavesAt(cd, i, b, m) ==
  /\ b \in i + 1..Len(cd) /\ cd[b].op = "br" /\ cd[b].label = m
  /\ \A k \in i + 1..b - 1 : Straight(cd[k])

\* The code that stores v leaves for m.
Sealed(cd, v, m) == \A i \in 1..Len(cd) : Stores(cd, i, v) => \E b \in 1..Len(cd) : LeavesAt(cd, i, b, m)

\* The code that stores v only copies variables behind it so far.
Open(cd, v) == \A i \in 1..Len(cd) : Stores(cd, i, v) => \A k \in i + 1..Len(cd) : Straight(cd[k])

Unstored(cd, v) == \A i \in 1..Len(cd) : ~Stores(cd, i, v)

\* The label m is further on than j.
Behind(lb, m, j) == m \in DOMAIN lb /\ (lb[m] = NoPos \/ lb[m] > j)

\* Between two stores of a variable the code leaves for a label behind both.
Parted(cd, lb) ==
  \A i, j \in 1..Len(cd) : \A v :
    i < j /\ Stores(cd, i, v) /\ Stores(cd, j, v) =>
      \E b \in 1..j - 1 : \E m : LeavesAt(cd, i, b, m) /\ Behind(lb, m, j)

Forward(cd, lb) == \A j \in 1..Len(cd) : Jumping(cd[j]) => Behind(lb, cd[j].label, j)

LEMMA StoresOn ==
  ASSUME NEW cd, IsSeq(cd), NEW e, NEW cd2, cd2 = Append(cd, e), NEW v
  PROVE  /\ IsSeq(cd2) /\ Len(cd) \in Nat /\ Len(cd2) = Len(cd) + 1 /\ cd2[Len(cd) + 1] = e
         /\ \A i \in 1..Len(cd) : cd2[i] = cd[i] /\ (Stores(cd2, i, v) <=> Stores(cd, i, v))
         /\ Stores(cd2, Len(cd) + 1, v) <=> e.op = "stvar" /\ e.var = v
<1>1. /\ IsSeq(cd2) /\ Len(cd) \in Nat /\ Len(cd2) = Len(cd) + 1 /\ cd2[Len(cd) + 1] = e
      /\ \A i \in 1..Len(cd) : cd2[i] = cd[i]
  BY AppendSeq, SeqFacts
<1>2. (\A i \in 1..Len(cd) : i \in 1..Len(cd) + 1) /\ Len(cd) + 1 \in 1..Len(cd) + 1
  BY <1>1
<1>3. QED
  BY <1>1, <1>2 DEF Stores

LEMMA StoresKept ==
  ASSUME NEW cd, IsSeq(cd), NEW e, NEW cd2, cd2 = Append(cd, e), NEW v
  PROVE  \A i \in 1..Len(cd) : Stores(cd2, i, v) <=> Stores(cd, i, v)
BY StoresOn

LEMMA StoresLast ==
  ASSUME NEW cd, IsSeq(cd), NEW e, NEW cd2, cd2 = Append(cd, e), NEW v, Stores(cd2, Len(cd) + 1, v)
  PROVE  e.op = "stvar" /\ e.var = v
BY StoresOn

LEMMA UnstoredOn ==
  ASSUME NEW cd, IsSeq(cd), NEW e, NEW cd2, cd2 = Append(cd, e), NEW v, Unstored(cd, v),
         e.op = "stvar" => e.var # v
  PROVE  Unstored(cd2, v)
<1>1. /\ Len(cd) \in Nat /\ Len(cd2) = Len(cd) + 1
      /\ \A i \in 1..Len(cd) : Stores(cd2, i, v) <=> Stores(cd, i, v)
      /\ ~Stores(cd2, Len(cd) + 1, v)
  BY StoresOn, ZenonT(60)
<1>2. \A i \in 1..Len(cd) + 1 : i \in 1..Len(cd) \/ i = Len(cd) + 1
  BY <1>1
<1>3. QED
  BY <1>1, <1>2 DEF Unstored

LEMMA LeavesOn ==
  ASSUME NEW cd, IsSeq(cd), NEW e, NEW cd2, cd2 = Append(cd, e), NEW i \in 1..Len(cd), NEW b, NEW m,
         LeavesAt(cd, i, b, m)
  PROVE  LeavesAt(cd2, i, b, m)
<1>1. /\ Len(cd) \in Nat /\ Len(cd2) = Len(cd) + 1 /\ \A k \in 1..Len(cd) : cd2[k] = cd[k]
  BY StoresOn
<1>2. b \in i + 1..Len(cd) /\ cd[b].op = "br" /\ cd[b].label = m /\ \A k \in i + 1..b - 1 : Straight(cd[k])
  BY DEF LeavesAt
<1>3. b \in 1..Len(cd) /\ b \in i + 1..Len(cd) + 1 /\ \A k \in i + 1..b - 1 : k \in 1..Len(cd)
  BY <1>1, <1>2
<1>4. QED
  BY <1>1, <1>2, <1>3 DEF LeavesAt

LEMMA SealedOn ==
  ASSUME NEW cd, IsSeq(cd), NEW e, NEW cd2, cd2 = Append(cd, e), NEW v, NEW m, Sealed(cd, v, m),
         e.op = "stvar" => e.var # v
  PROVE  Sealed(cd2, v, m)
<1>1. /\ Len(cd) \in Nat /\ Len(cd2) = Len(cd) + 1
      /\ \A i \in 1..Len(cd) : Stores(cd2, i, v) <=> Stores(cd, i, v)
      /\ ~Stores(cd2, Len(cd) + 1, v)
  BY StoresOn, ZenonT(60)
<1> SUFFICES ASSUME NEW i \in 1..Len(cd2), Stores(cd2, i, v) PROVE \E b \in 1..Len(cd2) : LeavesAt(cd2, i, b, m)
  BY DEF Sealed
<1>2. i \in 1..Len(cd)
  BY <1>1
<1>3. PICK b \in 1..Len(cd) : LeavesAt(cd, i, b, m)
  BY <1>1, <1>2 DEF Sealed
<1>4. LeavesAt(cd2, i, b, m)
  BY <1>2, <1>3, LeavesOn
<1>5. b \in 1..Len(cd2)
  BY <1>1
<1>6. QED
  BY <1>4, <1>5

LEMMA OpenOn ==
  ASSUME NEW cd, IsSeq(cd), NEW e, NEW cd2, cd2 = Append(cd, e), NEW v, Open(cd, v), Straight(e)
  PROVE  Open(cd2, v)
<1>a. /\ Len(cd) \in Nat /\ Len(cd2) = Len(cd) + 1 /\ cd2[Len(cd) + 1] = e
      /\ \A i \in 1..Len(cd) : cd2[i] = cd[i]
  BY StoresOn
<1>b. \A i \in 1..Len(cd) : Stores(cd2, i, v) <=> Stores(cd, i, v)
  BY StoresOn
<1>1. /\ Len(cd) \in Nat /\ Len(cd2) = Len(cd) + 1 /\ cd2[Len(cd) + 1] = e
      /\ \A i \in 1..Len(cd) : cd2[i] = cd[i] /\ (Stores(cd2, i, v) <=> Stores(cd, i, v))
  BY <1>a, <1>b
<1> SUFFICES ASSUME NEW i \in 1..Len(cd2), Stores(cd2, i, v), NEW k \in i + 1..Len(cd2) PROVE Straight(cd2[k])
  BY DEF Open
<1>2. i \in 1..Len(cd) /\ (k = Len(cd) + 1 \/ k \in i + 1..Len(cd)) /\ (k = Len(cd) + 1 \/ k \in 1..Len(cd))
  BY <1>1
<1>3. QED
  BY <1>1, <1>2 DEF Open

LEMMA OpenLeaves ==
  ASSUME NEW cd, IsSeq(cd), NEW e, NEW cd2, cd2 = Append(cd, e), NEW v, Open(cd, v),
         e.op = "br"
  PROVE  Sealed(cd2, v, e.label)
<1>a. /\ Len(cd) \in Nat /\ Len(cd2) = Len(cd) + 1 /\ cd2[Len(cd) + 1] = e
      /\ \A i \in 1..Len(cd) : cd2[i] = cd[i]
  BY StoresOn
<1>b. \A i \in 1..Len(cd) : Stores(cd2, i, v) <=> Stores(cd, i, v)
  BY StoresKept
<1>c. ~Stores(cd2, Len(cd) + 1, v)
  BY StoresOn
<1>1. /\ Len(cd) \in Nat /\ Len(cd2) = Len(cd) + 1 /\ cd2[Len(cd) + 1] = e
      /\ \A i \in 1..Len(cd) : cd2[i] = cd[i] /\ (Stores(cd2, i, v) <=> Stores(cd, i, v))
      /\ ~Stores(cd2, Len(cd) + 1, v)
  BY <1>a, <1>b, <1>c
<1> SUFFICES ASSUME NEW i \in 1..Len(cd2), Stores(cd2, i, v)
             PROVE  \E b \in 1..Len(cd2) : LeavesAt(cd2, i, b, e.label)
  BY DEF Sealed
<1>2. i \in 1..Len(cd)
  BY <1>1
<1>3. \A k \in i + 1..Len(cd) : Straight(cd[k])
  BY <1>1, <1>2 DEF Open
<1>4. \A k \in i + 1..(Len(cd) + 1) - 1 : k \in i + 1..Len(cd) /\ k \in 1..Len(cd)
  BY <1>1, <1>2
<1>5. Len(cd) + 1 \in i + 1..Len(cd2) /\ Len(cd) + 1 \in 1..Len(cd2)
  BY <1>1, <1>2
<1>6. LeavesAt(cd2, i, Len(cd) + 1, e.label)
  BY <1>1, <1>3, <1>4, <1>5 DEF LeavesAt
<1>7. QED
  BY <1>5, <1>6

LEMMA ForwardOn ==
  ASSUME NEW cd, IsSeq(cd), NEW e, NEW cd2, cd2 = Append(cd, e), NEW lb, Forward(cd, lb),
         Jumping(e) => e.label \in DOMAIN lb /\ lb[e.label] = NoPos
  PROVE  Forward(cd2, lb)
<1>1. /\ Len(cd) \in Nat /\ Len(cd2) = Len(cd) + 1 /\ cd2[Len(cd) + 1] = e
      /\ \A i \in 1..Len(cd) : cd2[i] = cd[i]
  BY StoresOn
<1> SUFFICES ASSUME NEW j \in 1..Len(cd2), Jumping(cd2[j]) PROVE Behind(lb, cd2[j].label, j)
  BY DEF Forward
<1>2. CASE j = Len(cd) + 1
  BY <1>1, <1>2 DEF Behind
<1>3. CASE j # Len(cd) + 1
  <2>1. j \in 1..Len(cd) /\ cd2[j] = cd[j]
    BY <1>1, <1>3
  <2>2. QED
    BY <2>1 DEF Forward
<1>4. QED
  BY <1>2, <1>3

LEMMA PartedOn ==
  ASSUME NEW cd, IsSeq(cd), NEW e, NEW cd2, cd2 = Append(cd, e), NEW lb, Parted(cd, lb),
         e.op = "stvar" => \/ Unstored(cd, e.var)
                           \/ \E m : m \in DOMAIN lb /\ lb[m] = NoPos /\ Sealed(cd, e.var, m)
  PROVE  Parted(cd2, lb)
<1>1. /\ Len(cd) \in Nat /\ Len(cd2) = Len(cd) + 1 /\ cd2[Len(cd) + 1] = e
      /\ \A i \in 1..Len(cd) : cd2[i] = cd[i]
  BY StoresOn
<1> SUFFICES ASSUME NEW i \in 1..Len(cd2), NEW j \in 1..Len(cd2), NEW v, i < j,
                    Stores(cd2, i, v), Stores(cd2, j, v)
             PROVE  \E b \in 1..j - 1 : \E m : LeavesAt(cd2, i, b, m) /\ Behind(lb, m, j)
  BY DEF Parted
<1>2. i \in 1..Len(cd)
  BY <1>1
<1>3. Stores(cd, i, v)
  BY <1>2, StoresOn
<1>4. CASE j = Len(cd) + 1
  <2>1. e.op = "stvar" /\ e.var = v
    BY <1>4, StoresOn
  <2>2. ~Unstored(cd, v)
    BY <1>2, <1>3 DEF Unstored
  <2>3. PICK m : m \in DOMAIN lb /\ lb[m] = NoPos /\ Sealed(cd, v, m)
    BY <2>1, <2>2
  <2>4. PICK b \in 1..Len(cd) : LeavesAt(cd, i, b, m)
    BY <1>2, <1>3, <2>3 DEF Sealed
  <2>5. LeavesAt(cd2, i, b, m)
    BY <1>2, <2>4, LeavesOn
  <2>6. b \in 1..j - 1 /\ Behind(lb, m, j)
    BY <1>1, <1>4, <2>3 DEF Behind
  <2>7. QED
    BY <2>5, <2>6
<1>5. CASE j # Len(cd) + 1
  <2>1. j \in 1..Len(cd)
    BY <1>1, <1>5
  <2>2. Stores(cd, j, v)
    BY <2>1, StoresOn
  <2>3. PICK b \in 1..j - 1 : \E m : LeavesAt(cd, i, b, m) /\ Behind(lb, m, j)
    BY <1>2, <1>3, <2>1, <2>2 DEF Parted
  <2>4. PICK m : LeavesAt(cd, i, b, m) /\ Behind(lb, m, j)
    BY <2>3
  <2>5. LeavesAt(cd2, i, b, m)
    BY <1>2, <2>4, LeavesOn
  <2>6. QED
    BY <2>4, <2>5
<1>6. QED
  BY <1>4, <1>5

\* A label is placed at the end, or none is.
LEMMA BehindOn ==
  ASSUME NEW n \in Nat, NEW lb, NEW lb2, DOMAIN lb \subseteq DOMAIN lb2,
         \A l \in DOMAIN lb : lb2[l] = lb[l] \/ lb2[l] = n + 1,
         NEW m, NEW j \in 1..n, Behind(lb, m, j)
  PROVE  Behind(lb2, m, j)
BY DEF Behind

LEMMA PlacedOn ==
  ASSUME NEW cd, IsSeq(cd), NEW lb, NEW lb2, DOMAIN lb \subseteq DOMAIN lb2,
         \A l \in DOMAIN lb : lb2[l] = lb[l] \/ lb2[l] = Len(cd) + 1,
         Parted(cd, lb), Forward(cd, lb)
  PROVE  Parted(cd, lb2) /\ Forward(cd, lb2)
<1>1. Len(cd) \in Nat
  BY SeqFacts
<1>2. \A m : \A j \in 1..Len(cd) : Behind(lb, m, j) => Behind(lb2, m, j)
  BY <1>1, BehindOn
<1>3. Forward(cd, lb2)
  BY <1>2 DEF Forward
<1>4. Parted(cd, lb2)
  BY <1>2 DEF Parted
<1>5. QED
  BY <1>3, <1>4

-----------------------------------------------------------------------------
(* The numbering.                                                          *)

Later(c, d) == c[1] > d[1] \/ (c[1] = d[1] /\ c[2] > d[2])

\* v is a variable that was given a name; if its scope is still there, then none
\* behind the last one the scope has given for that name of the program.
Named(sc, m, v) ==
  /\ v \in (1..m - 1) \X Name \X Counts
  /\ \A k \in 1..Len(sc) :
       sc[k].id = v[1] => v[2] \in DOMAIN sc[k].vars /\ ~Later(v[3], sc[k].vars[v[2]])

\* Between sc and sc2 a variable new is given a name no variable has had.
Renewed(sc, sc2, m, new) ==
  /\ Named(sc2, m, new)
  /\ \A v : Named(sc, m, v) => Named(sc2, m, v) /\ v # new

LEMMA LaterFacts ==
  ASSUME NEW c \in Counts
  PROVE  /\ ~Later(c, c) /\ (c[2] # COUNT_CONST => Later(<<c[1], c[2] + 1>>, c)) /\ Later(<<c[1] + 1, 0>>, c)
         /\ \A d, e \in Counts : Later(d, c) /\ ~Later(e, c) => ~Later(e, d) /\ e # d
BY DEF Later, Counts, COUNT_CONST

LEMMA RecordRenews ==
  ASSUME NEW sc, IsSeq(sc), Len(sc) > 1, NEW m, Chained(sc, m), NEW k, NEW x \in Name,
         NEW phi \in Nat, NEW count \in Nat \cup {COUNT_CONST},
         x \in DOMAIN sc[Len(sc)].vars => Later(<<phi, count>>, sc[Len(sc)].vars[x]),
         NEW sc2, sc2 = RecordVar(sc, k, x, phi, count),
         NEW new, new = VarOf(sc2, Len(sc2), x)
  PROVE  Renewed(sc, sc2, m, new)
<1> DEFINE n == Len(sc)
           c == <<phi, count>>
<1>1. n \in Nat /\ sc # <<>> /\ n \in 1..n /\ 1 \in 1..n /\ 1 < n
  BY SeqFacts
<1>2. /\ Len(sc2) = n /\ \A i \in 1..n : i # n => sc2[i] = sc[i]
      /\ sc2[n] = Recorded(sc[n], n, k, x, phi, count)
  BY <1>1, Recording
<1>3. PICK s, s2 : s = sc[n] /\ s2 = sc2[n]
  OBVIOUS
<1>4. ScopeSound(sc, n, s) /\ s.id \in 0..m - 1 /\ sc[1].id \in 0..m - 1 /\ sc[1].id < s.id /\ m \in Nat
  BY <1>1, <1>3 DEF Chained
<1>5. s2.id = s.id /\ s2.vars = With(s.vars, x, c)
  BY <1>2, <1>3, <1>4 DEF Recorded, ScopeSound, Fields
<1>6. c \in Counts
  BY DEF Counts
<1>7. /\ DOMAIN s2.vars = DOMAIN s.vars \cup {x} /\ s2.vars[x] = c
      /\ \A y \in DOMAIN s.vars : y # x => s2.vars[y] = s.vars[y]
  BY <1>5 DEF With
<1>8. new = <<s.id, x, c>>
  BY <1>2, <1>3, <1>5, <1>7 DEF VarOf
<1>9. s.id \in 1..m - 1
  BY <1>4
<1>10. \A i \in 1..n : sc[i].id = s.id => i = n
  <2>1. \A i \in 1..n : i < n => sc[i].id < s.id /\ sc[i].id \in 0..m - 1
    BY <1>1, <1>3 DEF Chained
  <2>2. QED
    BY <1>1, <1>4, <2>1, SMTT(30)
<1>f. x \in DOMAIN s.vars => Later(c, s.vars[x]) /\ s.vars[x] \in Counts
  BY <1>3, <1>4 DEF ScopeSound
<1> HIDE DEF n, c
<1>11. Named(sc2, m, new)
  <2>1. new \in (1..m - 1) \X Name \X Counts /\ new[1] = s.id /\ new[2] = x /\ new[3] = c
    BY <1>6, <1>8, <1>9
  <2>2. ASSUME NEW i \in 1..n, sc2[i].id = s.id PROVE i = n
    <3>1. sc[i].id = s.id
      BY <1>2, <1>3, <1>5, <2>2
    <3>2. QED
      BY <1>10, <3>1
  <2>3. ~Later(c, c)
    BY <1>6, LaterFacts
  <2>4. QED
    BY <1>2, <1>3, <1>7, <2>1, <2>2, <2>3 DEF Named
<1>12. ASSUME NEW v, Named(sc, m, v) PROVE Named(sc2, m, v) /\ v # new
  <2>1. /\ v \in (1..m - 1) \X Name \X Counts
        /\ \A i \in 1..n :
             sc[i].id = v[1] => v[2] \in DOMAIN sc[i].vars /\ ~Later(v[3], sc[i].vars[v[2]])
    BY <1>12 DEF Named, n
  <2>2. v[3] \in Counts
    BY <2>1
  <2>3. v[1] = s.id => v[2] \in DOMAIN s.vars /\ ~Later(v[3], s.vars[v[2]])
    BY <1>1, <1>3, <2>1 DEF n
  <2>4. v[1] = s.id /\ v[2] = x => ~Later(v[3], c) /\ v[3] # c
    BY <1>6, <1>f, <2>2, <2>3, LaterFacts, ZenonT(60)
  <2>5. v # new
    BY <1>8, <2>4
  <2>6. v[1] = s.id => v[2] \in DOMAIN s2.vars /\ ~Later(v[3], s2.vars[v[2]])
    BY <1>7, <2>3, <2>4
  <2>7. ASSUME NEW i \in 1..n, sc2[i].id = v[1]
        PROVE  v[2] \in DOMAIN sc2[i].vars /\ ~Later(v[3], sc2[i].vars[v[2]])
    <3>1. CASE i = n
      BY <1>3, <1>5, <2>6, <2>7, <3>1
    <3>2. CASE i # n
      BY <1>2, <2>1, <2>7, <3>2
    <3>3. QED
      BY <3>1, <3>2
  <2>8. QED
    BY <1>2, <2>1, <2>5, <2>7 DEF Named
<1>13. QED
  BY <1>11, <1>12 DEF Renewed

\* What the current scope has just recorded is what a use of the name finds.
LEMMA GetRecorded ==
  ASSUME NEW sc, IsSeq(sc), NEW x, sc # <<>>, x \in DOMAIN sc[Len(sc)].vars
  PROVE  Get(sc, x) = VarOf(sc, Len(sc), x)
<1>1. Len(sc) \in 1..Len(sc) /\ Len(sc) \in Nat /\ DOMAIN sc = 1..Len(sc)
  BY SeqFacts
<1>2. Known(sc, x)
  BY <1>1 DEF Known
<1>3. /\ HolderOf(sc, x) \in 1..Len(sc)
      /\ \A j \in 1..Len(sc) : j > HolderOf(sc, x) => x \notin DOMAIN sc[j].vars
  BY <1>2, Holder
<1>4. HolderOf(sc, x) = Len(sc)
  BY <1>1, <1>3
<1>5. QED
  BY <1>4 DEF Get

LEMMA RecordedHere ==
  ASSUME NEW sc, IsSeq(sc), sc # <<>>, NEW m, Chained(sc, m), NEW k, NEW x, NEW phi, NEW count,
         NEW sc2, sc2 = RecordVar(sc, k, x, phi, count)
  PROVE  sc2 # <<>> /\ x \in DOMAIN sc2[Len(sc2)].vars
<1>1. /\ IsSeq(sc2) /\ Len(sc2) = Len(sc) /\ Len(sc) \in Nat \ {0}
      /\ sc2[Len(sc)] = Recorded(sc[Len(sc)], Len(sc), k, x, phi, count)
  BY Recording
<1>2. sc2 # <<>>
  BY <1>1, SeqFacts
<1>3. PICK n, s, s2 : n = Len(sc) /\ s = sc[n] /\ s2 = sc2[n]
  OBVIOUS
<1>4. ScopeSound(sc, n, s)
  BY <1>1, <1>3 DEF Chained
<1>5. s2 = Recorded(s, n, k, x, phi, count)
  BY <1>1, <1>3
<1>6. s2.vars = With(s.vars, x, <<phi, count>>)
  BY <1>4, <1>5 DEF Recorded, ScopeSound, Fields
<1>7. x \in DOMAIN s2.vars
  BY <1>6 DEF With
<1>8. QED
  BY <1>1, <1>2, <1>3, <1>7

LEMMA SetRenews ==
  ASSUME NEW sc, IsSeq(sc), Len(sc) > 1, NEW m, Chained(sc, m), NEW x, Known(sc, x), Mutable(sc, x),
         NEW sc2, sc2 = Set(sc, x)
  PROVE  Renewed(sc, sc2, m, Get(sc2, x))
<1> DEFINE k == HolderOf(sc, x)
           v == sc[k].vars[x]
<1>1. /\ k \in 1..Len(sc) /\ x \in Name /\ v \in Counts /\ v[2] # COUNT_CONST
      /\ \A j \in 1..Len(sc) : j > k => x \notin DOMAIN sc[j].vars
  BY HolderLends
<1>2. v[1] \in Nat /\ v[2] + 1 \in Nat /\ Later(<<v[1], v[2] + 1>>, v)
  BY <1>1, CountsFacts, LaterFacts
<1>3. Len(sc) \in Nat /\ sc # <<>>
  BY SeqFacts
<1>4. sc2 = IF k # Len(sc) THEN RecordVar(sc, k, x, 0, 0) ELSE RecordVar(sc, k, x, v[1], v[2] + 1)
  BY DEF Set, Top
<1>5. \E phi \in Nat, count \in Nat \cup {COUNT_CONST} :
        /\ x \in DOMAIN sc[Len(sc)].vars => Later(<<phi, count>>, sc[Len(sc)].vars[x])
        /\ sc2 = RecordVar(sc, k, x, phi, count)
  <2>1. CASE k # Len(sc)
    <3>1. x \notin DOMAIN sc[Len(sc)].vars
      BY <1>1, <1>3, <2>1
    <3>2. sc2 = RecordVar(sc, k, x, 0, 0)
      BY <1>4, <2>1
    <3>3. QED
      BY <3>1, <3>2
  <2>2. CASE k = Len(sc)
    <3>1. sc2 = RecordVar(sc, k, x, v[1], v[2] + 1)
      BY <1>4, <2>2
    <3>2. Later(<<v[1], v[2] + 1>>, sc[Len(sc)].vars[x])
      BY <1>2, <2>2
    <3> HIDE DEF k, v
    <3>3. QED
      BY <1>2, <3>1, <3>2
  <2>3. QED
    BY <2>1, <2>2
<1> HIDE DEF k, v
<1>6. PICK phi \in Nat, count \in Nat \cup {COUNT_CONST} :
        /\ x \in DOMAIN sc[Len(sc)].vars => Later(<<phi, count>>, sc[Len(sc)].vars[x])
        /\ sc2 = RecordVar(sc, k, x, phi, count)
  BY <1>5
<1>7. PICK new : new = VarOf(sc2, Len(sc2), x)
  OBVIOUS
<1>8. Renewed(sc, sc2, m, new)
  BY <1>1, <1>6, <1>7, RecordRenews
<1>9. IsSeq(sc2) /\ sc2 # <<>> /\ x \in DOMAIN sc2[Len(sc2)].vars
  BY <1>3, <1>6, Recording, RecordedHere
<1>10. QED
  BY <1>7, <1>8, <1>9, GetRecorded

LEMMA BindRenews ==
  ASSUME NEW sc, IsSeq(sc), Len(sc) > 1, NEW m, Chained(sc, m), NEW x \in Name, NEW mut,
         x \notin DOMAIN sc[Len(sc)].vars, NEW sc2, sc2 = Bind(sc, x, mut)
  PROVE  /\ Renewed(sc, sc2, m, VarOf(sc2, Len(sc2), x))
         /\ IsSeq(sc2) /\ sc2 # <<>> /\ x \in DOMAIN sc2[Len(sc2)].vars
<1>1. PICK count \in Nat \cup {COUNT_CONST} : count = IF mut THEN 0 ELSE COUNT_CONST
  OBVIOUS
<1>2. sc2 = RecordVar(sc, Len(sc), x, 0, count)
  BY <1>1 DEF Bind, Top
<1>3. sc # <<>>
  BY SeqFacts
<1>4. PICK new : new = VarOf(sc2, Len(sc2), x)
  OBVIOUS
<1>5. Renewed(sc, sc2, m, new)
  BY <1>2, <1>4, RecordRenews
<1>6. IsSeq(sc2) /\ sc2 # <<>> /\ x \in DOMAIN sc2[Len(sc2)].vars
  BY <1>2, <1>3, Recording, RecordedHere
<1>7. QED
  BY <1>4, <1>5, <1>6

LEMMA PhiRenews ==
  ASSUME NEW sc, IsSeq(sc), Len(sc) > 1, NEW m, Chained(sc, m), NEW popped, NEW X,
         Lent(sc, Len(sc) + 1, popped, X), NEW x \in X, x \in Name,
         NEW sc2, sc2 = Phi(sc, popped.borrowed[x], x)
  PROVE  Renewed(sc, sc2, m, VarOf(sc2, Len(sc2), x))
<1> DEFINE k == popped.borrowed[x]
           v == sc[k].vars[x]
<1>1. Len(sc) \in Nat /\ Len(sc) + 1 - 1 = Len(sc) /\ sc # <<>>
  BY SeqFacts
<1>2. /\ k \in 1..Len(sc) + 1 - 1 /\ x \in DOMAIN sc[k].vars
      /\ \A j \in 1..Len(sc) + 1 - 1 : j > k => x \notin DOMAIN sc[j].vars
  BY DEF Lent
<1>3. ScopeSound(sc, k, sc[k])
  BY <1>1, <1>2 DEF Chained
<1>4. v \in Counts
  BY <1>2, <1>3 DEF ScopeSound
<1>5. v[1] \in Nat /\ v[1] + 1 \in Nat /\ Later(<<v[1] + 1, 0>>, v)
  <2> HIDE DEF v
  <2>1. v[1] \in Nat /\ v[1] + 1 \in Nat
    BY <1>4, CountsFacts
  <2>2. Later(<<v[1] + 1, 0>>, v)
    BY <1>4, LaterFacts
  <2>3. QED
    BY <2>1, <2>2
<1>6. sc2 = IF k # Len(sc) THEN RecordVar(sc, k, x, 0, 0) ELSE RecordVar(sc, k, x, v[1] + 1, 0)
  BY DEF Phi, Top
<1>7. 0 \in Nat /\ 0 \in Nat \cup {COUNT_CONST}
  OBVIOUS
<1>8. PICK new : new = VarOf(sc2, Len(sc2), x)
  OBVIOUS
<1>9. CASE k # Len(sc)
  <2>1. x \notin DOMAIN sc[Len(sc)].vars
    BY <1>1, <1>2, <1>9
  <2> HIDE DEF k
  <2>2. sc2 = RecordVar(sc, k, x, 0, 0)
    BY <1>6, <1>9
  <2>3. Renewed(sc, sc2, m, new)
    BY <1>7, <1>8, <2>1, <2>2, RecordRenews
  <2>4. QED
    BY <1>8, <2>3
<1>10. CASE k = Len(sc)
  <2>1. Later(<<v[1] + 1, 0>>, sc[Len(sc)].vars[x])
    BY <1>5, <1>10
  <2>2. sc2 = RecordVar(sc, k, x, v[1] + 1, 0)
    BY <1>6, <1>10
  <2> HIDE DEF k, v
  <2>3. Renewed(sc, sc2, m, new)
    BY <1>5, <1>7, <1>8, <2>1, <2>2, RecordRenews
  <2>4. QED
    BY <1>8, <2>3
<1>11. QED
  BY <1>9, <1>10

-----------------------------------------------------------------------------
(* What the compiler remembers of the variables it has stored.             *)

Taken(cd, id, v) ==
  \/ \E i \in 1..Len(cd) : Stores(cd, i, v)
  \/ \E l \in DOMAIN id : \E key \in DOMAIN id[l] : v = id[l][key]

Numbered(sc, m, cd, id) == \A v : Taken(cd, id, v) => Named(sc, m, v)

\* A variable is recorded once.
Distinct(id) ==
  \A l1, l2 \in DOMAIN id : \A k1 \in DOMAIN id[l1], k2 \in DOMAIN id[l2] :
    id[l1][k1] = id[l2][k2] => l1 = l2 /\ k1 = k2

\* The labels a place names.
Waits(id, a) ==
  /\ a.r \notin a.n /\ 0 \notin a.n
  /\ \A l \in a.n : DOMAIN id[l] = {}
  /\ \A p \in a.o : p[1] \notin a.n /\ p[1] # a.r /\ p[1] # 0

\* The variable of x that is recorded for l was not stored a second time.
Unmerged(td, l, x) == td # <<>> /\ Head(td).do = "merge" /\ Head(td).label = l => x \in Head(td).left

\* A recorded variable may be stored again where the code that stored it has left
\* for a label further on.
OpenAt(cd, id, a) == a.r # 0 => \A key \in DOMAIN id[a.r] : Open(cd, id[a.r][key])
SealedAt(cd, id, td, a) ==
  \A p \in a.o : \A key \in DOMAIN id[p[1]] : Unmerged(td, p[1], key[2]) => Sealed(cd, id[p[1]][key], p[2])

MergesNew(id, td) ==
  td # <<>> /\ Head(td).do = "merge" /\ Head(td).add /\ Head(td).label # 0 =>
    \A key \in DOMAIN id[Head(td).label] : key[2] \notin Head(td).left

Merges0(td) == td # <<>> /\ Head(td).do = "merge"

Good(sc, m, cd, lb, id, td, a) ==
  /\ sc[1].id = 0 /\ Numbered(sc, m, cd, id) /\ Distinct(id)
  /\ Waits(id, a) /\ OpenAt(cd, id, a) /\ SealedAt(cd, id, td, a) /\ MergesNew(id, td)
  /\ Parted(cd, lb) /\ Forward(cd, lb)

LEMMA QuietGood ==
  ASSUME NEW cd, IsSeq(cd), NEW sc, NEW m, NEW lb, NEW id, NEW td, NEW a,
         Good(sc, m, cd, lb, id, td, a), ~Merges0(td),
         NEW sc2, NEW m2, sc2[1].id = 0, \A v : Named(sc, m, v) => Named(sc2, m2, v),
         NEW lb2, DOMAIN lb \subseteq DOMAIN lb2,
         \A l \in DOMAIN lb : lb2[l] = lb[l] \/ lb2[l] = Len(cd) + 1,
         NEW id2, DOMAIN id \subseteq DOMAIN id2, \A l \in DOMAIN id : id2[l] = id[l],
         \A l \in DOMAIN id2 \ DOMAIN id : DOMAIN id2[l] = {},
         NEW td2, ~Merges0(td2),
         NEW a2, a2.r = 0, a2.o = a.o, 0 \notin a2.n, a.n \subseteq DOMAIN id, \A p \in a.o : p[1] \in DOMAIN id,
         a2.n \subseteq a.n \cup (DOMAIN id2 \ DOMAIN id)
  PROVE  Good(sc2, m2, cd, lb2, id2, td2, a2)
<1>1. Parted(cd, lb2) /\ Forward(cd, lb2)
  BY PlacedOn DEF Good
<1>2. \A v : Taken(cd, id2, v) => Taken(cd, id, v)
  BY DEF Taken
<1>3. Numbered(sc2, m2, cd, id2)
  BY <1>2 DEF Good, Numbered
<1>4. Distinct(id2)
  <2>1. \A l \in DOMAIN id2 : \A key \in DOMAIN id2[l] : l \in DOMAIN id /\ id2[l] = id[l]
    OBVIOUS
  <2>2. Distinct(id)
    BY DEF Good
  <2>3. QED
    BY <2>1, <2>2 DEF Distinct
<1>5. Waits(id2, a2)
  <2>1. Waits(id, a)
    BY DEF Good
  <2>2. \A l \in a2.n : DOMAIN id2[l] = {}
    BY <2>1 DEF Waits
  <2>3. QED
    BY <2>1, <2>2 DEF Waits
<1>6. OpenAt(cd, id2, a2) /\ MergesNew(id2, td2)
  BY DEF OpenAt, MergesNew, Merges0
<1>7. SealedAt(cd, id2, td2, a2)
  <2>1. SealedAt(cd, id, td, a)
    BY DEF Good
  <2>2. \A l, x : Unmerged(td, l, x)
    BY DEF Unmerged, Merges0
  <2>3. \A p \in a.o : id2[p[1]] = id[p[1]]
    OBVIOUS
  <2>4. QED
    BY <2>1, <2>2, <2>3 DEF SealedAt
<1>8. QED
  BY <1>1, <1>3, <1>4, <1>5, <1>6, <1>7 DEF Good

\* An instruction is added.
LEMMA CodeGood ==
  ASSUME NEW cd, IsSeq(cd), NEW sc, NEW m, NEW lb, NEW id, NEW td, NEW a,
         Good(sc, m, cd, lb, id, td, a), ~Merges0(td),
         NEW sc2, sc2[1].id = 0, \A v : Named(sc, m, v) => Named(sc2, m, v),
         NEW e, NEW cd2, cd2 = Append(cd, e),
         Jumping(e) => e.label \in DOMAIN lb /\ lb[e.label] = NoPos,
         e.op = "stvar" => Renewed(sc, sc2, m, e.var),
         NEW td2, ~Merges0(td2), a.r \in {0} \cup DOMAIN id, \A p \in a.o : p[1] \in DOMAIN id,
         NEW a2, a2.r = 0, a2.n = a.n,
         a2.o = IF e.op = "br" /\ a.r # 0 THEN a.o \cup {<<a.r, e.label>>} ELSE a.o
  PROVE  Good(sc2, m, cd2, lb, id, td2, a2)
<1>1. Numbered(sc, m, cd, id) /\ Distinct(id) /\ Waits(id, a) /\ OpenAt(cd, id, a) /\ SealedAt(cd, id, td, a)
      /\ Parted(cd, lb) /\ Forward(cd, lb)
  BY DEF Good
<1>2. e.op = "stvar" => \A v : Taken(cd, id, v) => v # e.var
  BY <1>1 DEF Numbered, Renewed
<1>3. e.op = "stvar" => Unstored(cd, e.var)
  BY <1>2 DEF Taken, Unstored
<1>4. Parted(cd2, lb)
  BY <1>1, <1>3, PartedOn
<1>5. Forward(cd2, lb)
  BY <1>1, ForwardOn
<1>6. \A v : Taken(cd2, id, v) => Taken(cd, id, v) \/ (e.op = "stvar" /\ v = e.var)
  <2> SUFFICES ASSUME NEW v, Taken(cd2, id, v) PROVE Taken(cd, id, v) \/ (e.op = "stvar" /\ v = e.var)
    OBVIOUS
  <2>1. CASE \E i \in 1..Len(cd2) : Stores(cd2, i, v)
    <3>1. PICK i \in 1..Len(cd2) : Stores(cd2, i, v)
      BY <2>1
    <3>2. Len(cd) \in Nat /\ Len(cd2) = Len(cd) + 1
      BY AppendSeq, SeqFacts
    <3>3. CASE i = Len(cd) + 1
      BY <3>1, <3>3, StoresLast
    <3>4. CASE i # Len(cd) + 1
      <4>1. i \in 1..Len(cd)
        BY <3>2, <3>4
      <4>2. Stores(cd, i, v)
        BY <3>1, <4>1, StoresKept
      <4>3. QED
        BY <4>1, <4>2 DEF Taken
    <3>5. QED
      BY <3>3, <3>4
  <2>2. QED
    BY <2>1 DEF Taken
<1>7. Numbered(sc2, m, cd2, id)
  BY <1>1, <1>6 DEF Numbered, Renewed
<1>8. \A l \in DOMAIN id : \A key \in DOMAIN id[l] : e.op = "stvar" => e.var # id[l][key]
  BY <1>2 DEF Taken
<1>9. OpenAt(cd2, id, a2) /\ MergesNew(id, td2)
  BY DEF OpenAt, MergesNew, Merges0
<1>10. Waits(id, a2)
  BY <1>1 DEF Waits
<1>11. \A l, x : Unmerged(td, l, x)
  BY DEF Unmerged, Merges0
<1>12. ASSUME NEW p \in a.o, NEW key \in DOMAIN id[p[1]] PROVE Sealed(cd2, id[p[1]][key], p[2])
  <2>v. PICK v : v = id[p[1]][key]
    OBVIOUS
  <2>1. Sealed(cd, id[p[1]][key], p[2])
    BY <1>1, <1>11 DEF SealedAt
  <2>2. e.op = "stvar" => e.var # id[p[1]][key]
    BY <1>8
  <2>3. Sealed(cd, v, p[2]) /\ (e.op = "stvar" => e.var # v)
    BY <2>v, <2>1, <2>2
  <2>4. Sealed(cd2, v, p[2])
    BY <2>3, SealedOn
  <2>5. QED
    BY <2>v, <2>4
<1>13. ASSUME e.op = "br", a.r # 0, NEW key \in DOMAIN id[a.r] PROVE Sealed(cd2, id[a.r][key], e.label)
  BY <1>1, <1>13, OpenLeaves DEF OpenAt
<1>14. SealedAt(cd2, id, td2, a2)
  <2> SUFFICES ASSUME NEW p \in a2.o, NEW key \in DOMAIN id[p[1]] PROVE Sealed(cd2, id[p[1]][key], p[2])
    BY DEF SealedAt
  <2>1. CASE p \in a.o
    BY <1>12, <2>1
  <2>2. CASE e.op = "br" /\ a.r # 0 /\ p = <<a.r, e.label>>
    <3>1. p[1] = a.r /\ p[2] = e.label
      BY <2>2
    <3>2. QED
      BY <1>13, <2>2, <3>1
  <2>3. QED
    BY <2>1, <2>2
<1>15. QED
  BY <1>4, <1>5, <1>7, <1>9, <1>10, <1>14, <1>1 DEF Good

\* What is to be merged of a scope that is popped, and what the labels are then.
MergesFor(td, l, add) == Merges0(td) => Head(td).label = l /\ Head(td).add = add
Leaves(a, a2, l, add) ==
  /\ a2.o \subseteq a.o
  /\ IF l # 0 /\ add THEN l \in a.n /\ a2.r = l /\ a2.n = a.n \ {l} ELSE a2.r = 0 /\ a2.n = a.n

\* A scope is popped, to be merged.
LEMMA LeaveGood ==
  ASSUME NEW cd, NEW sc, NEW m, NEW lb, NEW id, NEW td, NEW a,
         Good(sc, m, cd, lb, id, td, a), ~Merges0(td),
         NEW sc2, sc2[1].id = 0, \A v : Named(sc, m, v) => Named(sc2, m, v),
         NEW l, NEW add, NEW td2, MergesFor(td2, l, add), NEW a2, Leaves(a, a2, l, add)
  PROVE  Good(sc2, m, cd, lb, id, td2, a2)
<1>m. Merges0(td2) => Head(td2).label = l /\ Head(td2).add = add
  BY DEF MergesFor
<1>l. /\ a2.o \subseteq a.o
      /\ IF l # 0 /\ add THEN l \in a.n /\ a2.r = l /\ a2.n = a.n \ {l} ELSE a2.r = 0 /\ a2.n = a.n
  BY DEF Leaves
<1>1. Numbered(sc, m, cd, id) /\ Distinct(id) /\ Waits(id, a) /\ SealedAt(cd, id, td, a)
      /\ Parted(cd, lb) /\ Forward(cd, lb)
  BY DEF Good
<1>2. Numbered(sc2, m, cd, id)
  BY <1>1 DEF Numbered
<1>3. \A l2, x : Unmerged(td, l2, x)
  BY DEF Unmerged, Merges0
<1>4. SealedAt(cd, id, td2, a2)
  BY <1>1, <1>l, <1>3 DEF SealedAt
<1>5. CASE l # 0 /\ add
  <2>1. l \in a.n /\ a2.r = l /\ a2.n = a.n \ {l} /\ DOMAIN id[l] = {}
    BY <1>1, <1>l, <1>5 DEF Waits
  <2>2. Waits(id, a2)
    BY <1>1, <1>l, <2>1 DEF Waits
  <2>3. OpenAt(cd, id, a2)
    BY <2>1 DEF OpenAt
  <2>4. MergesNew(id, td2)
    BY <1>m, <2>1 DEF MergesNew, Merges0
  <2>5. QED
    BY <1>1, <1>2, <1>4, <2>2, <2>3, <2>4 DEF Good
<1>6. CASE ~(l # 0 /\ add)
  <2>1. a2.r = 0 /\ a2.n = a.n
    BY <1>l, <1>6
  <2>2. Waits(id, a2)
    BY <1>1, <1>l, <2>1 DEF Waits
  <2>3. OpenAt(cd, id, a2)
    BY <2>1 DEF OpenAt
  <2>4. MergesNew(id, td2)
    BY <1>m, <1>6 DEF MergesNew, Merges0
  <2>5. QED
    BY <1>1, <1>2, <1>4, <2>2, <2>3, <2>4 DEF Good
<1>7. QED
  BY <1>5, <1>6

\* What a copy adds to the code.
Copies(cd, ld, st) == Append(Append(cd, ld), st)

LEMMA CopyCode ==
  ASSUME NEW cd, IsSeq(cd), NEW ld, ld.op = "ldvar", NEW st, st.op = "stvar",
         NEW cd2, cd2 = Copies(cd, ld, st), NEW lb, Parted(cd, lb), Forward(cd, lb),
         Unstored(cd, st.var) \/ \E m : m \in DOMAIN lb /\ lb[m] = NoPos /\ Sealed(cd, st.var, m)
  PROVE  Parted(cd2, lb) /\ Forward(cd2, lb)
<1> DEFINE cd1 == Append(cd, ld)
<1>1. IsSeq(cd1)
  BY AppendSeq
<1>2. PICK c : c = cd1
  OBVIOUS
<1>3. Parted(c, lb) /\ Forward(c, lb)
  BY <1>2, PartedOn, ForwardOn DEF Jumping
<1>4. Unstored(cd, st.var) => Unstored(c, st.var)
  BY <1>2, UnstoredOn
<1>5. ASSUME NEW m, Sealed(cd, st.var, m) PROVE Sealed(c, st.var, m)
  BY <1>2, <1>5, SealedOn
<1>6. IsSeq(c) /\ cd2 = Append(c, st)
  BY <1>1, <1>2 DEF Copies
<1>7. Unstored(c, st.var) \/ \E m : m \in DOMAIN lb /\ lb[m] = NoPos /\ Sealed(c, st.var, m)
  BY <1>4, <1>5
<1>8. Parted(cd2, lb)
  BY <1>3, <1>6, <1>7, PartedOn
<1>9. Forward(cd2, lb)
  BY <1>3, <1>6, ForwardOn DEF Jumping
<1>10. QED
  BY <1>8, <1>9

LEMMA CopySealed ==
  ASSUME NEW cd, IsSeq(cd), NEW ld, ld.op = "ldvar", NEW st,
         NEW cd2, cd2 = Copies(cd, ld, st), NEW v, v # st.var, NEW m, Sealed(cd, v, m)
  PROVE  Sealed(cd2, v, m)
<1>1. PICK c : c = Append(cd, ld)
  OBVIOUS
<1>2. IsSeq(c) /\ cd2 = Append(c, st)
  BY <1>1, AppendSeq DEF Copies
<1>3. Sealed(c, v, m)
  BY <1>1, SealedOn
<1>4. QED
  BY <1>2, <1>3, SealedOn

LEMMA CopyOpen ==
  ASSUME NEW cd, IsSeq(cd), NEW ld, ld.op = "ldvar", NEW st, st.op = "stvar",
         NEW cd2, cd2 = Copies(cd, ld, st), NEW v, Open(cd, v)
  PROVE  Open(cd2, v)
<1>1. PICK c : c = Append(cd, ld)
  OBVIOUS
<1>2. IsSeq(c) /\ cd2 = Append(c, st)
  BY <1>1, AppendSeq DEF Copies
<1>3. Straight(ld) /\ Straight(st)
  BY DEF Straight
<1>4. Open(c, v)
  BY <1>1, <1>3, OpenOn
<1>5. QED
  BY <1>2, <1>3, <1>4, OpenOn

LEMMA StoredOn ==
  ASSUME NEW cd, IsSeq(cd), NEW e, NEW cd2, cd2 = Append(cd, e), NEW v,
         \E i \in 1..Len(cd2) : Stores(cd2, i, v)
  PROVE  (\E i \in 1..Len(cd) : Stores(cd, i, v)) \/ (e.op = "stvar" /\ e.var = v)
<1>1. PICK i \in 1..Len(cd2) : Stores(cd2, i, v)
  OBVIOUS
<1>2. Len(cd) \in Nat /\ Len(cd2) = Len(cd) + 1
  BY AppendSeq, SeqFacts
<1>3. CASE i = Len(cd) + 1
  BY <1>1, <1>3, StoresLast
<1>4. CASE i # Len(cd) + 1
  <2>1. i \in 1..Len(cd)
    BY <1>2, <1>4
  <2>2. Stores(cd, i, v)
    BY <1>1, <2>1, StoresKept
  <2>3. QED
    BY <2>1, <2>2
<1>5. QED
  BY <1>3, <1>4

LEMMA CopyStored ==
  ASSUME NEW cd, IsSeq(cd), NEW ld, ld.op = "ldvar", NEW st,
         NEW cd2, cd2 = Copies(cd, ld, st), NEW v, \E i \in 1..Len(cd2) : Stores(cd2, i, v)
  PROVE  (\E i \in 1..Len(cd) : Stores(cd, i, v)) \/ v = st.var
<1>1. PICK c : c = Append(cd, ld)
  OBVIOUS
<1>2. IsSeq(c) /\ cd2 = Append(c, st)
  BY <1>1, AppendSeq DEF Copies
<1>3. (\E i \in 1..Len(c) : Stores(c, i, v)) \/ v = st.var
  BY <1>2, StoredOn
<1>4. (\E i \in 1..Len(c) : Stores(c, i, v)) => (\E i \in 1..Len(cd) : Stores(cd, i, v))
  BY <1>1, StoredOn
<1>5. QED
  BY <1>3, <1>4

\* A round of applyScope: the one to come, and what is left after it.
Round(td, td2, l, add, left, x) ==
  /\ Merges0(td) /\ Head(td).label = l /\ Head(td).add = add /\ Head(td).left = left /\ x \in left
  /\ Merges0(td2) => Head(td2).label = l /\ Head(td2).add = add /\ Head(td2).left = left \ {x}

\* The first branch: a new variable is recorded.
LEMMA RecordGood ==
  ASSUME NEW cd, IsSeq(cd), NEW sc, NEW m, NEW lb, NEW id, NEW td, NEW a,
         Good(sc, m, cd, lb, id, td, a),
         NEW l, l # 0, l = a.r, l \in DOMAIN id, NEW add, add, NEW left, NEW x, NEW td2,
         Round(td, td2, l, add, left, x), \A p \in a.o : p[1] \in DOMAIN id, a.n \subseteq DOMAIN id,
         NEW sc2, sc2[1].id = 0, NEW ld, ld.op = "ldvar", NEW st, st.op = "stvar",
         Renewed(sc, sc2, m, st.var), NEW cd2, cd2 = Copies(cd, ld, st),
         NEW key, key[2] = x, NEW id2, id2 = [id EXCEPT ![l] = With(@, key, st.var)],
         NEW a2, a2.r = l, a2.n = a.n, a2.o \subseteq a.o
  PROVE  Good(sc2, m, cd2, lb, id2, td2, a2)
<1>1. Numbered(sc, m, cd, id) /\ Distinct(id) /\ Waits(id, a) /\ OpenAt(cd, id, a) /\ SealedAt(cd, id, td, a)
      /\ MergesNew(id, td) /\ Parted(cd, lb) /\ Forward(cd, lb)
  BY DEF Good
<1>v. PICK v : v = st.var
  OBVIOUS
<1>2. \A u : Taken(cd, id, u) => u # v
  BY <1>1, <1>v DEF Numbered, Renewed
<1>3. Unstored(cd, v)
  BY <1>2 DEF Taken, Unstored
<1>4. Parted(cd2, lb) /\ Forward(cd2, lb)
  BY <1>1, <1>v, <1>3, CopyCode
<1>5. /\ DOMAIN id2 = DOMAIN id /\ \A j \in DOMAIN id : j # l => id2[j] = id[j]
      /\ DOMAIN id2[l] = DOMAIN id[l] \cup {key} /\ id2[l][key] = v
      /\ \A k \in DOMAIN id[l] : k # key => id2[l][k] = id[l][k]
  <2>1. id2[l] = With(id[l], key, v)
    BY <1>v
  <2>2. DOMAIN id2 = DOMAIN id /\ \A j \in DOMAIN id : j # l => id2[j] = id[j]
    OBVIOUS
  <2>3. PICK f, g : f = id[l] /\ g = id2[l]
    OBVIOUS
  <2>4. /\ DOMAIN g = DOMAIN f \cup {key} /\ g[key] = v
        /\ \A k \in DOMAIN f : k # key => g[k] = f[k]
    <3>1. g = With(f, key, v)
      BY <2>1, <2>3
    <3>2. QED
      BY <3>1 DEF With
  <2>5. QED
    BY <2>2, <2>3, <2>4
<1>6. \A j \in DOMAIN id : \A k \in DOMAIN id2[j] :
        (id2[j][k] = v /\ j = l /\ k = key) \/ (k \in DOMAIN id[j] /\ id2[j][k] = id[j][k] /\ id2[j][k] # v)
  <2>1. \A j \in DOMAIN id : \A k \in DOMAIN id[j] : id[j][k] # v
    BY <1>2 DEF Taken
  <2>2. QED
    BY <1>5, <2>1
<1>7. Numbered(sc2, m, cd2, id2)
  <2> SUFFICES ASSUME NEW u, Taken(cd2, id2, u) PROVE Named(sc2, m, u)
    BY DEF Numbered
  <2>1. CASE u = v
    BY <1>v, <2>1 DEF Renewed
  <2>2. CASE u # v
    <3>1. CASE \E i \in 1..Len(cd2) : Stores(cd2, i, u)
      <4>1. \E i \in 1..Len(cd) : Stores(cd, i, u)
        BY <1>v, <2>2, <3>1, CopyStored
      <4>2. QED
        BY <1>1, <4>1 DEF Taken, Numbered, Renewed
    <3>2. CASE \E j \in DOMAIN id2 : \E k \in DOMAIN id2[j] : u = id2[j][k]
      <4>1. \E j \in DOMAIN id : \E k \in DOMAIN id[j] : u = id[j][k]
        BY <1>5, <1>6, <2>2, <3>2
      <4>2. QED
        BY <1>1, <4>1 DEF Taken, Numbered, Renewed
    <3>3. QED
      BY <3>1, <3>2 DEF Taken
  <2>3. QED
    BY <2>1, <2>2
<1>8. Distinct(id2)
  <2> SUFFICES ASSUME NEW l1 \in DOMAIN id, NEW l2 \in DOMAIN id, NEW k1 \in DOMAIN id2[l1], NEW k2 \in DOMAIN id2[l2],
                      id2[l1][k1] = id2[l2][k2]
               PROVE  l1 = l2 /\ k1 = k2
    BY <1>5 DEF Distinct
  <2>1. CASE id2[l1][k1] = v
    BY <1>6, <2>1
  <2>2. CASE id2[l1][k1] # v
    <3>1. k1 \in DOMAIN id[l1] /\ k2 \in DOMAIN id[l2] /\ id[l1][k1] = id[l2][k2]
      BY <1>6, <2>2
    <3>2. QED
      BY <1>1, <3>1 DEF Distinct
  <2>3. QED
    BY <2>1, <2>2
<1>9. Waits(id2, a2)
  <2>1. \A j \in a.n : id2[j] = id[j]
    BY <1>1, <1>5 DEF Waits
  <2>2. QED
    BY <1>1, <2>1 DEF Waits
<1>10. OpenAt(cd2, id2, a2)
  <2> SUFFICES ASSUME NEW k \in DOMAIN id2[l] PROVE Open(cd2, id2[l][k])
    BY DEF OpenAt
  <2>1. PICK u : u = id2[l][k]
    OBVIOUS
  <2>2. Open(cd, u)
    <3>1. CASE u = v
      BY <1>3, <3>1 DEF Open, Unstored
    <3>2. CASE u # v
      <4>1. k \in DOMAIN id[l] /\ u = id[l][k]
        BY <1>6, <2>1, <3>2
      <4>2. QED
        BY <1>1, <4>1 DEF OpenAt
    <3>3. QED
      BY <3>1, <3>2
  <2>3. Open(cd2, u)
    BY <2>2, CopyOpen
  <2>4. QED
    BY <2>1, <2>3
<1>11. SealedAt(cd2, id2, td2, a2)
  <2> SUFFICES ASSUME NEW p \in a2.o, NEW k \in DOMAIN id2[p[1]] PROVE Sealed(cd2, id2[p[1]][k], p[2])
    BY DEF SealedAt
  <2>1. p \in a.o /\ p[1] # l /\ p[1] \in DOMAIN id
    BY <1>1 DEF Waits
  <2>2. id2[p[1]] = id[p[1]]
    BY <1>5, <2>1
  <2>3. Unmerged(td, p[1], k[2])
    BY <2>1 DEF Unmerged, Round
  <2>4. PICK u : u = id2[p[1]][k]
    OBVIOUS
  <2>5. Sealed(cd, u, p[2])
    BY <1>1, <2>1, <2>2, <2>3, <2>4 DEF SealedAt
  <2>6. u # st.var
    BY <1>v, <1>6, <2>1, <2>2, <2>4
  <2>7. Sealed(cd2, u, p[2])
    BY <2>5, <2>6, CopySealed
  <2>8. QED
    BY <2>4, <2>7
<1>12. MergesNew(id2, td2)
  <2>1. \A k \in DOMAIN id[l] : k[2] \notin left
    BY <1>1 DEF MergesNew, Round, Merges0
  <2>2. \A k \in DOMAIN id2[l] : k[2] \notin left \ {x}
    BY <1>5, <2>1
  <2>3. QED
    BY <2>2 DEF MergesNew, Round, Merges0
<1>13. QED
  BY <1>4, <1>7, <1>8, <1>9, <1>10, <1>11, <1>12 DEF Good

\* A new variable that is not recorded.
LEMMA MergeGood ==
  ASSUME NEW cd, IsSeq(cd), NEW sc, NEW m, NEW lb, NEW id, NEW td, NEW a,
         Good(sc, m, cd, lb, id, td, a),
         NEW l, NEW add, ~(l # 0 /\ add), NEW left, NEW x, NEW td2,
         Round(td, td2, l, add, left, x), \A p \in a.o : p[1] \in DOMAIN id,
         NEW sc2, sc2[1].id = 0, NEW ld, ld.op = "ldvar", NEW st, st.op = "stvar",
         Renewed(sc, sc2, m, st.var), NEW cd2, cd2 = Copies(cd, ld, st),
         NEW a2, a2.r = 0, a2.n = a.n, a2.o \subseteq a.o, ~Merges0(td2) => \A p \in a2.o : p[1] # l
  PROVE  Good(sc2, m, cd2, lb, id, td2, a2)
<1>1. Numbered(sc, m, cd, id) /\ Distinct(id) /\ Waits(id, a) /\ OpenAt(cd, id, a) /\ SealedAt(cd, id, td, a)
      /\ MergesNew(id, td) /\ Parted(cd, lb) /\ Forward(cd, lb)
  BY DEF Good
<1>v. PICK v : v = st.var
  OBVIOUS
<1>2. \A u : Taken(cd, id, u) => u # v
  BY <1>1, <1>v DEF Numbered, Renewed
<1>3. Unstored(cd, v)
  BY <1>2 DEF Taken, Unstored
<1>4. Parted(cd2, lb) /\ Forward(cd2, lb)
  BY <1>1, <1>v, <1>3, CopyCode
<1>7. Numbered(sc2, m, cd2, id)
  <2> SUFFICES ASSUME NEW u, Taken(cd2, id, u) PROVE Named(sc2, m, u)
    BY DEF Numbered
  <2>1. CASE u = v
    BY <1>v, <2>1 DEF Renewed
  <2>2. CASE u # v
    <3>1. CASE \E i \in 1..Len(cd2) : Stores(cd2, i, u)
      <4>1. \E i \in 1..Len(cd) : Stores(cd, i, u)
        BY <1>v, <2>2, <3>1, CopyStored
      <4>2. QED
        BY <1>1, <4>1 DEF Taken, Numbered, Renewed
    <3>2. CASE \E j \in DOMAIN id : \E k \in DOMAIN id[j] : u = id[j][k]
      BY <1>1, <3>2 DEF Taken, Numbered, Renewed
    <3>3. QED
      BY <3>1, <3>2 DEF Taken
  <2>3. QED
    BY <2>1, <2>2
<1>9. Waits(id, a2)
  BY <1>1 DEF Waits
<1>10. OpenAt(cd2, id, a2)
  BY DEF OpenAt
<1>11. SealedAt(cd2, id, td2, a2)
  <2> SUFFICES ASSUME NEW p \in a2.o, NEW k \in DOMAIN id[p[1]], Unmerged(td2, p[1], k[2])
               PROVE  Sealed(cd2, id[p[1]][k], p[2])
    BY DEF SealedAt
  <2>1. p \in a.o /\ p[1] \in DOMAIN id
    OBVIOUS
  <2>3. Unmerged(td, p[1], k[2])
    BY DEF Unmerged, Round, Merges0
  <2>4. PICK u : u = id[p[1]][k]
    OBVIOUS
  <2>5. Sealed(cd, u, p[2])
    BY <1>1, <2>1, <2>3, <2>4 DEF SealedAt
  <2>6. u # st.var
    BY <1>v, <1>2, <2>1, <2>4 DEF Taken
  <2>7. Sealed(cd2, u, p[2])
    BY <2>5, <2>6, CopySealed
  <2>8. QED
    BY <2>4, <2>7
<1>12. MergesNew(id, td2)
  BY DEF MergesNew, Round, Merges0
<1>13. QED
  BY <1>1, <1>4, <1>7, <1>9, <1>10, <1>11, <1>12 DEF Good

\* The second branch: a variable the first branch has stored.
LEMMA ReuseGood ==
  ASSUME NEW cd, IsSeq(cd), NEW sc, NEW m, NEW lb, NEW id, NEW td, NEW a,
         Good(sc, m, cd, lb, id, td, a),
         NEW l \in DOMAIN id, NEW add, ~add, l # 0, NEW left, NEW x, NEW td2,
         Round(td, td2, l, add, left, x), \A p \in a.o : p[1] \in DOMAIN id,
         NEW ld, ld.op = "ldvar", NEW st, st.op = "stvar",
         NEW cd2, cd2 = Copies(cd, ld, st),
         NEW key \in DOMAIN id[l], key[2] = x, st.var = id[l][key],
         NEW m2, m2 \in DOMAIN lb, lb[m2] = NoPos, <<l, m2>> \in a.o,
         NEW a2, a2.r = 0, a2.n = a.n, a2.o \subseteq a.o, ~Merges0(td2) => \A p \in a2.o : p[1] # l
  PROVE  Good(sc, m, cd2, lb, id, td2, a2)
<1>1. Numbered(sc, m, cd, id) /\ Distinct(id) /\ Waits(id, a) /\ OpenAt(cd, id, a) /\ SealedAt(cd, id, td, a)
      /\ MergesNew(id, td) /\ Parted(cd, lb) /\ Forward(cd, lb)
  BY DEF Good
<1>v. PICK v : v = st.var
  OBVIOUS
<1>2. Unmerged(td, l, x)
  BY DEF Unmerged, Round, Merges0
<1>3. Sealed(cd, v, m2)
  <2>1. PICK p : p = <<l, m2>>
    OBVIOUS
  <2>2. p \in a.o /\ p[1] = l /\ p[2] = m2
    BY <2>1
  <2>3. QED
    BY <1>1, <1>2, <1>v, <2>2 DEF SealedAt
<1>4. Parted(cd2, lb) /\ Forward(cd2, lb)
  <2>1. \E m3 : m3 \in DOMAIN lb /\ lb[m3] = NoPos /\ Sealed(cd, st.var, m3)
    BY <1>v, <1>3
  <2>2. QED
    BY <1>1, <2>1, CopyCode
<1>7. Numbered(sc, m, cd2, id)
  <2> SUFFICES ASSUME NEW u, Taken(cd2, id, u) PROVE Named(sc, m, u)
    BY DEF Numbered
  <2>1. CASE \E i \in 1..Len(cd2) : Stores(cd2, i, u)
    <3>1. (\E i \in 1..Len(cd) : Stores(cd, i, u)) \/ u = st.var
      BY <2>1, CopyStored
    <3>2. Taken(cd, id, u)
      BY <3>1 DEF Taken
    <3>3. QED
      BY <1>1, <3>2 DEF Numbered
  <2>2. CASE \E j \in DOMAIN id : \E k \in DOMAIN id[j] : u = id[j][k]
    BY <1>1, <2>2 DEF Taken, Numbered
  <2>3. QED
    BY <2>1, <2>2 DEF Taken
<1>9. Waits(id, a2)
  BY <1>1 DEF Waits
<1>10. OpenAt(cd2, id, a2)
  BY DEF OpenAt
<1>11. SealedAt(cd2, id, td2, a2)
  <2> SUFFICES ASSUME NEW p \in a2.o, NEW k \in DOMAIN id[p[1]], Unmerged(td2, p[1], k[2])
               PROVE  Sealed(cd2, id[p[1]][k], p[2])
    BY DEF SealedAt
  <2>1. p \in a.o /\ p[1] \in DOMAIN id
    OBVIOUS
  <2>2. p[1] = l => k[2] \in left \ {x}
    BY DEF Unmerged, Round, Merges0
  <2>3. Unmerged(td, p[1], k[2])
    BY <2>2 DEF Unmerged, Round, Merges0
  <2>4. PICK u : u = id[p[1]][k]
    OBVIOUS
  <2>5. Sealed(cd, u, p[2])
    BY <1>1, <2>1, <2>3, <2>4 DEF SealedAt
  <2>6. u # st.var
    <3>1. p[1] = l => k # key
      BY <2>2
    <3>2. QED
      BY <1>1, <2>1, <2>4, <3>1 DEF Distinct
  <2>7. Sealed(cd2, u, p[2])
    BY <2>5, <2>6, CopySealed
  <2>8. QED
    BY <2>4, <2>7
<1>12. MergesNew(id, td2)
  BY DEF MergesNew, Round, Merges0
<1>13. QED
  BY <1>1, <1>4, <1>7, <1>9, <1>10, <1>11, <1>12 DEF Good

LEMMA PlaceFacts ==
  ASSUME NEW a, NEW lh, Flows(a, lh)
  PROVE  /\ IsSeq(code) /\ IsSeq(scopes) /\ scopes # <<>> /\ Len(scopes) > 1 /\ 1 \in 1..Len(scopes)
         /\ IsSeq(ids) /\ IsSeq(labels) /\ Len(ids) = Len(labels) /\ Len(labels) \in Nat
         /\ DOMAIN ids = Old /\ DOMAIN labels = Old /\ 0 \notin Old /\ a.n \subseteq Old /\ a.r \in {0} \cup Old
         /\ a.u = Pending /\ \A p \in a.o : p[1] \in Old
<1>1. /\ IsSeq(scopes) /\ IsSeq(ids) /\ IsSeq(labels) /\ IsSeq(code)
      /\ Len(ids) = Len(labels) /\ Len(labels) \in Nat /\ Len(scopes) \in Nat
      /\ a.d = Len(scopes) /\ a.u = Pending /\ a.d # 0 /\ a.d # 1
      /\ a.n \subseteq Old /\ a.r \in {0} \cup Old /\ (\A p \in a.o : p[1] \in Old)
  BY FlowsFacts
<1>2. Len(scopes) > 1 /\ 1 \in 1..Len(scopes)
  <2>1. \A n \in Nat : n # 0 /\ n # 1 => n > 1 /\ 1 \in 1..n
    OBVIOUS
  <2>2. Len(scopes) \in Nat /\ Len(scopes) # 0 /\ Len(scopes) # 1
    BY <1>1
  <2>3. QED
    BY <2>1, <2>2
<1>3. scopes # <<>>
  BY <1>1, ScopesChain
<1>4. DOMAIN ids = Old /\ DOMAIN labels = Old
  BY <1>1, SeqFacts DEF Old
<1>5. 0 \notin Old
  BY <1>1 DEF Old
<1>6. QED
  BY <1>1, <1>2, <1>3, <1>4, <1>5

PlaceGood(a) == Good(scopes, nextScopeId, code, labels, ids, todo, a)

LEMMA PushNames ==
  ASSUME NEW sc, IsSeq(sc), sc # <<>>, NEW m \in Nat, NEW sc2, sc2 = Append(sc, Scope(m))
  PROVE  sc2[1] = sc[1] /\ \A v : Named(sc, m, v) => Named(sc2, m + 1, v)
<1>1. /\ Len(sc2) = Len(sc) + 1 /\ Len(sc) \in Nat \ {0} /\ sc2[Len(sc) + 1] = Scope(m)
      /\ \A i \in 1..Len(sc) : sc2[i] = sc[i]
  BY AppendSeq, SeqFacts
<1>2. PICK s : s = Scope(m)
  OBVIOUS
<1>3. s.id = m
  BY <1>2, ScopeIs
<1>4. ASSUME NEW v, Named(sc, m, v) PROVE Named(sc2, m + 1, v)
  <2>1. /\ v \in (1..m - 1) \X Name \X Counts
        /\ \A k \in 1..Len(sc) :
             sc[k].id = v[1] => v[2] \in DOMAIN sc[k].vars /\ ~Later(v[3], sc[k].vars[v[2]])
    BY <1>4 DEF Named
  <2>2. v \in (1..m + 1 - 1) \X Name \X Counts /\ v[1] # m
    BY <2>1
  <2>3. ASSUME NEW k \in 1..Len(sc2), sc2[k].id = v[1]
        PROVE  v[2] \in DOMAIN sc2[k].vars /\ ~Later(v[3], sc2[k].vars[v[2]])
    <3>1. k # Len(sc) + 1
      BY <1>1, <1>2, <1>3, <2>2, <2>3
    <3>2. k \in 1..Len(sc)
      BY <1>1, <3>1
    <3>3. QED
      BY <1>1, <2>1, <2>3, <3>2
  <2>4. QED
    BY <2>2, <2>3 DEF Named
<1>5. QED
  BY <1>1, <1>4

LEMMA FrontNames ==
  ASSUME NEW sc, IsSeq(sc), sc # <<>>, NEW m, NEW sc2, sc2 = Front(sc), Len(sc2) > 1
  PROVE  sc2[1] = sc[1] /\ \A v : Named(sc, m, v) => Named(sc2, m, v)
<1>1. /\ Len(sc2) = Len(sc) - 1 /\ Len(sc) \in Nat /\ \A i \in 1..Len(sc2) : sc2[i] = sc[i]
  BY FrontSeq, SeqFacts
<1>2. (\A k \in 1..Len(sc2) : k \in 1..Len(sc)) /\ 1 \in 1..Len(sc2)
  BY <1>1
<1>3. ASSUME NEW v, Named(sc, m, v) PROVE Named(sc2, m, v)
  BY <1>1, <1>2, <1>3 DEF Named
<1>4. QED
  BY <1>1, <1>2, <1>3

\* The declarations of a scope do not matter.
DeclaredAs(sc, d) == [sc EXCEPT ![Len(sc)].decl = d]

LEMMA DeclaredNames ==
  ASSUME NEW sc, IsSeq(sc), sc # <<>>, NEW m, Chained(sc, m), NEW d,
         NEW sc2, sc2 = DeclaredAs(sc, d)
  PROVE  /\ IsSeq(sc2) /\ Len(sc2) = Len(sc)
         /\ \A k \in 1..Len(sc) : sc2[k].id = sc[k].id /\ sc2[k].vars = sc[k].vars
<1>1. Len(sc) \in Nat \ {0} /\ Len(sc) \in 1..Len(sc)
  BY SeqFacts
<1> DEFINE n == Len(sc)
           s == sc[n]
           s2 == [s EXCEPT !.decl = d]
<1>2. sc2 = Changed(sc, n, s2)
  BY DEF Changed, DeclaredAs
<1>3. ScopeSound(sc, n, s)
  BY <1>1 DEF Chained
<1>4. s2.id = s.id /\ s2.vars = s.vars
  BY <1>3 DEF ScopeSound, Fields
<1> HIDE DEF s2, s, n
<1>5. IsSeq(sc2) /\ Len(sc2) = Len(sc) /\ sc2[n] = s2 /\ \A i \in 1..Len(sc) : i # n => sc2[i] = sc[i]
  <2>1. n \in 1..Len(sc)
    BY <1>1 DEF n
  <2>2. IsSeq(sc2) /\ Len(sc2) = Len(sc)
    BY DeclaredSeq DEF DeclaredAs
  <2>3. sc2[n] = s2 /\ \A i \in 1..Len(sc) : i # n => sc2[i] = sc[i]
    BY <1>2, <2>1, ChangedSeq
  <2>4. QED
    BY <2>2, <2>3
<1>6. \A k \in 1..Len(sc) : sc2[k].id = sc[k].id /\ sc2[k].vars = sc[k].vars
  BY <1>4, <1>5 DEF s
<1>7. QED
  BY <1>5, <1>6

LEMMA NodeGood ==
  ASSUME NEW a, NEW lh, Flows(a, lh), PlaceGood(a), EmitNode, NEW a2, NEW lh2, Flows(a2, lh2)', Linked(a, a2)
  PROVE  PlaceGood(a2)'
<1>1. PICK n0 \in Nat : \E node, cost, items : Emitting(node, cost, n0, items)
  <2>1. Len(labels) \in Nat
    BY FlowsFacts
  <2>2. QED
    BY <2>1, NodesExpand, Zenon DEF Expanded
<1>2. Head(todo).do = "node" /\ todo # <<>>
  BY <1>1 DEF Emitting, Compiling
<1>3. PICK n \in Nat : /\ BeginLabels(n) /\ a.r = 0 /\ a2.r = 0 /\ a2.o = a.o
                       /\ a.n \subseteq a2.n /\ a2.n \subseteq a.n \cup New(n)
  BY <1>2 DEF Linked
<1>4. ~Merges0(todo) /\ ~Merges0(todo')
  BY <1>2 DEF Linked, Merges0
<1>5. /\ IsSeq(code) /\ IsSeq(ids) /\ IsSeq(labels) /\ Len(ids) = Len(labels) /\ Len(labels) \in Nat
      /\ DOMAIN ids = Old /\ DOMAIN labels = Old /\ 0 \notin Old /\ a.n \subseteq Old
      /\ \A p \in a.o : p[1] \in Old
  BY PlaceFacts
<1>6. scopes' = scopes /\ nextScopeId' = nextScopeId /\ code' = code
  BY <1>3 DEF BeginLabels
<1>7. PICK f : f = [l \in 1..n |-> NoPos]
  OBVIOUS
<1>8. PICK g : g = [l \in 1..n |-> <<>>]
  OBVIOUS
<1>9. labels' = labels \o f /\ ids' = ids \o g
  BY <1>3, <1>7, <1>8 DEF BeginLabels
<1>10. IsSeq(f) /\ Len(f) = n /\ IsSeq(g) /\ Len(g) = n
  <2>1. f = [i \in 1..n |-> f[i]] /\ g = [i \in 1..n |-> g[i]]
    BY <1>7, <1>8
  <2>2. QED
    BY <2>1, FunctionSeq
<1>11. /\ IsSeq(labels') /\ Len(labels') = Len(labels) + n /\ \A l \in 1..Len(labels) : labels'[l] = labels[l]
  BY <1>5, <1>9, <1>10, JoinSeq
<1>12. /\ IsSeq(ids') /\ Len(ids') = Len(labels) + n /\ \A l \in 1..Len(ids) : ids'[l] = ids[l]
       /\ \A l \in 1..n : ids'[Len(ids) + l] = g[l]
  BY <1>5, <1>9, <1>10, JoinSeq, SMTT(30)
<1>13. DOMAIN ids' = 1..Len(labels) + n /\ DOMAIN labels' = 1..Len(labels) + n
  BY <1>11, <1>12, SeqFacts
<1>14. DOMAIN ids \subseteq DOMAIN ids' /\ DOMAIN labels \subseteq DOMAIN labels' /\ 0 \notin DOMAIN ids'
       /\ New(n) = DOMAIN ids' \ DOMAIN ids
  BY <1>5, <1>13 DEF Old, New
<1>15. \A l \in DOMAIN labels : labels'[l] = labels[l]
  BY <1>5, <1>11 DEF Old
<1>16. \A l \in DOMAIN ids : ids'[l] = ids[l]
  BY <1>5, <1>12 DEF Old
<1>17. ASSUME NEW l \in DOMAIN ids' \ DOMAIN ids PROVE DOMAIN ids'[l] = {}
  <2>1. l - Len(ids) \in 1..n /\ l = Len(ids) + (l - Len(ids))
    BY <1>5, <1>13, <1>17 DEF Old
  <2>2. ids'[l] = g[l - Len(ids)]
    BY <1>12, <2>1
  <2>3. ids'[l] = <<>>
    BY <1>8, <2>1, <2>2
  <2>4. QED
    BY <2>3, NoNames
<1>18. a2.n \subseteq a.n \cup (DOMAIN ids' \ DOMAIN ids) /\ 0 \notin a2.n
  BY <1>3, <1>5, <1>14
<1>19. scopes[1].id = 0
  BY DEF PlaceGood, Good
<1>20. Good(scopes, nextScopeId, code, labels', ids', todo', a2)
  BY <1>3, <1>4, <1>5, <1>14, <1>15, <1>16, <1>17, <1>18, <1>19, QuietGood DEF PlaceGood
<1>21. QED
  BY <1>6, <1>20 DEF PlaceGood

\* How a call that neither applies a scope nor merges passes on what a place names.
LEMMA CallLinked ==
  ASSUME NEW a, NEW a2, NoLoops, Linked(a, a2), todo # <<>>, Head(todo).do \notin {"node", "apply", "merge"}
  PROVE  /\ Head(todo).do # "own" /\ ~Merges0(todo) /\ ~Merges0(todo') /\ a2.r = 0 /\ a2.n = a.n
         /\ a2.o = IF Head(todo).do = "ins" /\ Head(todo).ins.op = "br" /\ a.r # 0
                   THEN a.o \cup {<<a.r, Head(todo).ins.label>>} ELSE a.o
         /\ Head(todo).do = "ins" =>
              /\ Head(todo).ins.op \notin {"ldvar", "stvar"}
              /\ Jumping(Head(todo).ins) => Head(todo).ins.label \in a.u
<1>1. todo' # <<>> => Head(todo').do # "merge"
  BY DEF Linked
<1>2. PICK c \in Points :
         /\ Discipline(Head(todo), a, c)
         /\ a2.r = c.r /\ a2.n = c.n
         /\ a2.o = IF todo' # <<>> /\ Head(todo').do = "merge" THEN a.o ELSE c.o
  BY DEF Linked
<1>3. a2.o = c.o
  BY <1>1, <1>2
<1>4. ~Merges0(todo) /\ ~Merges0(todo')
  BY <1>1 DEF Merges0
<1>5. QED
  BY <1>2, <1>3, <1>4 DEF Discipline, Jumping

\* The scopes push and the place of a label name no variable.
LEMMA QuietCallGood ==
  ASSUME NEW a, NEW lh, Flows(a, lh), PlaceGood(a), Chain, NoLoops, EnterScope \/ PlaceLabel, NEW a2, Linked(a, a2)
  PROVE  PlaceGood(a2)'
<1>1. todo # <<>> /\ Head(todo).do \in {"push", "label"} /\ code' = code /\ ids' = ids
  BY DEF EnterScope, PlaceLabel, Calls, Compiling, PushScope, Place
<1>2. ~Merges0(todo) /\ ~Merges0(todo') /\ a2.r = 0 /\ a2.n = a.n /\ a2.o = a.o
  BY <1>1, CallLinked
<1>3. /\ IsSeq(code) /\ IsSeq(scopes) /\ scopes # <<>> /\ IsSeq(labels)
      /\ DOMAIN ids = Old /\ DOMAIN labels = Old /\ 0 \notin Old /\ a.n \subseteq Old
      /\ \A p \in a.o : p[1] \in Old
  BY PlaceFacts
<1>4. scopes[1].id = 0
  BY DEF PlaceGood, Good
<1>5. 0 \notin a2.n /\ a2.n \subseteq a.n \cup (DOMAIN ids \ DOMAIN ids)
  BY <1>2, <1>3
<1>6. \A l \in DOMAIN ids \ DOMAIN ids : DOMAIN ids[l] = {}
  OBVIOUS
<1>7. CASE EnterScope
  <2>1. scopes' = Append(scopes, Scope(nextScopeId)) /\ nextScopeId' = nextScopeId + 1 /\ labels' = labels
    BY <1>7 DEF EnterScope, PushScope
  <2>n. nextScopeId \in Nat
    BY DEF Chain, Chained
  <2>2. scopes'[1] = scopes[1] /\ \A v : Named(scopes, nextScopeId, v) => Named(scopes', nextScopeId', v)
    BY <1>3, <2>1, <2>n, PushNames
  <2>3. Good(scopes', nextScopeId', code, labels, ids, todo', a2)
    BY <1>2, <1>3, <1>4, <1>5, <1>6, <2>2, QuietGood DEF PlaceGood
  <2>4. QED
    BY <1>1, <2>1, <2>3 DEF PlaceGood
<1>8. CASE PlaceLabel
  <2>1. scopes' = scopes /\ nextScopeId' = nextScopeId /\ labels' = [labels EXCEPT ![Call.label] = Len(code) + 1]
    BY <1>8 DEF PlaceLabel, Place
  <2>2. DOMAIN labels' = DOMAIN labels /\ \A l \in DOMAIN labels : labels'[l] = labels[l] \/ labels'[l] = Len(code) + 1
    BY <2>1
  <2>3. Good(scopes, nextScopeId, code, labels', ids, todo', a2)
    BY <1>2, <1>3, <1>4, <1>5, <1>6, <2>2, QuietGood DEF PlaceGood
  <2>4. QED
    BY <1>1, <2>1, <2>3 DEF PlaceGood
<1>9. QED
  BY <1>7, <1>8

\* An instruction that stores no variable of the program.
LEMMA PlainCallGood ==
  ASSUME NEW a, NEW lh, Flows(a, lh), PlaceGood(a), NoLoops, EmitIns \/ GetName, NEW a2, Linked(a, a2)
  PROVE  PlaceGood(a2)'
<1>1. /\ todo # <<>> /\ Head(todo).do \in {"ins", "load"}
      /\ scopes' = scopes /\ nextScopeId' = nextScopeId /\ labels' = labels /\ ids' = ids
  BY DEF EmitIns, GetName, LoadVar, Calls, Compiling, Emit
<1>2. PICK e : /\ code' = Append(code, e)
               /\ IF Head(todo).do = "ins" THEN e = Head(todo).ins ELSE e.op = "ldvar"
  <2>1. CASE EmitIns
    <3>1. code' = Append(code, Head(todo).ins) /\ Head(todo).do = "ins"
      BY <2>1 DEF EmitIns, Emit, Call, Calls
    <3>2. QED
      BY <3>1
  <2>2. CASE GetName
    <3>1. PICK e : e = [op |-> "ldvar", var |-> Get(scopes, Call.name), decl |-> DeclOf(scopes, Call.name)]
      OBVIOUS
    <3>2. code' = Append(code, e) /\ Head(todo).do = "load" /\ e.op = "ldvar"
      BY <2>2, <3>1 DEF GetName, LoadVar, Emit, Calls
    <3>3. QED
      BY <3>2
  <2>3. QED
    BY <2>1, <2>2
<1>3. /\ ~Merges0(todo) /\ ~Merges0(todo') /\ a2.r = 0 /\ a2.n = a.n
      /\ a2.o = IF Head(todo).do = "ins" /\ Head(todo).ins.op = "br" /\ a.r # 0
                THEN a.o \cup {<<a.r, Head(todo).ins.label>>} ELSE a.o
      /\ Head(todo).do = "ins" =>
           /\ Head(todo).ins.op \notin {"ldvar", "stvar"}
           /\ Jumping(Head(todo).ins) => Head(todo).ins.label \in a.u
  BY <1>1, CallLinked
<1>4. /\ IsSeq(code) /\ DOMAIN ids = Old /\ DOMAIN labels = Old /\ a.u = Pending /\ a.r \in {0} \cup Old
      /\ \A p \in a.o : p[1] \in Old
  BY PlaceFacts
<1>5. e.op # "stvar" /\ (Jumping(e) => e.label \in a.u)
      /\ a2.o = IF e.op = "br" /\ a.r # 0 THEN a.o \cup {<<a.r, e.label>>} ELSE a.o
  BY <1>1, <1>2, <1>3 DEF Jumping
<1>6. Jumping(e) => e.label \in DOMAIN labels /\ labels[e.label] = NoPos
  BY <1>4, <1>5 DEF Pending
<1>7. scopes[1].id = 0
  BY DEF PlaceGood, Good
<1>8. Good(scopes, nextScopeId, code', labels, ids, todo', a2)
  <2>1. \A v : Named(scopes, nextScopeId, v) => Named(scopes, nextScopeId, v)
    OBVIOUS
  <2>2. a.r \in {0} \cup DOMAIN ids /\ \A p \in a.o : p[1] \in DOMAIN ids
    BY <1>4
  <2>3. QED
    BY <1>2, <1>3, <1>4, <1>5, <1>6, <1>7, <2>1, <2>2, CodeGood DEF PlaceGood
<1>9. QED
  BY <1>1, <1>8 DEF PlaceGood

LEMMA BottomKept ==
  ASSUME NEW sc, IsSeq(sc), Len(sc) > 1, NEW k, NEW x, NEW phi, NEW count,
         NEW sc2, sc2 = RecordVar(sc, k, x, phi, count)
  PROVE  sc2[1] = sc[1] /\ IsSeq(sc2) /\ Len(sc2) = Len(sc)
<1>1. Len(sc) \in Nat
  BY SeqFacts
<1>2. sc # <<>> /\ 1 \in 1..Len(sc) /\ 1 # Len(sc)
  <2>1. \A n \in Nat : n > 1 => n # 0 /\ 1 # n /\ 1 \in 1..n
    OBVIOUS
  <2>2. Len(sc) # 0 /\ 1 \in 1..Len(sc) /\ 1 # Len(sc)
    BY <1>1, <2>1
  <2>3. QED
    BY <2>2, SeqFacts
<1>3. IsSeq(sc2) /\ Len(sc2) = Len(sc) /\ \A i \in 1..Len(sc) : i # Len(sc) => sc2[i] = sc[i]
  BY <1>2, Recording
<1>4. QED
  BY <1>2, <1>3

\* Declaring a name here, for the first time, gives it a name of its own.
LEMMA DeclareRenews ==
  ASSUME NEW sc, IsSeq(sc), Len(sc) > 1, NEW m, Chained(sc, m), NEW x \in Name, NEW mut, NEW d,
         x \notin DOMAIN sc[Len(sc)].vars,
         NEW sc1, sc1 = Bind(sc, x, mut), NEW sc2, sc2 = DeclaredAs(sc1, d)
  PROVE  Renewed(sc, sc2, m, Get(sc2, x)) /\ sc2[1].id = sc[1].id
<1>0. Len(sc) \in Nat
  BY SeqFacts
<1>1. /\ Renewed(sc, sc1, m, VarOf(sc1, Len(sc1), x))
      /\ IsSeq(sc1) /\ sc1 # <<>> /\ x \in DOMAIN sc1[Len(sc1)].vars
  BY BindRenews
<1>2. sc # <<>>
  <2>1. \A n \in Nat : n > 1 => n # 0
    OBVIOUS
  <2>2. QED
    BY <1>0, <2>1, SeqFacts
<1>3. Chained(sc1, m)
  BY <1>2, BindChained
<1>4. /\ IsSeq(sc2) /\ Len(sc2) = Len(sc1)
      /\ \A k \in 1..Len(sc1) : sc2[k].id = sc1[k].id /\ sc2[k].vars = sc1[k].vars
  BY <1>1, <1>3, DeclaredNames
<1>5. Len(sc1) \in 1..Len(sc1) /\ sc2 # <<>> /\ 1 \in 1..Len(sc1)
  BY <1>1, <1>4, SeqFacts
<1>6. Get(sc2, x) = VarOf(sc2, Len(sc2), x)
  BY <1>1, <1>4, <1>5, GetRecorded
<1>7. VarOf(sc2, Len(sc2), x) = VarOf(sc1, Len(sc1), x)
  BY <1>4, <1>5 DEF VarOf
<1>8. \A v : Named(sc1, m, v) => Named(sc2, m, v)
  BY <1>4 DEF Named
<1>9. Renewed(sc, sc2, m, Get(sc2, x))
  BY <1>1, <1>6, <1>7, <1>8 DEF Renewed
<1>10. sc1[1] = sc[1]
  <2>1. PICK k, phi, count : sc1 = RecordVar(sc, k, x, phi, count)
    BY BindRecords
  <2>2. QED
    BY <2>1, BottomKept
<1>11. QED
  BY <1>4, <1>5, <1>9, <1>10

\* A store to a variable of the program.
LEMMA StoreGood ==
  ASSUME NEW a, NEW lh, Flows(a, lh), PlaceGood(a), NoLoops,
         todo # <<>>, Head(todo).do \in {"store", "bind"}, NEW a2, Linked(a, a2),
         NEW x, Renewed(scopes, scopes', nextScopeId, Get(scopes', x)), scopes'[1].id = 0,
         nextScopeId' = nextScopeId, labels' = labels, ids' = ids,
         code' = Append(code, [op |-> "stvar", var |-> Get(scopes', x), decl |-> DeclOf(scopes', x)])
  PROVE  PlaceGood(a2)'
<1>1. PICK e : e = [op |-> "stvar", var |-> Get(scopes', x), decl |-> DeclOf(scopes', x)]
  OBVIOUS
<1>2. code' = Append(code, e) /\ e.op = "stvar" /\ Renewed(scopes, scopes', nextScopeId, e.var)
  BY <1>1
<1>3. ~Merges0(todo) /\ ~Merges0(todo') /\ a2.r = 0 /\ a2.n = a.n /\ a2.o = a.o
  BY CallLinked
<1>4. /\ IsSeq(code) /\ DOMAIN ids = Old /\ a.r \in {0} \cup Old
      /\ \A p \in a.o : p[1] \in Old
  BY PlaceFacts
<1>5. ~Jumping(e) /\ a2.o = IF e.op = "br" /\ a.r # 0 THEN a.o \cup {<<a.r, e.label>>} ELSE a.o
  BY <1>2, <1>3 DEF Jumping
<1>6. a.r \in {0} \cup DOMAIN ids /\ \A p \in a.o : p[1] \in DOMAIN ids
  BY <1>4
<1>7. \A v : Named(scopes, nextScopeId, v) => Named(scopes', nextScopeId, v)
  BY <1>2 DEF Renewed
<1>8. Good(scopes', nextScopeId, code', labels, ids, todo', a2)
  BY <1>2, <1>3, <1>4, <1>5, <1>6, <1>7, CodeGood DEF PlaceGood
<1>9. QED
  BY <1>8 DEF PlaceGood

LEMMA SetGood ==
  ASSUME NEW a, NEW lh, Flows(a, lh), PlaceGood(a), Chain, NoLoops, SetName, NEW a2, Linked(a, a2)
  PROVE  PlaceGood(a2)'
<1>1. PICK x : x = Call.name
  OBVIOUS
<1>2. /\ todo # <<>> /\ Head(todo).do = "store" /\ nextScopeId' = nextScopeId /\ labels' = labels /\ ids' = ids
      /\ scopes' = Set(scopes, x) /\ Known(scopes, x) /\ Mutable(scopes, x)
  BY <1>1 DEF SetName, StoreVar, StoredAs, Calls, Compiling, Storable, Loadable
<1>3. code' = Append(code, [op |-> "stvar", var |-> Get(scopes', x), decl |-> DeclOf(scopes', x)])
  BY <1>1 DEF SetName, StoreVar, StoredAs
<1>4. IsSeq(scopes) /\ Len(scopes) > 1 /\ Chained(scopes, nextScopeId)
  BY PlaceFacts DEF Chain
<1>5. Renewed(scopes, scopes', nextScopeId, Get(scopes', x))
  BY <1>2, <1>4, SetRenews
<1>6. scopes'[1] = scopes[1]
  <2>1. PICK k, phi, count : scopes' = RecordVar(scopes, k, x, phi, count)
    BY <1>2, SetRecords
  <2>2. QED
    BY <1>4, <2>1, BottomKept
<1>7. scopes'[1].id = 0
  BY <1>6 DEF PlaceGood, Good
<1>8. QED
  BY <1>2, <1>3, <1>5, <1>7, StoreGood

LEMMA BindGood ==
  ASSUME NEW a, NEW lh, Flows(a, lh), PlaceGood(a), Chain, NoLoops, ~Redeclares, BindNew, ~failed',
         NEW a2, Linked(a, a2)
  PROVE  PlaceGood(a2)'
<1>1. PICK x, mut : x = Call.name /\ BindVar(Call.name, mut)
  BY DEF BindNew
<1>2. PICK sc1 : sc1 = Bind(scopes, x, mut)
  OBVIOUS
<1>3. PICK d : d = With(sc1[Top(scopes)].decl, x, Len(code) + 1)
  OBVIOUS
<1>4. /\ todo # <<>> /\ Head(todo).do = "bind" /\ nextScopeId' = nextScopeId /\ labels' = labels /\ ids' = ids
      /\ x \notin DOMAIN scopes[Len(scopes)].vars
  BY <1>1 DEF BindNew, BindVar, StoredAs, Calls, Compiling, Top
<1>5. scopes' = [sc1 EXCEPT ![Len(scopes)].decl = d]
  BY <1>1, <1>2, <1>3 DEF BindVar, StoredAs, Top
<1>6. code' = Append(code, [op |-> "stvar", var |-> Get(scopes', x), decl |-> DeclOf(scopes', x)])
  BY <1>1 DEF BindVar, StoredAs
<1>7. IsSeq(scopes) /\ Len(scopes) > 1 /\ Chained(scopes, nextScopeId)
  BY PlaceFacts DEF Chain
<1>8. x \in Name
  BY <1>1, <1>4, CallNamed DEF Call
<1>9. Len(sc1) = Len(scopes)
  <2>1. PICK k, phi, count : sc1 = RecordVar(scopes, k, x, phi, count)
    BY <1>2, BindRecords
  <2>2. QED
    BY <1>7, <2>1, BottomKept
<1>10. scopes' = DeclaredAs(sc1, d)
  BY <1>5, <1>9 DEF DeclaredAs
<1>11. Renewed(scopes, scopes', nextScopeId, Get(scopes', x)) /\ scopes'[1].id = scopes[1].id
  BY <1>2, <1>4, <1>7, <1>8, <1>10, DeclareRenews
<1>12. scopes[1].id = 0
  BY DEF PlaceGood, Good
<1>13. QED
  BY <1>4, <1>6, <1>11, <1>12, StoreGood

\* A scope is popped.
LEMMA LeaveScopeGood ==
  ASSUME NEW a, NEW lh, Flows(a, lh), PlaceGood(a), NoLoops, LeaveScope, NEW a2, NEW lh2, Flows(a2, lh2)', Linked(a, a2)
  PROVE  PlaceGood(a2)'
<1>1. /\ todo # <<>> /\ Head(todo).do = "apply"
      /\ scopes' = Front(scopes) /\ nextScopeId' = nextScopeId /\ code' = code /\ labels' = labels /\ ids' = ids
  BY DEF LeaveScope, Calls, Compiling, PopScope
<1>2. PICK popped, left : todo' = Merging(popped, left, Head(todo).label, Head(todo).add) \o Tail(todo)
  BY DEF LeaveScope, Call
<1>3. PICK l, add : l = Head(todo).label /\ add = Head(todo).add
  OBVIOUS
<1>4. ~Merges0(todo)
  BY <1>1 DEF Merges0
<1>5. Merges0(todo') => Head(todo').label = l /\ Head(todo').add = add
  BY <1>1, <1>2, <1>3, MergingOnward DEF Merges0
<1>6. PICK c \in Points :
         /\ Discipline(Head(todo), a, c)
         /\ a2.r = c.r /\ a2.n = c.n
         /\ a2.o = IF todo' # <<>> /\ Head(todo').do = "merge" THEN a.o ELSE c.o
  BY <1>1 DEF Linked
<1>7. a2.o \subseteq a.o /\ IF l # 0 /\ add THEN l \in a.n /\ a2.r = l /\ a2.n = a.n \ {l} ELSE a2.r = 0 /\ a2.n = a.n
  BY <1>1, <1>3, <1>6 DEF Discipline
<1>8. IsSeq(scopes) /\ scopes # <<>>
  BY PlaceFacts
<1>9. Len(scopes') > 1
  <2>1. a2.d = Len(scopes') /\ a2.d # 0 /\ a2.d # 1
    BY DEF Flows, Points
  <2>2. Len(scopes') \in Nat
    BY <1>1, <1>8, FrontSeq, SeqFacts
  <2>3. \A n \in Nat : n # 0 /\ n # 1 => n > 1
    OBVIOUS
  <2>4. QED
    BY <2>1, <2>2, <2>3
<1>10. scopes'[1] = scopes[1] /\ \A v : Named(scopes, nextScopeId, v) => Named(scopes', nextScopeId, v)
  BY <1>1, <1>8, <1>9, FrontNames
<1>11. scopes'[1].id = 0
  BY <1>10 DEF PlaceGood, Good
<1>12. Good(scopes', nextScopeId, code, labels, ids, todo', a2)
  <2>1. Good(scopes, nextScopeId, code, labels, ids, todo, a)
    BY DEF PlaceGood
  <2>2. PICK td2 : td2 = todo'
    OBVIOUS
  <2>3. MergesFor(td2, l, add)
    BY <1>5, <2>2 DEF MergesFor
  <2>l. Leaves(a, a2, l, add)
    BY <1>7 DEF Leaves
  <2>4. \A v : Named(scopes, nextScopeId, v) => Named(scopes', nextScopeId, v)
    BY <1>10
  <2>5. Good(scopes', nextScopeId, code, labels, ids, td2, a2)
    BY <1>4, <1>11, <2>1, <2>3, <2>4, <2>l, LeaveGood
  <2>6. QED
    BY <2>2, <2>5
<1>13. QED
  BY <1>1, <1>12 DEF PlaceGood

\* What a round of applyScope merges, and how.
MergeOf(popped, l, add, x, key, ld, st) ==
  /\ key = <<popped.borrowed[x], x>> /\ ld.op = "ldvar" /\ st.op = "stvar" /\ code' = Copies(code, ld, st)
  /\ ids' = IF add THEN [ids EXCEPT ![l] = With(@, key, st.var)] ELSE ids
  /\ IF l # 0 /\ key \in DOMAIN ids[l]
     THEN scopes' = scopes /\ st.var = ids[l][key]
     ELSE scopes' = Phi(scopes, popped.borrowed[x], x) /\ st.var = VarOf(scopes', Len(scopes'), x)
  /\ nextScopeId' = nextScopeId /\ labels' = labels

LEMMA MergeIs ==
  ASSUME NEW popped, NEW l, NEW add, NEW x, Merge(popped, l, add, x), IsSeq(code)
  PROVE  \E key, ld, st : MergeOf(popped, l, add, x, key, ld, st)
<1>1. PICK key : key = <<popped.borrowed[x], x>>
  OBVIOUS
<1> DEFINE has == l # 0 /\ key \in DOMAIN ids[l]
           sc == IF has THEN scopes ELSE Phi(scopes, popped.borrowed[x], x)
           phi == IF has THEN ids[l][key] ELSE VarOf(sc, Top(sc), x)
<1>2. PICK ld : ld = [op |-> "ldvar", var |-> <<popped.id, x, popped.vars[x]>>, decl |-> NoDecl]
  OBVIOUS
<1>3. PICK st : st = [op |-> "stvar", var |-> phi, decl |-> NoDecl]
  OBVIOUS
<1>4. /\ scopes' = sc /\ code' = code \o <<ld, st>> /\ labels' = labels /\ nextScopeId' = nextScopeId
      /\ ids' = IF add THEN [ids EXCEPT ![l] = With(@, key, phi)] ELSE ids
  BY <1>1, <1>2, <1>3 DEF Merge
<1>5. code' = Copies(code, ld, st)
  BY <1>4, AppendTwo DEF Copies
<1>6. ld.op = "ldvar" /\ st.op = "stvar" /\ st.var = phi
  BY <1>2, <1>3
<1>7. IF has THEN scopes' = scopes /\ st.var = ids[l][key]
      ELSE scopes' = Phi(scopes, popped.borrowed[x], x) /\ st.var = VarOf(scopes', Len(scopes'), x)
  <2>1. CASE has
    BY <1>4, <1>6, <2>1
  <2>2. CASE ~has
    <3>1. scopes' = Phi(scopes, popped.borrowed[x], x)
      BY <1>4, <2>2
    <3>2. st.var = VarOf(sc, Len(sc), x)
      BY <1>6, <2>2 DEF Top
    <3>3. scopes' = sc
      BY <1>4
    <3> HIDE DEF sc
    <3>4. QED
      BY <2>2, <3>1, <3>2, <3>3
  <2>3. QED
    BY <2>1, <2>2
<1>8. ids' = IF add THEN [ids EXCEPT ![l] = With(@, key, st.var)] ELSE ids
  BY <1>4, <1>6
<1> HIDE DEF phi, sc
<1>9. MergeOf(popped, l, add, x, key, ld, st)
  BY <1>1, <1>4, <1>5, <1>6, <1>7, <1>8 DEF MergeOf
<1>10. QED
  BY <1>9

LEMMA MergeNameGood ==
  ASSUME NEW a, NEW lh, Flows(a, lh), PlaceGood(a), Chain, NoLoops, MergeName, NEW a2, Linked(a, a2)
  PROVE  PlaceGood(a2)'
<1>1. todo # <<>> /\ Head(todo).do = "merge"
  BY DEF MergeName, Calls, Compiling
<1>2. PICK popped, left, l, add : /\ popped = Head(todo).popped /\ left = Head(todo).left
                                  /\ l = Head(todo).label /\ add = Head(todo).add
  OBVIOUS
<1>3. PICK x \in left : /\ Merge(popped, l, add, x)
                        /\ todo' = Merging(popped, left \ {x}, l, add) \o Tail(todo)
  BY <1>2 DEF MergeName, Call
<1>4. /\ IsSeq(code) /\ IsSeq(scopes) /\ Len(scopes) > 1 /\ DOMAIN ids = Old /\ DOMAIN labels = Old /\ 0 \notin Old
      /\ a.u = Pending /\ a.n \subseteq Old /\ a.r \in {0} \cup Old /\ \A p \in a.o : p[1] \in Old
  BY PlaceFacts
<1>5. PICK key, ld, st : MergeOf(popped, l, add, x, key, ld, st)
  BY <1>3, <1>4, MergeIs
<1>6. /\ key = <<popped.borrowed[x], x>> /\ ld.op = "ldvar" /\ st.op = "stvar" /\ code' = Copies(code, ld, st)
      /\ nextScopeId' = nextScopeId /\ labels' = labels
  BY <1>5 DEF MergeOf
<1>7. PICK td, td2 : td = todo /\ td2 = todo'
  OBVIOUS
<1>8. Round(td, td2, l, add, left, x)
  <2>1. Merges0(td2) => Head(td2).label = l /\ Head(td2).add = add /\ Head(td2).left = left \ {x}
    BY <1>1, <1>3, <1>7, MergingOnward DEF Merges0
  <2>2. QED
    BY <1>1, <1>2, <1>7, <2>1 DEF Round, Merges0
<1>9. Good(scopes, nextScopeId, code, labels, ids, td, a) /\ scopes[1].id = 0 /\ MergesNew(ids, td)
  BY <1>7 DEF PlaceGood, Good
<1>10. PICK c \in Points :
         /\ Discipline(Head(todo), a, c)
         /\ a2.r = c.r /\ a2.n = c.n
         /\ a2.o = IF todo' # <<>> /\ Head(todo').do = "merge" THEN a.o ELSE c.o
  BY <1>1 DEF Linked
<1>11. /\ IF l # 0
          THEN IF add
               THEN c.r = l /\ c.o = a.o /\ l = a.r /\ c.n = a.n
               ELSE /\ c.r = 0 /\ c.n = a.n /\ c.o = {p \in a.o : p[1] # l}
                    /\ \E m \in a.u : <<l, m>> \in a.o
          ELSE c.r = 0 /\ c.n = a.n /\ c.o = a.o
  BY <1>1, <1>2, <1>10 DEF Discipline
<1>12. a2.o = IF Merges0(td2) THEN a.o ELSE c.o
  BY <1>7, <1>10 DEF Merges0
<1>13. a2.o \subseteq a.o /\ a2.n = a.n
  BY <1>10, <1>11, <1>12
<1>14. \A p \in a.o : p[1] \in DOMAIN ids
  BY <1>4
<1>15. key[2] = x
  BY <1>6
<1>16. CASE l # 0 /\ key \in DOMAIN ids[l]
  <2>1. ~add
    BY <1>1, <1>2, <1>3, <1>7, <1>9, <1>15, <1>16 DEF MergesNew
  <2>2. scopes' = scopes /\ st.var = ids[l][key] /\ ids' = ids
    BY <1>5, <1>16, <2>1 DEF MergeOf
  <2>3. PICK m \in a.u : <<l, m>> \in a.o
    BY <1>11, <1>16, <2>1
  <2>4. m \in DOMAIN labels /\ labels[m] = NoPos
    BY <1>4, <2>3 DEF Pending
  <2>5. l \in DOMAIN ids
    <3>1. PICK p : p = <<l, m>>
      OBVIOUS
    <3>2. p \in a.o /\ p[1] = l
      BY <2>3, <3>1
    <3>3. QED
      BY <1>14, <3>2
  <2>6. a2.r = 0 /\ (~Merges0(td2) => \A p \in a2.o : p[1] # l)
    BY <1>10, <1>11, <1>12, <1>16, <2>1
  <2>7. Good(scopes, nextScopeId, code', labels, ids, td2, a2)
    BY <1>4, <1>6, <1>8, <1>9, <1>13, <1>14, <1>15, <1>16, <2>1, <2>2, <2>3, <2>4, <2>5, <2>6, ReuseGood
  <2>8. QED
    BY <1>6, <1>7, <2>2, <2>7 DEF PlaceGood
<1>17. CASE ~(l # 0 /\ key \in DOMAIN ids[l])
  <2>1. scopes' = Phi(scopes, popped.borrowed[x], x) /\ st.var = VarOf(scopes', Len(scopes'), x)
    BY <1>5, <1>17 DEF MergeOf
  <2>2. /\ DOMAIN popped.borrowed \subseteq Name /\ left \subseteq DOMAIN popped.borrowed
        /\ Lent(scopes, Len(scopes) + 1, popped, left) /\ Chained(scopes, nextScopeId)
    BY <1>1, <1>2 DEF Chain, Merged
  <2>3. x \in Name
    BY <2>2
  <2>4. Renewed(scopes, scopes', nextScopeId, st.var)
    BY <1>4, <2>1, <2>2, <2>3, PhiRenews
  <2>5. scopes'[1].id = 0
    <3>1. PICK phi, count : scopes' = RecordVar(scopes, popped.borrowed[x], x, phi, count)
      BY <2>1, PhiRecords
    <3>2. scopes'[1] = scopes[1]
      BY <1>4, <3>1, BottomKept
    <3>3. QED
      BY <1>9, <3>2
  <2>6. CASE l # 0 /\ add
    <3>1. l = a.r /\ a2.r = l /\ l \in DOMAIN ids
      BY <1>4, <1>10, <1>11, <2>6
    <3>2. ids' = [ids EXCEPT ![l] = With(@, key, st.var)]
      BY <1>5, <2>6 DEF MergeOf
    <3>3. a.n \subseteq DOMAIN ids
      BY <1>4
    <3>4. Good(scopes', nextScopeId, code', labels, ids', td2, a2)
      BY <1>4, <1>6, <1>8, <1>9, <1>13, <1>14, <1>15, <2>4, <2>5, <2>6, <3>1, <3>2, <3>3, RecordGood, ZenonT(60)
    <3>5. QED
      BY <1>6, <1>7, <3>4 DEF PlaceGood
  <2>7. CASE ~(l # 0 /\ add)
    <3>1. ids' = ids
      <4>1. CASE ~add
        BY <1>5, <4>1 DEF MergeOf
      <4>2. CASE l = 0
        <5>1. l \notin DOMAIN ids
          BY <1>4, <4>2
        <5>2. [ids EXCEPT ![l] = With(@, key, st.var)] = ids
          <6>1. PICK S : ids \in Seq(S)
            BY PlaceFacts DEF IsSeq
          <6>2. QED
            BY <5>1, <6>1
        <5>3. QED
          BY <1>5, <5>2 DEF MergeOf
      <4>3. QED
        BY <2>7, <4>1, <4>2
    <3>2. a2.r = 0
      BY <1>10, <1>11, <2>7
    <3>3. ~Merges0(td2) => \A p \in a2.o : p[1] # l
      BY <1>4, <1>11, <1>12, <2>7
    <3>4. Good(scopes', nextScopeId, code', labels, ids, td2, a2)
      BY <1>4, <1>6, <1>8, <1>9, <1>13, <1>14, <2>4, <2>5, <2>7, <3>2, <3>3, MergeGood
    <3>5. QED
      BY <1>6, <1>7, <3>1, <3>4 DEF PlaceGood
  <2>8. QED
    BY <2>6, <2>7
<1>18. QED
  BY <1>16, <1>17

\* As long as no error is thrown.
Tracked == ~failed => \E a, lh : Flows(a, lh) /\ PlaceGood(a)

LEMMA InitTracked ==
  ASSUME CompilerInit
  PROVE  Tracked
<1>1. PICK a, lh : Flows(a, lh) /\ a.h = 0 /\ a.r = 0 /\ a.o = {} /\ a.n = {}
  BY InitFlows
<1>2. PICK params : FunctionInit(params)
  BY DEF CompilerInit
<1>3. code = <<>> /\ ids = <<>>
  BY <1>2 DEF FunctionInit
<1>4. Len(code) = 0 /\ DOMAIN ids = {}
  BY <1>3, NothingSeq, NoNames
<1>5. \A i \in 1..Len(code) : FALSE
  BY <1>4
<1>6. scopes[1].id = 0
  <2>1. PICK s, t : s = [Scope(0) EXCEPT !.vars = [x \in params |-> <<0, COUNT_CONST>>], !.decl = [x \in params |-> 0]]
                    /\ t = Scope(1)
    OBVIOUS
  <2>2. scopes = <<s, t>>
    BY <1>2, <2>1 DEF FunctionInit
  <2>3. DOMAIN Scope(0) = Fields /\ Scope(0).id = 0
    BY ScopeIs
  <2>4. s.id = 0
    BY <2>1, <2>3 DEF Fields
  <2>5. QED
    BY <2>2, <2>4
<1>7. ~Merges0(todo)
  BY InitChain, <1>1 DEF CompilerInit, Merges0, Node
<1>8. Parted(code, labels) /\ Forward(code, labels)
  BY <1>5 DEF Parted, Forward
<1>9. Numbered(scopes, nextScopeId, code, ids) /\ Distinct(ids) /\ Waits(ids, a)
  BY <1>1, <1>4, <1>5 DEF Numbered, Taken, Distinct, Waits
<1>10. OpenAt(code, ids, a) /\ SealedAt(code, ids, todo, a) /\ MergesNew(ids, todo)
  BY <1>1, <1>7 DEF OpenAt, SealedAt, MergesNew, Merges0
<1>11. PlaceGood(a)
  BY <1>6, <1>8, <1>9, <1>10 DEF PlaceGood, Good
<1>12. QED
  BY <1>1, <1>11 DEF Tracked

LEMMA CompileTracked ==
  ASSUME NoLoops, ~Redeclares, Tracked, Chain, Compile
  PROVE  Tracked'
<1> SUFFICES ASSUME ~failed' PROVE \E a, lh : Flows(a, lh)' /\ PlaceGood(a)'
  BY DEF Tracked
<1>1. EmitNode \/ MakeCall
  BY DEF Compile, Error
<1>2. ~failed
  BY <1>1 DEF EmitNode, MakeCall, Compiling, Calls,
    LoadLiteral, LoadIdentifier, LoadXInfix, LoadXUnary, LoadInc, LoadXMsg, LoadTuple, LoadXParen,
    LoadXBlock, LoadXControl, EmitStmts, EmitExpr, EmitDecl, EmitAssign, LoadAssignValue, EmitBinding,
    EmitIf, EmitLoop, EmitReturn, Emitting, EmitIns, GetName, SetName, BindNew, EnterScope, LeaveScope,
    MergeName, OwnIds, PlaceLabel
<1>3. PICK a, lh : Flows(a, lh) /\ PlaceGood(a)
  BY <1>2 DEF Tracked
<1>4. PICK a2, lh2 : Flows(a2, lh2)' /\ Linked(a, a2)
  BY <1>1, <1>3, CompileFlows
<1>5. PlaceGood(a2)'
  <2>1. CASE EmitNode
    BY <1>3, <1>4, <2>1, NodeGood
  <2>2. CASE EnterScope \/ PlaceLabel
    BY <1>3, <1>4, <2>2, QuietCallGood
  <2>3. CASE EmitIns \/ GetName
    BY <1>3, <1>4, <2>3, PlainCallGood
  <2>4. CASE SetName
    BY <1>3, <1>4, <2>4, SetGood
  <2>5. CASE BindNew
    BY <1>3, <1>4, <2>5, BindGood
  <2>6. CASE LeaveScope
    BY <1>3, <1>4, <2>6, LeaveScopeGood
  <2>7. CASE MergeName
    BY <1>3, <1>4, <2>7, MergeNameGood
  <2>8. CASE OwnIds
    <3>1. todo # <<>> /\ Head(todo).do = "own"
      BY <2>8 DEF OwnIds, Calls, Compiling
    <3>2. QED
      BY <1>4, <3>1, CallLinked
  <2>9. QED
    BY <1>1, <2>1, <2>2, <2>3, <2>4, <2>5, <2>6, <2>7, <2>8 DEF MakeCall
<1>6. QED
  BY <1>4, <1>5

\* From p on, no path that does not jump back stores v again.
Meets(cd, lb, p, v) ==
  \A j \in p..Len(cd) : Stores(cd, j, v) =>
    \E b \in p..j - 1 : \E m : LeavesAt(cd, p - 1, b, m) /\ Behind(lb, m, j)

LEMMA MeetsOn ==
  ASSUME NEW cd, Len(cd) \in Nat, NEW lb, NEW p \in Nat, NEW v, Meets(cd, lb, p, v), cd[p].op # "br"
  PROVE  Meets(cd, lb, p + 1, v)
<1> SUFFICES ASSUME NEW j \in p + 1..Len(cd), Stores(cd, j, v)
             PROVE  \E b \in p + 1..j - 1 : \E m : LeavesAt(cd, (p + 1) - 1, b, m) /\ Behind(lb, m, j)
  BY DEF Meets
<1>1. j \in p..Len(cd)
  OBVIOUS
<1>2. PICK b \in p..j - 1 : \E m : LeavesAt(cd, p - 1, b, m) /\ Behind(lb, m, j)
  BY <1>1 DEF Meets
<1>3. PICK m : LeavesAt(cd, p - 1, b, m) /\ Behind(lb, m, j)
  BY <1>2
<1>4. /\ b \in (p - 1) + 1..Len(cd) /\ cd[b].op = "br" /\ cd[b].label = m
      /\ \A k \in (p - 1) + 1..b - 1 : Straight(cd[k])
  BY <1>3 DEF LeavesAt
<1>5. b # p
  BY <1>4
<1>6. /\ b \in p + 1..j - 1 /\ b \in ((p + 1) - 1) + 1..Len(cd)
      /\ \A k \in ((p + 1) - 1) + 1..b - 1 : k \in (p - 1) + 1..b - 1
  BY <1>4, <1>5
<1>7. LeavesAt(cd, (p + 1) - 1, b, m)
  BY <1>4, <1>6 DEF LeavesAt
<1>8. QED
  BY <1>3, <1>6, <1>7

LEMMA MeetsJump ==
  ASSUME NEW cd, Len(cd) \in Nat, NEW lb, NEW p \in Nat, NEW v, Meets(cd, lb, p, v), Jumping(cd[p]),
         NEW q \in Nat, q > p, cd[p].op = "br" => lb[cd[p].label] = q
  PROVE  Meets(cd, lb, q, v)
<1> SUFFICES ASSUME NEW j \in q..Len(cd), Stores(cd, j, v) PROVE FALSE
  BY DEF Meets
<1>1. j \in p..Len(cd)
  OBVIOUS
<1>2. PICK b \in p..j - 1 : \E m : LeavesAt(cd, p - 1, b, m) /\ Behind(lb, m, j)
  BY <1>1 DEF Meets
<1>3. PICK m : LeavesAt(cd, p - 1, b, m) /\ Behind(lb, m, j)
  BY <1>2
<1>4. /\ b \in (p - 1) + 1..Len(cd) /\ cd[b].op = "br" /\ cd[b].label = m
      /\ \A k \in (p - 1) + 1..b - 1 : Straight(cd[k])
  BY <1>3 DEF LeavesAt
<1>5. ~Straight(cd[p])
  BY DEF Straight, Jumping
<1>6. p \in (p - 1) + 1..b - 1 \/ b = p
  BY <1>4
<1>7. b = p
  BY <1>4, <1>5, <1>6
<1>8. lb[m] = q
  BY <1>4, <1>7
<1>9. lb[m] = NoPos \/ lb[m] > j
  BY <1>3 DEF Behind
<1>10. QED
  BY <1>8, <1>9, NoPosFacts

LEMMA MeetsStored ==
  ASSUME NEW cd, Len(cd) \in Nat, NEW lb, Parted(cd, lb), NEW p \in 1..Len(cd), NEW v, Stores(cd, p, v)
  PROVE  Meets(cd, lb, p + 1, v)
<1> SUFFICES ASSUME NEW j \in p + 1..Len(cd), Stores(cd, j, v)
             PROVE  \E b \in p + 1..j - 1 : \E m : LeavesAt(cd, (p + 1) - 1, b, m) /\ Behind(lb, m, j)
  BY DEF Meets
<1>1. j \in 1..Len(cd) /\ p < j /\ (p + 1) - 1 = p
  OBVIOUS
<1>2. PICK b \in 1..j - 1 : \E m : LeavesAt(cd, p, b, m) /\ Behind(lb, m, j)
  BY <1>1 DEF Parted
<1>3. PICK m : LeavesAt(cd, p, b, m) /\ Behind(lb, m, j)
  BY <1>2
<1>4. b \in p + 1..j - 1
  BY <1>3 DEF LeavesAt
<1>5. QED
  BY <1>1, <1>3, <1>4

Once == pc # 0 => \A v \in DOMAIN stored : Meets(code, labels, pc, v)

LEMMA TrackedFacts ==
  ASSUME Tracked, Compiled
  PROVE  /\ Parted(code, labels) /\ Forward(code, labels) /\ scopes[1].id = 0
         /\ \A v : \A j \in 1..Len(code) : Stores(code, j, v) => v[1] # 0
<1>1. PICK a, lh : Flows(a, lh) /\ PlaceGood(a)
  BY DEF Tracked, Compiled
<1>2. /\ Parted(code, labels) /\ Forward(code, labels) /\ scopes[1].id = 0
      /\ Numbered(scopes, nextScopeId, code, ids)
  BY <1>1 DEF PlaceGood, Good
<1>3. ASSUME NEW v, NEW j \in 1..Len(code), Stores(code, j, v) PROVE v[1] # 0
  <2>1. Taken(code, ids, v)
    BY <1>3 DEF Taken
  <2>2. v \in (1..nextScopeId - 1) \X Name \X Counts
    BY <1>2, <2>1 DEF Numbered, Named
  <2>3. v[1] \in 1..nextScopeId - 1
    BY <2>2
  <2>4. QED
    BY <2>3
<1>4. QED
  BY <1>2, <1>3

LEMMA StartOnce ==
  ASSUME Sound, Tracked, Start
  PROVE  Once'
<1>1. Compiled /\ pc' = 1 /\ code' = code /\ labels' = labels
      /\ stored' = [v \in {VarOf(scopes, 1, x) : x \in Params} |-> 0]
  BY DEF Start, compiler, function
<1>2. scopes[1].id = 0 /\ \A v : \A j \in 1..Len(code) : Stores(code, j, v) => v[1] # 0
  BY <1>1, TrackedFacts
<1>3. \A v \in DOMAIN stored' : v[1] = 0
  BY <1>1, <1>2 DEF VarOf
<1>4. ASSUME NEW v \in DOMAIN stored' PROVE Meets(code, labels, 1, v)
  BY <1>2, <1>3 DEF Meets
<1>5. QED
  BY <1>1, <1>4 DEF Once

LEMMA ExecuteOnce ==
  ASSUME Sound, Tracked, Once, Execute
  PROVE  Once'
<1>1. pc # 0 /\ Compiled /\ pc \in 1..Len(code) /\ code' = code /\ labels' = labels
  BY DEF Execute, Sound, Running, compiler, function
<1>2. WellFormed
  BY <1>1, CompiledWell DEF Sound
<1>3. Len(code) \in Nat /\ pc \in Nat /\ pc + 1 \in Nat
  BY <1>1, <1>2 DEF WellFormed
<1>4. Parted(code, labels) /\ Forward(code, labels)
  BY <1>1, TrackedFacts
<1>5. \A v \in DOMAIN stored : Meets(code, labels, pc, v)
  BY <1>1 DEF Once
<1>6. ASSUME Instr.op # "br", pc' = pc + 1, stored' = stored PROVE Once'
  <2>1. \A v \in DOMAIN stored : Meets(code, labels, pc + 1, v)
    BY <1>3, <1>5, <1>6, MeetsOn DEF Instr
  <2>2. QED
    BY <1>1, <1>6, <2>1 DEF Once
<1>7. ASSUME Jumping(Instr), pc' = labels[Instr.label], stored' = stored PROVE Once'
  <2>1. Behind(labels, Instr.label, pc)
    BY <1>1, <1>4, <1>7 DEF Forward, Instr
  <2>d. DOMAIN labels = Old
    BY <1>1, PlaceFacts DEF Tracked, Compiled
  <2>2. labels[Instr.label] \in 1..Len(code)
    BY <1>2, <2>1, <2>d DEF Behind, WellFormed
  <2>3. PICK q : q = labels[Instr.label]
    OBVIOUS
  <2>4. q \in Nat /\ q > pc
    BY <1>3, <2>1, <2>2, <2>3, NoPosFacts DEF Behind
  <2>5. \A v \in DOMAIN stored : Meets(code, labels, q, v)
    BY <1>3, <1>5, <1>7, <2>3, <2>4, MeetsJump DEF Instr
  <2>6. QED
    BY <1>1, <1>7, <2>3, <2>5 DEF Once
<1>8. CASE Operate \/ DupOrPop \/ Ldvar
  BY <1>6, <1>8 DEF Operate, DupOrPop, Ldvar
<1>9. CASE Stvar
  <2>1. Instr.op = "stvar" /\ stored' = With(stored, Instr.var, Head(operands)) /\ pc' = pc + 1
    BY <1>9 DEF Stvar
  <2>2. Stores(code, pc, Instr.var)
    BY <1>1, <2>1 DEF Stores, Instr
  <2>3. Meets(code, labels, pc + 1, Instr.var)
    BY <1>1, <1>3, <1>4, <2>2, MeetsStored
  <2>4. \A v \in DOMAIN stored : Meets(code, labels, pc + 1, v)
    BY <1>3, <1>5, <2>1, MeetsOn DEF Instr
  <2>5. DOMAIN stored' = DOMAIN stored \cup {Instr.var}
    <3>1. PICK v, h : v = Instr.var /\ h = Head(operands)
      OBVIOUS
    <3>2. stored' = With(stored, v, h)
      BY <2>1, <3>1
    <3>3. DOMAIN With(stored, v, h) = DOMAIN stored \cup {v}
      BY DEF With
    <3>4. QED
      BY <3>1, <3>2, <3>3
  <2>6. \A v \in DOMAIN stored' : Meets(code, labels, pc + 1, v)
    BY <2>3, <2>4, <2>5
  <2>7. QED
    BY <1>1, <2>1, <2>6 DEF Once
<1>10. CASE Br
  BY <1>7, <1>10 DEF Br, Jumping
<1>11. CASE Bez
  <2>1. Jumping(Instr) /\ Instr.op # "br" /\ pc' \in {pc + 1, labels[Instr.label]} /\ stored' = stored
    BY <1>11 DEF Bez, Jumping
  <2>2. QED
    BY <1>6, <1>7, <2>1
<1>12. QED
  BY <1>8, <1>9, <1>10, <1>11 DEF Execute

LEMMA StoresOnce ==
  ASSUME Sound, Once
  PROVE  SingleAssignment
<1> SUFFICES ASSUME At("stvar"), Instr.var \in DOMAIN stored PROVE FALSE
  BY DEF SingleAssignment
<1>1. pc # 0 /\ Instr.op = "stvar" /\ pc \in 1..Len(code)
  BY DEF At, Sound, Running
<1>2. Stores(code, pc, Instr.var)
  BY <1>1 DEF Stores, Instr
<1>3. Meets(code, labels, pc, Instr.var)
  BY <1>1 DEF Once
<1>4. pc \in pc..Len(code) /\ \A b \in pc..pc - 1 : FALSE
  BY <1>1
<1>5. QED
  BY <1>2, <1>3, <1>4 DEF Meets

LEMMA TrackedSame ==
  ASSUME Tracked, UNCHANGED compiler
  PROVE  Tracked'
<1>1. /\ scopes' = scopes /\ nextScopeId' = nextScopeId /\ code' = code /\ labels' = labels /\ ids' = ids
      /\ todo' = todo /\ failed' = failed
  BY DEF compiler, function
<1>2. SUFFICES ASSUME ~failed' PROVE \E a, lh : Flows(a, lh)' /\ PlaceGood(a)'
  BY DEF Tracked
<1>3. PICK a, lh : Flows(a, lh) /\ PlaceGood(a)
  BY <1>1, <1>2 DEF Tracked
<1>4. Pending' = Pending /\ Old' = Old
  BY <1>1 DEF Pending, Old
<1>5. Ahead(a, lh)' <=> Ahead(a, lh)
  BY <1>1 DEF Ahead
<1>6. Flows(a, lh)'
  BY <1>1, <1>3, <1>4, <1>5 DEF Flows
<1>7. PlaceGood(a)'
  BY <1>1, <1>3 DEF PlaceGood
<1>8. QED
  BY <1>6, <1>7

LEMMA OnceNext ==
  ASSUME NoLoops, ~Redeclares, Sound, Chain, Tracked, Once, [Next]_vars
  PROVE  Tracked' /\ Once'
<1>1. CASE CompileNext
  <2>1. Tracked'
    BY <1>1, CompileTracked DEF CompileNext
  <2>2. pc' = 0
    <3>1. ~Compiled
      BY <1>1 DEF CompileNext, Compile, EmitNode, MakeCall, Error, Compiled, Calls, Compiling,
         LoadLiteral, LoadIdentifier, LoadXInfix, LoadXUnary, LoadInc, LoadXMsg, LoadTuple, LoadXParen,
         LoadXBlock, LoadXControl, EmitStmts, EmitExpr, EmitDecl, EmitAssign, LoadAssignValue, EmitBinding,
         EmitIf, EmitLoop, EmitReturn, Emitting, EmitIns, GetName, SetName, BindNew, EnterScope, LeaveScope,
         MergeName, OwnIds, PlaceLabel
    <3>2. pc = 0
      BY <3>1 DEF Sound, Running
    <3>3. QED
      BY <1>1, <3>2 DEF CompileNext, path
  <2>3. QED
    BY <2>1, <2>2 DEF Once
<1>2. CASE Start
  BY <1>2, StartOnce, TrackedSame DEF Start
<1>3. CASE Execute
  BY <1>3, ExecuteOnce, TrackedSame DEF Execute
<1>4. CASE UNCHANGED vars
  <2>1. /\ UNCHANGED compiler /\ code' = code /\ labels' = labels /\ pc' = pc /\ stored' = stored
    BY <1>4 DEF vars, compiler, function, path
  <2>2. Once'
    BY <2>1 DEF Once
  <2>3. QED
    BY <2>1, <2>2, TrackedSame
<1>5. QED
  BY <1>1, <1>2, <1>3, <1>4 DEF Next, Terminated

LEMMA JumpsForward ==
  ASSUME Sound, Tracked, Compiled
  PROVE  Loopless
<1>1. WellFormed /\ Forward(code, labels) /\ DOMAIN labels = Old
  BY CompiledWell, TrackedFacts, PlaceFacts DEF Sound, Tracked, Compiled
<1>2. IsSeq(code) /\ Len(code) \in Nat /\ DOMAIN code = 1..Len(code)
  BY <1>1 DEF WellFormed, IsSeq
<1>3. SUFFICES ASSUME NEW k \in 1..Len(code), NEW n \in Successors(k) PROVE n > k
  BY <1>2 DEF Loopless
<1>4. CASE n = k + 1
  BY <1>2, <1>4
<1>5. CASE code[k].op \in {"br", "bez", "bnz"} /\ n = labels[code[k].label]
  <2>1. Behind(labels, code[k].label, k)
    BY <1>1, <1>5 DEF Forward, Jumping
  <2>2. labels[code[k].label] \in 1..Len(code)
    BY <1>1, <2>1 DEF Behind, WellFormed
  <2>3. QED
    BY <1>5, <2>1, <2>2, NoPosFacts DEF Behind
<1>6. QED
  BY <1>4, <1>5 DEF Successors

\* Without the looping half of emitSControl every jump leads forward: what NeverStale
\* and SingleAssignment suppose of the code is true of every program without loops.
THEOREM JumpsCorrect == ASSUME NoLoops, ~Redeclares PROVE Spec => [](pc # 0 => Loopless)
<1>1. Init => Tracked /\ Once
  BY InitTracked DEF Init, Once
<1>2. Sound /\ Chain /\ Tracked /\ Once /\ [Next]_vars => (Tracked /\ Once)'
  BY OnceNext
<1>3. Sound /\ Tracked => (pc # 0 => Loopless)
  BY JumpsForward DEF Sound, Running
<1>4. QED
  BY <1>1, <1>2, <1>3, Chains, PTL DEF Spec

\* The numbering of assembleName and the variables the branches of a construct
\* share: no path stores a variable of the bytecode twice, if the program has no
\* loops and declares no name twice in a scope.
THEOREM SingleCorrect == ASSUME NoLoops, ~Redeclares PROVE Spec => []SingleAssignment
<1>1. Init => Tracked /\ Once
  BY InitTracked DEF Init, Once
<1>2. Sound /\ Chain /\ Tracked /\ Once /\ [Next]_vars => (Tracked /\ Once)'
  BY OnceNext
<1>3. Sound /\ Once => SingleAssignment
  BY StoresOnce
<1>4. QED
  BY <1>1, <1>2, <1>3, Chains, PTL DEF Spec
=============================================================================
