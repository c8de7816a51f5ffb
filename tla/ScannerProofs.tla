---------------------------- MODULE ScannerProofs ----------------------------
(***************************************************************************)
(* The stacks of the scanner agree with one another in files of any        *)
(* length.  The invariant is the shape of the stack of conditions: the     *)
(* first is INITIAL, which is never pushed; the second is any other; a     *)
(* third there is in a prae block only.                                    *)
(***************************************************************************)
EXTENDS Scanner, FiniteSetTheorems, SequenceTheorems, TLAPS

\* The conditions the rules push in a prae block.
Inner == Literal \cup {"BComment", "EscapedID"}

Shape ==
  /\ stack \in Seq(Condition) /\ Len(stack) \in 1..3
  /\ stack[1] = "INITIAL"
  /\ Len(stack) > 1 => stack[2] # "INITIAL"
  /\ Len(stack) = 3 => stack[2] = "PraeBlock" /\ stack[3] \in Inner

\* There is a buffer exactly when the current condition writes to it.
Buffered ==
  \/ eof /\ YY_START = "RawBlock"
  \/ /\ bufs = IF YY_START \in Buffering THEN 1 ELSE 0
     /\ pc # "undefined"

InPrae == Len(stack) > 1 /\ stack[2] = "PraeBlock"

Flags ==
  /\ bufs \in 0..1
  /\ pc \in {"scan", "ended", "fatal", "undefined"}
  /\ failed \in BOOLEAN /\ eof \in BOOLEAN /\ block \in BOOLEAN /\ stray \in BOOLEAN
  /\ lexemes \in 0..MaxLexemes

Inv ==
  /\ Shape /\ Flags /\ Buffered
  /\ pc = "scan" /\ ~stray => (block <=> InPrae)
  /\ pc = "fatal" => stray

-----------------------------------------------------------------------------
(* What the operations on the stack of conditions do to it.                *)

\* The current condition is INITIAL exactly at the bottom of the stack.
LEMMA ShapeFacts ==
  ASSUME Shape
  PROVE  /\ Len(stack) \in {1, 2, 3} /\ YY_START = stack[Len(stack)]
         /\ YY_START \in Condition
         /\ Len(stack) = 1 <=> YY_START = "INITIAL"
         /\ YY_START = "PraeBlock" <=> Len(stack) = 2 /\ InPrae
         /\ Len(stack) = 3 => YY_START \in Inner /\ InPrae
<1>1. Len(stack) \in {1, 2, 3}
  BY DEF Shape
<1>2. YY_START = stack[Len(stack)]
  BY DEF YY_START, Last
<1>3. YY_START \in Condition
  BY <1>1, <1>2, ElementOfSeq DEF Shape
<1>4. QED
  BY <1>1, <1>2, <1>3 DEF Shape, InPrae, Inner, Literal

\* yy_push_state.
LEMMA PushedShape ==
  ASSUME Shape, NEW c \in Condition, stack' = Pushed(c),
         c # "INITIAL", Len(stack) = 1 \/ (Len(stack) = 2 /\ InPrae /\ c \in Inner)
  PROVE  Shape' /\ YY_START' = c /\ Len(stack)' = Len(stack) + 1
         /\ (InPrae' <=> InPrae \/ c = "PraeBlock")
<1>1. /\ stack' \in Seq(Condition) /\ Len(stack') = Len(stack) + 1
      /\ \A k \in 1..Len(stack) : stack'[k] = stack[k]
      /\ stack'[Len(stack) + 1] = c
  BY AppendProperties DEF Shape, Pushed
<1>2. YY_START' = c
  BY <1>1 DEF YY_START, Last
<1>3. CASE Len(stack) = 1
  <2>1. Len(stack') = 2 /\ stack'[1] = "INITIAL" /\ stack'[2] = c
    BY <1>1, <1>3 DEF Shape
  <2>2. QED BY <1>1, <1>2, <1>3, <2>1 DEF Shape, InPrae
<1>4. CASE Len(stack) = 2 /\ InPrae /\ c \in Inner
  <2>1. Len(stack') = 3 /\ stack'[1] = "INITIAL" /\ stack'[2] = "PraeBlock" /\ stack'[3] = c
    BY <1>1, <1>4 DEF Shape, InPrae
  <2>2. QED BY <1>1, <1>2, <1>4, <2>1 DEF Shape, InPrae
<1>5. QED BY <1>3, <1>4

\* yy_pop_state.
LEMMA PoppedShape ==
  ASSUME Shape, stack' = Popped
  PROVE  /\ Shape'
         /\ Len(stack)' = IF Len(stack) = 1 THEN 1 ELSE Len(stack) - 1
         /\ YY_START' = IF Len(stack) = 3 THEN "PraeBlock" ELSE "INITIAL"
         /\ InPrae' <=> Len(stack) = 3
<1>1. CASE Len(stack) = 1
  <2>1. stack' = stack
    BY <1>1 DEF Popped, Underflow
  <2>2. Len(stack)' = 1 /\ stack'[Len(stack)'] = "INITIAL"
    BY <1>1, <2>1 DEF Shape
  <2>3. Shape'
    BY <2>1 DEF Shape
  <2>4. YY_START' = "INITIAL"
    BY <2>2 DEF YY_START, Last
  <2>5. ~InPrae'
    BY <2>2 DEF InPrae
  <2>6. QED BY <1>1, <2>2, <2>3, <2>4, <2>5
<1>2. CASE Len(stack) # 1
  <2>1. stack' = SubSeq(stack, 1, Len(stack) - 1)
    BY <1>2 DEF Popped, Underflow, Front
  <2>2. Len(stack) \in {2, 3} /\ Len(stack) - 1 \in Int
    BY <1>2 DEF Shape
  <2>3. \A k \in 1..Len(stack) - 1 : stack[k] \in Condition
    BY <2>2, ElementOfSeq DEF Shape
  <2>4. /\ stack' \in Seq(Condition) /\ Len(stack') = Len(stack) - 1
        /\ \A k \in 1..Len(stack) - 1 : stack'[k] = stack[k]
    <3> DEFINE n == Len(stack) - 1
    <3>1. n \in Int /\ 1 <= n
      BY <2>2
    <3> HIDE DEF n
    <3>2. /\ SubSeq(stack, 1, n) \in Seq(Condition)
          /\ Len(SubSeq(stack, 1, n)) = IF 1 <= n THEN n - 1 + 1 ELSE 0
          /\ \A i \in 1..n - 1 + 1 : SubSeq(stack, 1, n)[i] = stack[1 + i - 1]
      BY <2>3, <3>1, SubSeqProperties DEF n
    <3>3. QED BY <2>1, <3>1, <3>2 DEF n
  <2>5. CASE Len(stack) = 2
    BY <2>4, <2>5 DEF Shape, YY_START, Last, InPrae
  <2>6. CASE Len(stack) = 3
    BY <2>4, <2>6 DEF Shape, YY_START, Last, InPrae
  <2>7. QED BY <2>2, <2>5, <2>6
<1>3. QED BY <1>1, <1>2

\* BEGIN.
LEMMA BegunShape ==
  ASSUME Shape, NEW c \in Condition, stack' = Begun(c), c # "INITIAL", Len(stack) = 2
  PROVE  Shape' /\ YY_START' = c /\ Len(stack)' = 2 /\ (InPrae' <=> c = "PraeBlock")
<1> DEFINE front == Front(stack)
<1>1. /\ front \in Seq(Condition) /\ Len(front) = 1 /\ front[1] = "INITIAL"
  <2>1. \A k \in 1..1 : stack[k] \in Condition
    <3>1. 1 \in 1..Len(stack)
      BY DEF Shape
    <3>2. stack[1] \in Condition
      BY <3>1, ElementOfSeq DEF Shape
    <3>3. QED BY <3>2
  <2>2. front = SubSeq(stack, 1, 1)
    BY DEF Front
  <2>3. /\ SubSeq(stack, 1, 1) \in Seq(Condition) /\ Len(SubSeq(stack, 1, 1)) = 1
        /\ SubSeq(stack, 1, 1)[1] = stack[1]
    BY <2>1, SubSeqProperties
  <2>4. QED BY <2>2, <2>3 DEF Shape
<1> HIDE DEF front
<1>2. /\ stack' \in Seq(Condition) /\ Len(stack') = 2
      /\ stack'[1] = "INITIAL" /\ stack'[2] = c
  <2>1. stack' = Append(front, c)
    BY DEF Begun, front
  <2>2. /\ Append(front, c) \in Seq(Condition) /\ Len(Append(front, c)) = Len(front) + 1
        /\ \A k \in 1..Len(front) : Append(front, c)[k] = front[k]
        /\ Append(front, c)[Len(front) + 1] = c
    <3>1. front \in Seq(Condition)
      BY <1>1
    <3>2. QED BY <3>1, AppendProperties
  <2>3. QED BY <1>1, <2>1, <2>2
<1>3. QED
  BY <1>2 DEF Shape, YY_START, Last, InPrae

-----------------------------------------------------------------------------
(* The invariant.                                                          *)

\* SSStart lies over INITIAL when the scanner begins.
LEMMA InitInv == Init => Inv
<1> SUFFICES ASSUME Init PROVE Inv
  OBVIOUS
<1>1. Len(stack) = 2 /\ stack[1] = "INITIAL" /\ stack[2] = "Start"
  BY DEF Init
<1>2. stack \in Seq(Condition)
  BY DEF Init, Condition, Code
<1>3. Shape /\ YY_START = "Start" /\ ~InPrae
  BY <1>1, <1>2 DEF Shape, YY_START, Last, InPrae
<1>4. Flags
  <2>1. lexemes \in 0..MaxLexemes /\ bufs \in 0..1
    BY ScannerAssumption DEF Init
  <2>2. QED BY <2>1 DEF Init, Flags
<1>5. QED
  BY <1>3, <1>4 DEF Init, Inv, Buffered, Buffering, Literal

\* What a rule that reads a lexeme may rely on.
LEMMA Reading ==
  ASSUME Inv, NEW C, Lexeme(C)
  PROVE  /\ pc = "scan" /\ ~eof /\ ~eof' /\ YY_START \in C
         /\ eof' \in BOOLEAN /\ lexemes' \in 0..MaxLexemes
         /\ bufs = IF YY_START \in Buffering THEN 1 ELSE 0
<1>1. pc = "scan" /\ ~eof /\ eof' = eof /\ YY_START \in C
  BY DEF Lexeme, More
<1>2. eof' \in BOOLEAN
  BY <1>1 DEF Inv, Flags
<1>3. lexemes' \in 0..MaxLexemes
  BY ScannerAssumption DEF Inv, Flags, Lexeme, More
<1>4. QED BY <1>1, <1>2, <1>3 DEF Inv, Buffered

\* The rules that leave the conditions and the buffers alone.
LEMMA StaysInv ==
  ASSUME Inv, Plain \/ Write \/ Unexpected
  PROVE  Inv'
<1>1. \E C : Lexeme(C)
  BY DEF Plain, Write, Unexpected
<1>2. /\ pc = "scan" /\ ~eof' /\ eof' \in BOOLEAN /\ lexemes' \in 0..MaxLexemes
      /\ bufs = IF YY_START \in Buffering THEN 1 ELSE 0
  BY <1>1, Reading
<1>3. stack' = stack /\ bufs' = bufs /\ block' = block /\ stray' = stray
  BY DEF Plain, Write, Unexpected
<1>4. Shape' /\ YY_START' = YY_START /\ (InPrae' <=> InPrae)
  BY <1>3 DEF Inv, Shape, YY_START, Last, InPrae
<1>5. pc' = pc
  <2>1. CASE Write
    BY <1>2, <2>1, Reading DEF Write, BufEmpty
  <2>2. CASE Plain \/ Unexpected
    BY <2>2 DEF Plain, Unexpected
  <2>3. QED BY <2>1, <2>2
<1>6. Flags'
  <2>1. failed' \in BOOLEAN /\ eof' = eof
    BY DEF Inv, Flags, Plain, Write, Unexpected, Lexeme, More
  <2>2. QED BY <1>2, <1>3, <1>5, <2>1 DEF Inv, Flags
<1>7. Buffered'
  BY <1>2, <1>3, <1>4, <1>5 DEF Buffered
<1>8. QED
  BY <1>2, <1>3, <1>4, <1>5, <1>6, <1>7 DEF Inv

\* The rules that push a condition: a literal, and it alone, opens a buffer,
\* and no condition that writes to one has a rule that pushes.
LEMMA PushesInv ==
  ASSUME Inv, OpenComment \/ OpenBlock \/ OpenLiteral \/ EscapeID
  PROVE  Inv'
<1>1. PICK c \in Inner \cup {"RawBlockStart"} :
        /\ stack' = Pushed(c)
        /\ Lexeme(IF c = "RawBlockStart" THEN {"INITIAL"} ELSE Code)
        /\ bufs' = IF c \in Literal THEN bufs + 1 ELSE bufs
  BY DEF OpenComment, OpenBlock, OpenLiteral, EscapeID, Inner, Literal
<1>2. /\ pc' = pc /\ failed' = failed /\ block' = block /\ stray' = stray
  BY DEF OpenComment, OpenBlock, OpenLiteral, EscapeID
<1>3. /\ pc = "scan" /\ ~eof' /\ eof' \in BOOLEAN /\ lexemes' \in 0..MaxLexemes
      /\ YY_START \in Code /\ (c = "RawBlockStart" => YY_START = "INITIAL")
      /\ bufs = IF YY_START \in Buffering THEN 1 ELSE 0
  BY <1>1, Reading DEF Code
<1>4. bufs = 0
  BY <1>3 DEF Code, Buffering, Literal
<1>5. Len(stack) = 1 \/ (Len(stack) = 2 /\ InPrae /\ c \in Inner)
  BY <1>1, <1>3, ShapeFacts DEF Inv, Code
<1>6. c \in Condition /\ c # "INITIAL" /\ c # "PraeBlock"
  BY <1>1 DEF Inner, Condition, Buffering, Literal, Unended
<1>7. Shape' /\ YY_START' = c /\ (InPrae' <=> InPrae)
  <2>1. Shape /\ stack' = Pushed(c)
    BY <1>1 DEF Inv
  <2>2. Shape' /\ YY_START' = c /\ (InPrae' <=> (InPrae \/ c = "PraeBlock"))
    BY <1>5, <1>6, <2>1, PushedShape
  <2>3. QED BY <1>6, <2>2
<1>8. bufs' = (IF c \in Buffering THEN 1 ELSE 0)
  BY <1>1, <1>4 DEF Buffering, Inner, Literal
<1>9. Flags'
  BY <1>2, <1>3, <1>8 DEF Inv, Flags
<1>10. QED
  BY <1>2, <1>3, <1>7, <1>8, <1>9 DEF Inv, Buffered

\* The rules that replace the condition, each over INITIAL.
LEMMA BeginsInv ==
  ASSUME Inv, NameBlock \/ BeginRawBlock \/ BeginPraeBlock
  PROVE  Inv'
<1>1. PICK c \in {"PraeBlockID", "RawBlockID", "RawBlock", "PraeBlock"} :
        /\ stack' = Begun(c)
        /\ Lexeme({"RawBlockStart", "RawBlockID", "PraeBlockID"})
        /\ bufs' = IF c = "RawBlock" THEN bufs + 1 ELSE bufs
        /\ block' = IF c = "PraeBlock" THEN TRUE ELSE block
  BY DEF NameBlock, BeginRawBlock, BeginPraeBlock, Lexeme, More
<1>2. pc' = pc /\ failed' = failed /\ stray' = stray
  BY DEF NameBlock, BeginRawBlock, BeginPraeBlock
<1>3. /\ pc = "scan" /\ ~eof' /\ eof' \in BOOLEAN /\ lexemes' \in 0..MaxLexemes
      /\ YY_START \in {"RawBlockStart", "RawBlockID", "PraeBlockID"}
      /\ bufs = IF YY_START \in Buffering THEN 1 ELSE 0
  BY <1>1, Reading
<1>4. bufs = 0
  BY <1>3 DEF Buffering, Literal
<1>5. Len(stack) = 2 /\ ~InPrae
  BY <1>3, ShapeFacts DEF Inv, Inner, Literal, Shape, InPrae
<1>6. c \in Condition /\ c # "INITIAL"
  BY <1>1 DEF Condition, Buffering, Unended
<1>7. Shape' /\ YY_START' = c /\ (InPrae' <=> c = "PraeBlock")
  BY <1>1, <1>5, <1>6, BegunShape DEF Inv
<1>8. bufs' = (IF c \in Buffering THEN 1 ELSE 0)
  BY <1>1, <1>4 DEF Buffering, Literal
<1>9. Flags'
  <2>1. block' \in BOOLEAN
    BY <1>1 DEF Inv, Flags
  <2>2. QED BY <1>2, <1>3, <1>8, <2>1 DEF Inv, Flags
<1>10. (pc = "scan" /\ ~stray) => (block' <=> c = "PraeBlock")
  BY <1>1, <1>5 DEF Inv
<1>11. QED
  BY <1>2, <1>3, <1>7, <1>8, <1>9, <1>10 DEF Inv, Buffered

\* The rules that pop a condition.  Only a name can pop the condition flex
\* began with: the others are rules of a condition that is pushed.
LEMMA PopsInv ==
  ASSUME Inv,
         Shebang \/ NoShebang \/ CloseComment \/ PraeBlockEnd \/ CloseBuffer \/ EscapedID
  PROVE  Inv'
<1>1. /\ pc = "scan" /\ ~eof' /\ eof' \in BOOLEAN /\ lexemes' \in 0..MaxLexemes
      /\ bufs = IF YY_START \in Buffering THEN 1 ELSE 0
  <2>1. CASE NoShebang
    BY <2>1 DEF Inv, Flags, Buffered, NoShebang, More
  <2>2. CASE ~NoShebang
    <3>1. \E C : Lexeme(C)
      BY <2>2 DEF Shebang, CloseComment, PraeBlockEnd, CloseBuffer, EscapedID
    <3>2. QED BY <3>1, Reading
  <2>3. QED BY <2>1, <2>2
<1>2. stack' = Popped /\ failed' = failed
  BY DEF Shebang, NoShebang, CloseComment, PraeBlockEnd, CloseBuffer, EscapedID
<1>3. Shape
  BY DEF Inv
<1>4. /\ Shape'
      /\ YY_START' = IF Len(stack) = 3 THEN "PraeBlock" ELSE "INITIAL"
      /\ InPrae' <=> Len(stack) = 3
  BY <1>2, <1>3, PoppedShape
<1>5. YY_START' \notin Buffering
  BY <1>4 DEF Buffering, Literal
\* What the rule closes.
<1>6. /\ Len(stack) # 1 \/ (EscapedID /\ YY_START = "INITIAL")
      /\ EscapedID => YY_START \in Code \cup {"EscapedID"}
      /\ CloseBuffer => YY_START \in Buffering
      /\ PraeBlockEnd => YY_START = "PraeBlock"
      /\ Shebang \/ NoShebang \/ CloseComment => YY_START \in {"Start", "BComment"}
  <2>1. /\ EscapedID => YY_START \in Code \cup {"EscapedID"}
        /\ CloseBuffer => YY_START \in Buffering
        /\ PraeBlockEnd => YY_START = "PraeBlock"
        /\ Shebang \/ NoShebang \/ CloseComment => YY_START \in {"Start", "BComment"}
    BY DEF Shebang, NoShebang, CloseComment, PraeBlockEnd, CloseBuffer, EscapedID, Lexeme, More
  <2>2. Len(stack) = 1 <=> YY_START = "INITIAL"
    BY <1>3, ShapeFacts
  <2>3. QED
    BY <2>1, <2>2 DEF Buffering, Literal
<1>7. bufs' = 0
  <2>1. CASE CloseBuffer
    BY <1>1, <1>6, <2>1 DEF CloseBuffer, BufEnded, BufEmpty
  <2>2. CASE ~CloseBuffer
    <3>1. YY_START \notin Buffering /\ bufs' = bufs
      BY <1>6, <2>2 DEF Shebang, NoShebang, CloseComment, PraeBlockEnd, EscapedID,
                        Code, Buffering, Literal
    <3>2. QED BY <1>1, <3>1
  <2>3. QED BY <2>1, <2>2
<1>8. /\ pc' = IF Len(stack) = 1 THEN "fatal" ELSE pc
      /\ Len(stack) = 1 => stray'
  <2>1. CASE EscapedID
    BY <1>6, <2>1 DEF EscapedID, Underflow
  <2>2. CASE CloseBuffer
    <3>1. bufs = 1 /\ Len(stack) # 1
      BY <1>1, <1>6, <2>2 DEF Buffering, Literal
    <3>2. QED BY <2>2, <3>1 DEF CloseBuffer, Underflow, BufEmpty
  <2>3. CASE ~EscapedID /\ ~CloseBuffer
    BY <1>6, <2>3 DEF Shebang, NoShebang, CloseComment, PraeBlockEnd, Underflow
  <2>4. QED BY <2>1, <2>2, <2>3
<1>9. stray' \in BOOLEAN /\ block' \in BOOLEAN
  BY DEF Inv, Flags, Shebang, NoShebang, CloseComment, PraeBlockEnd, CloseBuffer, EscapedID
<1>10. Flags'
  BY <1>1, <1>2, <1>7, <1>8, <1>9 DEF Inv, Flags
\* A name that pops what it has not pushed is stray; of the others only
\* PraeBlockEnd leaves a prae block.
<1>11. pc' = "scan" /\ ~stray' => (block' <=> Len(stack) = 3)
  <2>1. ~stray => (block <=> InPrae)
    BY <1>1 DEF Inv
  <2>2. YY_START = "PraeBlock" <=> Len(stack) = 2 /\ InPrae
    BY <1>3, ShapeFacts
  <2>3. /\ Len(stack) \in {1, 2, 3}
        /\ Len(stack) = 1 => ~InPrae
        /\ Len(stack) = 3 => InPrae
    BY <1>3, ShapeFacts DEF InPrae
  <2>4. CASE PraeBlockEnd
    BY <1>6, <2>2, <2>4 DEF PraeBlockEnd
  <2>5. CASE EscapedID
    <3>1. block' = block /\ (~stray' => ~stray /\ YY_START = "EscapedID")
      BY <2>5 DEF EscapedID
    <3>2. QED BY <2>1, <2>2, <2>3, <3>1
  <2>6. CASE Shebang \/ NoShebang \/ CloseComment \/ CloseBuffer
    <3>1. block' = block /\ stray' = stray
      BY <2>6 DEF Shebang, NoShebang, CloseComment, CloseBuffer
    <3>2. YY_START # "PraeBlock"
      BY <1>6, <2>6 DEF Buffering, Literal
    <3>3. QED BY <2>1, <2>2, <2>3, <3>1, <3>2
  <2>7. QED BY <2>4, <2>5, <2>6
<1>12. pc' = "fatal" => stray'
  BY <1>1, <1>8
<1>13. Buffered'
  BY <1>1, <1>5, <1>7, <1>8 DEF Buffered
<1>14. QED
  BY <1>4, <1>10, <1>11, <1>12, <1>13 DEF Inv

\* What the scanner does at the end of the file, and after its own end.
LEMMA EndsInv ==
  ASSUME Inv, End \/ Unterminated \/ UnterminatedRaw \/ Stopped
  PROVE  Inv'
<1>1. stack' = stack /\ lexemes' = lexemes /\ block' = block /\ stray' = stray
  BY DEF End, Unterminated, UnterminatedRaw, Stopped, vars
<1>2. Shape' /\ YY_START' = YY_START /\ (InPrae' <=> InPrae)
  BY <1>1 DEF Inv, Shape, YY_START, Last, InPrae
<1>3. CASE End \/ Unterminated
  <2>1. /\ eof' = TRUE /\ bufs' = bufs /\ pc = "scan" /\ YY_START # "RawBlock"
        /\ (pc' = pc \/ pc' = "ended") /\ failed' \in BOOLEAN
    BY <1>3 DEF Inv, Flags, End, Unterminated, AtEnd, Terminates, Unended
  <2>2. Flags'
    <3>1. bufs' \in 0..1 /\ pc' \in {"scan", "ended", "fatal", "undefined"}
      BY <2>1 DEF Inv, Flags
    <3>2. QED BY <1>1, <2>1, <3>1 DEF Inv, Flags
  <2>3. Buffered'
    BY <1>2, <2>1 DEF Inv, Buffered
  <2>4. QED BY <1>1, <1>2, <2>1, <2>2, <2>3 DEF Inv
<1>4. CASE UnterminatedRaw
  <2>1. /\ eof' = TRUE /\ failed' = TRUE /\ pc = "scan" /\ YY_START = "RawBlock"
        /\ (pc' = pc \/ pc' = "undefined")
    BY <1>4 DEF UnterminatedRaw, AtEnd
  <2>2. bufs' \in 0..1
    BY <1>4 DEF Inv, Flags, UnterminatedRaw, BufEnded, BufEmpty
  <2>3. Flags'
    BY <1>1, <2>1, <2>2 DEF Inv, Flags
  <2>4. Buffered'
    BY <1>2, <2>1 DEF Buffered
  <2>5. QED BY <1>1, <1>2, <2>1, <2>3, <2>4 DEF Inv
<1>5. CASE Stopped
  BY <1>5 DEF Stopped, vars, Inv, Shape, Flags, Buffered, InPrae, YY_START, Last
<1>6. QED BY <1>3, <1>4, <1>5

\* The invariant holds in every state the scanner can be in.
THEOREM Invariance == Spec => []Inv
<1>1. Inv /\ [Next]_vars => Inv'
  <2> SUFFICES ASSUME Inv, [Next]_vars PROVE Inv'
    OBVIOUS
  <2>1. CASE Plain \/ Write \/ Unexpected
    BY <2>1, StaysInv
  <2>2. CASE OpenComment \/ OpenBlock \/ OpenLiteral \/ EscapeID
    BY <2>2, PushesInv
  <2>3. CASE NameBlock \/ BeginRawBlock \/ BeginPraeBlock
    BY <2>3, BeginsInv
  <2>4. CASE Shebang \/ NoShebang \/ CloseComment \/ PraeBlockEnd \/ CloseBuffer \/ EscapedID
    BY <2>4, PopsInv
  <2>5. CASE End \/ Unterminated \/ UnterminatedRaw \/ Stopped
    BY <2>5, EndsInv
  <2>6. CASE UNCHANGED vars
    BY <2>6 DEF vars, Inv, Shape, Flags, Buffered, InPrae, YY_START, Last
  <2>7. QED
    BY <2>1, <2>2, <2>3, <2>4, <2>5, <2>6 DEF Next
<1>2. QED
  BY <1>1, InitInv, PTL DEF Spec

-----------------------------------------------------------------------------
(* What the runs check.                                                    *)

\* The stack of conditions is never higher than three and the stack of buffers
\* never higher than one, in files of any length.
THEOREM TypeCorrect == Spec => []TypeOK
<1>1. Inv => TypeOK
  <2> SUFFICES ASSUME Inv PROVE TypeOK
    OBVIOUS
  <2>1. stack \in [1..Len(stack) -> Condition]
    BY LenProperties DEF Inv, Shape
  <2>2. stack \in UNION {[1..n -> Condition] : n \in 1..3}
    BY <2>1 DEF Inv, Shape
  <2>3. QED
    BY <2>2 DEF Inv, Flags, TypeOK
<1>2. QED
  BY <1>1, Invariance, PTL

\* As long as no raw block runs into the end of the file, there is a buffer
\* exactly in the conditions that write to it (BuffersMatch).
THEOREM BuffersCorrect == Spec => []BuffersMatch
<1>1. Inv => BuffersMatch
  <2> SUFFICES ASSUME Inv PROVE BuffersMatch
    OBVIOUS
  <2>1. DOMAIN stack = 1..Len(stack) /\ Len(stack) \in {1, 2, 3}
    BY ShapeFacts, LenProperties DEF Inv, Shape
  <2>2. YY_START = stack[Len(stack)]
    BY ShapeFacts DEF Inv
  <2>3. \A k \in DOMAIN stack : stack[k] \in Buffering => k = Len(stack)
    BY <2>1 DEF Inv, Shape, Buffering, Literal
  <2>4. CASE YY_START \in Buffering
    <3>1. {k \in DOMAIN stack : stack[k] \in Buffering} = {Len(stack)}
      BY <2>1, <2>2, <2>3, <2>4
    <3>2. Cardinality({k \in DOMAIN stack : stack[k] \in Buffering}) = 1
      BY <3>1, FS_Singleton
    <3>3. QED BY <2>4, <3>2 DEF Inv, Buffered, BuffersMatch
  <2>5. CASE YY_START \notin Buffering
    <3>1. {k \in DOMAIN stack : stack[k] \in Buffering} = {}
      BY <2>1, <2>2, <2>3, <2>5
    <3>2. Cardinality({k \in DOMAIN stack : stack[k] \in Buffering}) = 0
      BY <3>1, FS_EmptySet
    <3>3. QED BY <2>5, <3>2 DEF Inv, Buffered, BuffersMatch
  <2>6. QED BY <2>4, <2>5
<1>2. QED
  BY <1>1, Invariance, PTL

\* The parser takes a prae block for open exactly while the scanner reads one,
\* until a name pops a condition it has not pushed (BlocksMatch).
THEOREM BlocksCorrect == Spec => []BlocksMatch
<1>1. Inv => BlocksMatch
  <2> SUFFICES ASSUME Inv PROVE BlocksMatch
    OBVIOUS
  <2>1. DOMAIN stack = 1..Len(stack) /\ Len(stack) \in {1, 2, 3}
    BY ShapeFacts, LenProperties DEF Inv, Shape
  <2>2. Contains(stack, "PraeBlock") <=> \E k \in 1..Len(stack) : stack[k] = "PraeBlock"
    BY <2>1 DEF Contains
  <2>3. \A k \in 1..Len(stack) : stack[k] = "PraeBlock" => k = 2
    BY <2>1 DEF Inv, Shape, Inner, Literal
  <2>4. Contains(stack, "PraeBlock") <=> InPrae
    BY <2>1, <2>2, <2>3 DEF InPrae
  <2>5. QED
    BY <2>4 DEF Inv, BlocksMatch
<1>2. QED
  BY <1>1, Invariance, PTL

\* Only a name that was never pushed can pop from an empty stack (PopsMatchPushes).
THEOREM PopsCorrect == Spec => []PopsMatchPushes
BY Invariance, PTL DEF Inv, PopsMatchPushes
=============================================================================
