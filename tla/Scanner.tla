-------------------------------- MODULE Scanner --------------------------------
(***************************************************************************)
(* The hand-written part of the scanner (scanner.in.lpp): the stack of     *)
(* start conditions its rules push, replace and pop, the stack of buffers  *)
(* that raw blocks and literals are collected in (parserTag.hpp), and what *)
(* the rules for the end of the file do.  Which characters make a lexeme   *)
(* is left to the generated automaton: a file is any sequence of at most   *)
(* MaxLexemes lexemes that the current condition has a rule for.           *)
(***************************************************************************)
EXTENDS Naturals, Sequences, SequencesExt, FiniteSets

CONSTANT MaxLexemes  \* bound: lexemes of a file

ASSUME ScannerAssumption == MaxLexemes \in Nat

\* The conditions in which whole tokens are read.
Code == {"INITIAL", "PraeBlock"}
Literal == {"PraeSQLiteral", "PraeDQLiteral"}
\* The conditions that collect text in a buffer.
Buffering == Literal \cup {"RawBlock"}
\* The conditions with an <<EOF>> rule of their own.
Unended == {"BComment", "RawBlock", "PraeBlock"}
Condition ==
  Code \cup Buffering \cup Unended \cup
    {"Start", "RawBlockStart", "RawBlockID", "PraeBlockID", "EscapedID"}

VARIABLES
  stack,    \* flex's stack of conditions, the current one last
  bufs,     \* how many buffers FormaParserTag::bufs holds
  failed,   \* FormaParserTag has an error: main will not compile the file
  pc,       \* "scan"; "ended" (yyterminate), "fatal" (yy_fatal_error exits),
            \* "undefined" (pop of an empty std::stack)
  eof,      \* the end of the file has been met
  lexemes,  \* the lexemes read so far
  block,    \* a PraeBlockStart has been returned, its PraeBlockEnd has not
  stray     \* an EscapedIdentifier or EscapedAtomKeyword has been read without @

vars == <<stack, bufs, failed, pc, eof, lexemes, block, stray>>

YY_START == Last(stack)

\* lexer::init pushes SSStart over the condition flex begins with.
Init ==
  /\ stack = <<"INITIAL", "Start">> /\ bufs = 0
  /\ failed = FALSE /\ pc = "scan" /\ eof = FALSE
  /\ lexemes = 0 /\ block = FALSE /\ stray = FALSE

\* There is a character to read in one of the conditions.
More(conditions) ==
  /\ pc = "scan" /\ ~eof /\ lexemes < MaxLexemes
  /\ YY_START \in conditions
  /\ UNCHANGED eof

\* ... and the longest match reads a lexeme.
Lexeme(conditions) == More(conditions) /\ lexemes' = lexemes + 1

\* $SSPUSH, $SSBEGIN and $SSPOP.
Pushed(condition) == Append(stack, condition)
Begun(condition) == Append(Front(stack), condition)
Underflow == Len(stack) = 1
Popped == IF Underflow THEN stack ELSE Front(stack)

\* bufEnd.
BufEmpty == bufs = 0
BufEnded == IF BufEmpty THEN bufs ELSE bufs - 1

-----------------------------------------------------------------------------
(* The rules.                                                              *)

\* A first line #!..., or nothing: either ends SSStart, the second without
\* reading the character it has seen.
Shebang ==
  /\ Lexeme({"Start"})
  /\ stack' = Popped
  /\ UNCHANGED <<bufs, failed, pc, block, stray>>

NoShebang ==
  /\ More({"Start"})
  /\ stack' = Popped
  /\ UNCHANGED <<bufs, failed, pc, lexemes, block, stray>>

\* Whitespace, line comments and newlines, the inside of a comment, and the
\* tokens that leave the conditions alone.
Plain ==
  /\ Lexeme(Condition \ Buffering)
  /\ UNCHANGED <<stack, bufs, failed, pc, block, stray>>

\* The inside of a raw block or a literal: buf() needs a buffer.
Write ==
  /\ Lexeme(Buffering)
  /\ pc' = IF BufEmpty THEN "undefined" ELSE pc
  /\ UNCHANGED <<stack, bufs, failed, block, stray>>

\* A character no rule of the condition begins with (the rules of SSStart,
\* SSBComment and SSRawBlock take any).
Unexpected ==
  /\ Lexeme(Condition \ {"Start", "BComment", "RawBlock"})
  /\ failed' = TRUE
  /\ UNCHANGED <<stack, bufs, pc, block, stray>>

\* Mutated form: BEGIN instead of yy_push_state.
OpenComment_Begin ==
  /\ Lexeme(Code)
  /\ stack' = Begun("BComment")
  /\ UNCHANGED <<bufs, failed, pc, block, stray>>

OpenComment ==
  /\ Lexeme(Code)
  /\ stack' = Pushed("BComment")
  /\ UNCHANGED <<bufs, failed, pc, block, stray>>

CloseComment ==
  /\ Lexeme({"BComment"})
  /\ stack' = Popped
  /\ pc' = IF Underflow THEN "fatal" ELSE pc
  /\ UNCHANGED <<bufs, failed, block, stray>>

\* @! and what follows it: prae or the name of the block's language.
OpenBlock ==
  /\ Lexeme({"INITIAL"})
  /\ stack' = Pushed("RawBlockStart")
  /\ UNCHANGED <<bufs, failed, pc, block, stray>>

\* Mutated form: yy_push_state instead of BEGIN.
NameBlock_Push ==
  /\ Lexeme({"RawBlockStart"})
  /\ \E id \in {"PraeBlockID", "RawBlockID"} : stack' = Pushed(id)
  /\ UNCHANGED <<bufs, failed, pc, block, stray>>

NameBlock ==
  /\ Lexeme({"RawBlockStart"})
  /\ \E id \in {"PraeBlockID", "RawBlockID"} : stack' = Begun(id)
  /\ UNCHANGED <<bufs, failed, pc, block, stray>>

BeginRawBlock ==
  /\ Lexeme({"RawBlockID"})
  /\ stack' = Begun("RawBlock") /\ bufs' = bufs + 1
  /\ UNCHANGED <<failed, pc, block, stray>>

\* Mutated form: the condition is never entered.
BeginPraeBlock_Stays ==
  /\ Lexeme({"PraeBlockID"})
  /\ stack' = Popped /\ block' = TRUE
  /\ UNCHANGED <<bufs, failed, pc, stray>>

BeginPraeBlock ==
  /\ Lexeme({"PraeBlockID"})
  /\ stack' = Begun("PraeBlock") /\ block' = TRUE
  /\ UNCHANGED <<bufs, failed, pc, stray>>

PraeBlockEnd ==
  /\ Lexeme({"PraeBlock"})
  /\ stack' = Popped /\ block' = FALSE
  /\ pc' = IF Underflow THEN "fatal" ELSE pc
  /\ UNCHANGED <<bufs, failed, stray>>

OpenLiteral ==
  /\ Lexeme(Code)
  /\ \E literal \in Literal : stack' = Pushed(literal)
  /\ bufs' = bufs + 1
  /\ UNCHANGED <<failed, pc, block, stray>>

\* Mutated form: the token is not marked "buf end".
CloseBuffer_Kept ==
  /\ Lexeme(Buffering)
  /\ stack' = Popped
  /\ UNCHANGED <<bufs, failed, pc, block, stray>>

\* RawBlockBody, SQLiteral and DQLiteral: the token takes the text of the
\* buffer and ends it.
CloseBuffer ==
  /\ Lexeme(Buffering)
  /\ stack' = Popped /\ bufs' = BufEnded
  /\ pc' = CASE Underflow -> "fatal" [] BufEmpty -> "undefined" [] OTHER -> pc
  /\ UNCHANGED <<failed, block, stray>>

EscapeID ==
  /\ Lexeme(Code)
  /\ stack' = Pushed("EscapedID")
  /\ UNCHANGED <<bufs, failed, pc, block, stray>>

\* EscapedIdentifier and EscapedAtomKeyword pop.  Their rule is there in
\* INITIAL and SSPraeBlock too, where it matches what no other rule matches
\* as long: _a, _a: and 1: , and in a prae block 1a.
EscapedID ==
  /\ Lexeme(Code \cup {"EscapedID"})
  /\ stack' = Popped
  /\ stray' = (stray \/ YY_START # "EscapedID")
  /\ pc' = IF Underflow THEN "fatal" ELSE pc
  /\ UNCHANGED <<bufs, failed, block>>

-----------------------------------------------------------------------------
(* The end of the file.                                                    *)

AtEnd(conditions) == pc = "scan" /\ YY_START \in conditions /\ eof' = TRUE

\* Mutated form: literals have a rule that only reports, too.
Terminates_Literal == Condition \ (Unended \cup Literal)

\* The conditions whose rule is the one with yyterminate.
Terminates == Condition \ Unended

End ==
  /\ AtEnd(Terminates)
  /\ pc' = "ended"
  /\ UNCHANGED <<stack, bufs, failed, lexemes, block, stray>>

\* An error, but no yyterminate: yylex goes on and meets the end again.
Unterminated ==
  /\ AtEnd(Condition \ (Terminates \cup {"RawBlock"}))
  /\ failed' = TRUE
  /\ UNCHANGED <<stack, bufs, pc, lexemes, block, stray>>

\* In a raw block each of these rounds ends a buffer as well.
UnterminatedRaw ==
  /\ AtEnd({"RawBlock"})
  /\ bufs' = BufEnded /\ failed' = TRUE
  /\ pc' = IF BufEmpty THEN "undefined" ELSE pc
  /\ UNCHANGED <<stack, lexemes, block, stray>>

Stopped == pc # "scan" /\ UNCHANGED vars

Next ==
  \/ Shebang \/ NoShebang \/ Plain \/ Write \/ Unexpected
  \/ OpenComment \/ CloseComment
  \/ OpenBlock \/ NameBlock \/ BeginRawBlock \/ BeginPraeBlock \/ PraeBlockEnd
  \/ OpenLiteral \/ CloseBuffer \/ EscapeID \/ EscapedID
  \/ End \/ Unterminated \/ UnterminatedRaw
  \/ Stopped

Spec == Init /\ [][Next]_vars

\* yylex is called on the only thread, a rule returns, and files are finite.  (A
\* parser that stops at a syntax error only stops asking earlier.)
FairSpec == Spec /\ WF_vars(Next)

-----------------------------------------------------------------------------
(* Properties.                                                             *)

\* Conditions nest at most three deep; at most one buffer is open at a time.
TypeOK ==
  /\ stack \in UNION {[1..n -> Condition] : n \in 1..3}
  /\ bufs \in 0..1
  /\ pc \in {"scan", "ended", "fatal", "undefined"}
  /\ failed \in BOOLEAN /\ eof \in BOOLEAN /\ block \in BOOLEAN /\ stray \in BOOLEAN
  /\ lexemes \in 0..MaxLexemes

\* bufStart and bufEnd are called by different rules than push and pop: as long
\* as a raw block does not run into the end of the file, there is a buffer
\* exactly in the conditions that write to it, and no write and no token ever
\* finds the stack of buffers empty.
BuffersMatch ==
  \/ eof /\ YY_START = "RawBlock"
  \/ /\ bufs = Cardinality({k \in DOMAIN stack : stack[k] \in Buffering})
     /\ pc # "undefined"

\* The parser takes a prae block for open exactly while the scanner reads one,
\* whatever comments, literals and escaped names are in it, until a name
\* pops a condition it has not pushed.
BlocksMatch ==
  pc = "scan" /\ ~stray => (block <=> Contains(stack, "PraeBlock"))

\* yy_pop_state finds a condition to pop, unless a name has popped one too many.
PopsMatchPushes == pc = "fatal" => stray

\* The scanner comes to an end, whatever the file, unless the file ends inside
\* a block comment or a prae block: the rules for these report an error on
\* every round and never end.
ScanEnds ==
  <>(pc # "scan" \/ (eof /\ failed /\ YY_START \in {"BComment", "PraeBlock"}))
=============================================================================
