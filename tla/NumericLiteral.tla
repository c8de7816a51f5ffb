---------------------------- MODULE NumericLiteral ----------------------------
(***************************************************************************)
(* From the text of a numeric literal to the instructions that load it     *)
(* (praeCompiler/compiler.re): the exponent is read first, then the        *)
(* digits, both by readIntBasic, which multiplies by the exponent and      *)
(* refuses what does not fit.                                              *)
(*                                                                         *)
(* A literal is given by what the re2c tags point to.  Its digits are not  *)
(* fixed: each round of the loop takes one the scanner may have let        *)
(* through.  The integers of the program are those modulo Mod32 and Mod64. *)
(***************************************************************************)
EXTENDS Integers, Sequences

CONSTANTS
  Mod32,      \* the number of values of std::uint32_t
  Mod64,      \* and of std::uint64_t
  Max1,       \* 0xff
  Max2,       \* 0xffff
  MaxExpon,   \* 0x3ff
  Odd         \* the literals of OddKinds the program may have

\* Kinds of literal that are loaded as another number: with a "_" between its
\* digits, of 64 bits, and negated but of a narrow unsigned format.
OddKinds == {"separator", "long", "negated"}

\* The last conjunct is why `next < num` finds every sum that wraps.
ASSUME NumericAssumption ==
  /\ {Mod32, Mod64, Max1, Max2, MaxExpon} \subseteq Nat
  /\ Mod32 % 2 = 0 /\ Mod64 % 2 = 0 /\ Max1 % 2 = 1 /\ Max2 % 2 = 1
  /\ Max1 < Max2 /\ 2 * Max2 < Mod32 /\ Mod32 < Mod64 /\ Mod64 % Mod32 = 0
  /\ 0 < MaxExpon /\ MaxExpon + 1 < Mod32
  /\ Odd \subseteq OddKinds
  /\ 256 <= Mod32

VARIABLES
  lit,    \* the literal: see Written
  pc,     \* where emitLoadLNumeric is
  num,    \* readIntBasic's num
  expon,  \* the exponent still to be multiplied with
  exact,  \* not in the code: the value of the digits read, without a limit
  ins     \* the instructions emitted

vars == <<lit, pc, num, expon, exact, ins>>

Absent == "absent"

\* What the scanner's rules for numbers let through but for separators: the radix, the sign, the
\* sign of the exponent, the two letters of the type.  A sign that is not
\* written is "+".
Written ==
  LET Form(radices, signs, types, kinds) ==
        [radix : radices, float : kinds, sg : {"+", "-"}, es : signs,
         tu : {Absent, "u", "s"}, tl : types]
      ints == {Absent, "y", "h", "i", "l"}
      all == {Absent, "+", "-"}
  IN Form({8, 16}, {Absent}, ints, {FALSE}) \cup Form({2}, all, ints, {FALSE})
     \cup Form({10}, all, ints \cup {"f", "d"}, {FALSE})
     \cup {l \in Form({10}, all, {Absent, "f", "d"}, {TRUE}) : l.tu = Absent}

\* The patterns of re2c allow no "-" in the exponent of a binary literal.
Matches(l) == l.radix = 2 => l.es # "-"

\* isInt, isFloat, and the letter tl.
Fmt(l) ==
  CASE l.tl = "f" -> "R4" [] l.tl = "d" -> "R8"
    [] l.tl = "y" -> "I1" [] l.tl = "h" -> "I2" [] l.tl = "i" -> "I4" [] l.tl = "l" -> "I8"
    [] OTHER -> IF l.float \/ l.es = "-" THEN "R8" ELSE "I4"

IsReal(l) == Fmt(l) \in {"R4", "R8"}

Unsign(l) == IF l.tu = Absent THEN Fmt(l) = "I1" ELSE l.tu = "u"

\* The literals of the program.
Literal ==
  {l \in Written :
     /\ Fmt(l) = "I8" => "long" \in Odd
     /\ Unsign(l) /\ Fmt(l) \in {"I1", "I2"} /\ l.sg = "-" => "negated" \in Odd}

\* The type readInt is instantiated with, and the maximum it is given.
Modulus(l) == IF Fmt(l) = "I8" THEN Mod64 ELSE Mod32

Maximum(l) ==
  CASE Fmt(l) = "I1" -> Max1 [] Fmt(l) = "I2" -> Max2 [] OTHER -> Modulus(l) - 1

\* Mutated form: the smallest number of a signed type is refused.
Limit_Symmetric(l) == IF Unsign(l) THEN Maximum(l) ELSE Maximum(l) \div 2

\* max in readIntBasic, as readInt calls it.
Limit(l) ==
  LET max == IF Unsign(l) THEN Maximum(l) ELSE Maximum(l) \div 2 IN
    IF l.sg = "-" THEN (max + 1) % Modulus(l) ELSE max

\* And for the exponent.
ExponLimit(l) == IF l.es = "-" THEN MaxExpon - 1 ELSE MaxExpon

-----------------------------------------------------------------------------
(* readIntBasic.                                                           *)

Separator == -1

Chars(radix) == (0..radix - 1) \cup (IF "separator" \in Odd THEN {Separator} ELSE {})

\* '_' is 0x5f and taken for a letter: 0x5f - 0x61 + 10.
DigitOf(char) == IF char = Separator THEN 8 ELSE char

\* n * radix + digit in an unsigned type.
Appended(n, radix, char, mod) == (n * radix + DigitOf(char)) % mod

\* Mutated form: only the sum is compared.
Overflows_Wrapped(n, radix, char, max, mod) ==
  n > max \div radix \/ Appended(n, radix, char, mod) > max

\* One round of the loop over the digits goes to overflow.
Overflows(n, radix, char, max, mod) ==
  LET next == Appended(n, radix, char, mod) IN
    n > max \div radix \/ next < n \/ next > max

\* Not in the code: a separator has no value.
ExactOf(n, radix, char) == IF char = Separator THEN n ELSE n * radix + char

Init ==
  /\ lit \in Literal
  /\ pc = "start" /\ num = 0 /\ expon = 0 /\ exact = 0 /\ ins = <<>>

\* "note: this probably shouldn't happen".
Invalid ==
  /\ pc = "start" /\ ~Matches(lit)
  /\ pc' = "error"
  /\ UNCHANGED <<lit, num, expon, exact, ins>>

Valid ==
  /\ pc = "start" /\ Matches(lit)
  /\ pc' = IF lit.es = Absent THEN "digits" ELSE "expon"
  /\ UNCHANGED <<lit, num, expon, exact, ins>>

\* readIntBasic<std::int16_t>: "causes an overflow", too.  The limit is far below
\* that of the type.
ReadExpon ==
  /\ pc = "expon"
  /\ \E char \in Chars(10) :
       IF Overflows(num, 10, char, ExponLimit(lit), Mod32)
       THEN pc' = "error" /\ UNCHANGED num
       ELSE num' = Appended(num, 10, char, Mod32) /\ UNCHANGED pc
  /\ UNCHANGED <<lit, expon, exact, ins>>

EndExpon ==
  /\ pc = "expon"
  /\ expon' = IF lit.es = "-" THEN -num ELSE num
  /\ num' = 0 /\ pc' = "digits"
  /\ UNCHANGED <<lit, exact, ins>>

\* readIntBasic<std::int32_t> or readIntBasic<std::int64_t>.
ReadDigit ==
  /\ pc = "digits" /\ ~IsReal(lit)
  /\ \E char \in Chars(lit.radix) :
       /\ exact' = ExactOf(exact, lit.radix, char)
       /\ IF Overflows(num, lit.radix, char, Limit(lit), Modulus(lit))
          THEN pc' = "overflow" /\ UNCHANGED num
          ELSE num' = Appended(num, lit.radix, char, Modulus(lit)) /\ UNCHANGED pc
  /\ UNCHANGED <<lit, expon, ins>>

\* if (expon) assert(expon > 0);  The tests of num > max behind the loops cannot
\* succeed: see TypeOK.
EndDigits ==
  /\ pc = "digits" /\ ~IsReal(lit)
  /\ pc' = IF expon < 0 THEN "aborted" ELSE "scale"
  /\ UNCHANGED <<lit, num, expon, exact, ins>>

\* Mutated form: the product is not looked at.
ScaleOverflows_Not(l, n) == FALSE

ScaleOverflows(l, n) == n > Limit(l) \div l.radix

\* for (; expon > 0; --expon)
Scale ==
  /\ pc = "scale" /\ expon > 0
  /\ exact' = exact * lit.radix
  /\ IF ScaleOverflows(lit, num)
     THEN pc' = "overflow" /\ UNCHANGED <<num, expon>>
     ELSE /\ num' = (num * lit.radix) % Modulus(lit)
          /\ expon' = expon - 1
          /\ UNCHANGED pc
  /\ UNCHANGED <<lit, ins>>

-----------------------------------------------------------------------------
(* What is emitted.                                                        *)

\* static_cast<T>(num).
AsSigned(n, mod) == IF n < mod \div 2 THEN n ELSE n - mod

\* What readIntBasic returns for num.
Read(l, n) ==
  AsSigned(IF l.sg = "-" THEN (Modulus(l) - n) % Modulus(l) ELSE n, Modulus(l))

\* What an Ldci4 holds of an argument, which may be of 64 bits: i4 of the union.
HeldInI4(arg) == AsSigned(arg % Mod32, Mod32)

Conversion(l) ==
  CASE Fmt(l) = "I1" -> <<[op |-> IF Unsign(l) THEN "cvu1" ELSE "cvi1"]>>
    [] Fmt(l) = "I2" -> <<[op |-> IF Unsign(l) THEN "cvu2" ELSE "cvi2"]>>
    [] Fmt(l) = "I4" /\ Unsign(l) -> <<[op |-> "cvu4"]>>
    [] Fmt(l) = "I8" /\ Unsign(l) -> <<[op |-> "cvu8"]>>
    [] OTHER -> <<>>

\* Ldci4, for an I8 as well.
EmitInt ==
  /\ pc = "scale" /\ expon = 0
  /\ ins' = <<[op |-> "ldci4", arg |-> HeldInI4(Read(lit, num))]>> \o Conversion(lit)
  /\ pc' = "done"
  /\ UNCHANGED <<lit, num, expon, exact>>

\* A placeholder: the digits are not read.
EmitReal ==
  /\ pc = "digits" /\ IsReal(lit)
  /\ ins' = <<[op |-> IF Fmt(lit) = "R4" THEN "ldcr4" ELSE "ldcr8"]>>
  /\ pc' = "done"
  /\ UNCHANGED <<lit, num, expon, exact>>

Terminated == pc \in {"done", "error", "overflow", "aborted"} /\ UNCHANGED vars

Next ==
  \/ Invalid \/ Valid \/ ReadExpon \/ EndExpon \/ ReadDigit \/ EndDigits \/ Scale
  \/ EmitInt \/ EmitReal \/ Terminated

Spec == Init /\ [][Next]_vars

-----------------------------------------------------------------------------
(* Properties.                                                             *)

Value == IF lit.sg = "-" THEN -exact ELSE exact

\* Every variable holds what its declaration says, and readIntBasic keeps num
\* within the limit it was given, so that no product of it wraps.
TypeOK ==
  /\ lit \in Literal
  /\ pc \in {"start", "expon", "digits", "scale", "done", "error", "overflow", "aborted"}
  /\ num \in Nat /\ expon \in -MaxExpon..MaxExpon /\ exact \in Nat /\ Len(ins) <= 2
  /\ pc \in {"expon", "error"} => num <= ExponLimit(lit)
  /\ pc \in {"digits", "scale", "done", "overflow", "aborted"} /\ ~IsReal(lit) => num <= Limit(lit)

\* The numbers of the format of l.
Fits(l, v) ==
  IF Unsign(l) THEN 0 <= v /\ v <= Maximum(l)
  ELSE -(Maximum(l) \div 2) - 1 <= v /\ v <= Maximum(l) \div 2

\* What Cvi1 to Cvu8 make of a number.
Converted(op, n) ==
  CASE op = "cvi1" -> AsSigned(n % (Max1 + 1), Max1 + 1)
    [] op = "cvu1" -> n % (Max1 + 1)
    [] op = "cvi2" -> AsSigned(n % (Max2 + 1), Max2 + 1)
    [] op = "cvu2" -> n % (Max2 + 1)
    [] op = "cvu4" -> n % Mod32
    [] op = "cvu8" -> n % Mod64

\* The number the instructions leave.
Loaded == IF Len(ins) = 1 THEN ins[1].arg ELSE Converted(ins[2].op, ins[1].arg)

\* readIntBasic and the conversions against the exact value: a literal that is
\* loaded is one its format can hold, and what is loaded is its value.
LoadsItsValue == pc = "done" /\ ~IsReal(lit) => Fits(lit, Value) /\ Loaded = Value

\* A literal is called too large only if it is: the digits and factors read so
\* far already make a number its format cannot hold.
RefusesOnlyMisfits == pc = "overflow" => ~Fits(lit, Value)
=============================================================================
