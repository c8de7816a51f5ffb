---------------------------- MODULE NumericProofs ----------------------------
(***************************************************************************)
(* readIntBasic computes the exact value of the digits it accepts, and     *)
(* refuses exactly what is too large, for unsigned types of any size.      *)
(***************************************************************************)
EXTENDS NumericLiteral, TLAPS

Radix == {2, 8, 10, 16}

-----------------------------------------------------------------------------
(* Remainders.                                                             *)

\* The values of an unsigned type: a number below the modulus is kept, the first
\* round above and the first below it are mapped back.
LEMMA Wraps ==
  ASSUME NEW m \in Nat \ {0}, NEW n \in Int
  PROVE  /\ n % m \in 0..m - 1
         /\ 0 <= n /\ n < m => n % m = n
         /\ m <= n /\ n < 2 * m => n % m = n - m
         /\ -m <= n /\ n < 0 => n % m = n + m
<1>1. \A M \in Nat \ {0} : \A k \in Int :
        /\ k % M \in 0..M - 1
        /\ 0 <= k /\ k < M => k % M = k
  OBVIOUS
<1>2. \A M \in Nat \ {0} : \A k \in Int : M <= k /\ k < 2 * M => k % M = k - M
  OBVIOUS
<1>3. \A M \in Nat \ {0} : \A k \in Int : -M <= k /\ k < 0 => k % M = k + M
  OBVIOUS
<1>4. QED BY <1>1, <1>2, <1>3

\* The test of readIntBasic before it multiplies.
LEMMA Quotient ==
  ASSUME NEW r \in Radix, NEW n \in Nat, NEW max \in Nat
  PROVE  n > max \div r <=> n * r > max
BY DEF Radix

-----------------------------------------------------------------------------
(* The literal, its format and its limit.                                  *)

\* The moduli of the two types.
LEMMA Moduli ==
  /\ Mod32 \in Nat /\ Mod32 >= 256 /\ Mod64 \in Nat /\ Mod64 > Mod32
  /\ Mod32 = 2 * (Mod32 \div 2) /\ Mod64 = 2 * (Mod64 \div 2)
<1>1. /\ Mod32 \in Nat /\ Mod32 >= 256 /\ Mod64 \in Nat /\ Mod64 > Mod32
      /\ Mod32 % 2 = 0 /\ Mod64 % 2 = 0
  BY NumericAssumption
<1>2. QED BY <1>1

\* The scanner lets numbers of four radices through.
LEMMA LiteralFields ==
  ASSUME NEW l \in Literal
  PROVE  /\ l.radix \in Radix /\ l.sg \in {"+", "-"} /\ l.es \in {Absent, "+", "-"}
         /\ l.tu \in {Absent, "u", "s"} /\ l.tl \in {Absent, "y", "h", "i", "l", "f", "d"}
BY DEF Literal, Written, Radix

\* The formats of integers.
LEMMA Formats ==
  ASSUME NEW l \in Literal, ~IsReal(l)
  PROVE  Fmt(l) \in {"I1", "I2", "I4", "I8"}
BY LiteralFields DEF IsReal, Fmt

\* What the type of readInt can hold.
LEMMA ModulusFacts ==
  ASSUME NEW l \in Literal
  PROVE  /\ Modulus(l) \in Nat /\ Modulus(l) >= 256
         /\ Modulus(l) = 2 * (Modulus(l) \div 2)
         /\ Modulus(l) = IF Fmt(l) = "I8" THEN Mod64 ELSE Mod32
BY Moduli DEF Modulus

\* The largest unsigned number of the format.
LEMMA MaximumFacts ==
  ASSUME NEW l \in Literal, ~IsReal(l)
  PROVE  /\ Maximum(l) \in Nat /\ Maximum(l) = 2 * (Maximum(l) \div 2) + 1
         /\ Maximum(l) \div 2 \in Nat
         /\ Fmt(l) \in {"I1", "I2"} => 2 * Maximum(l) + 2 <= Modulus(l)
         /\ Fmt(l) \in {"I4", "I8"} => Maximum(l) = Modulus(l) - 1
<1>1. Fmt(l) \in {"I1", "I2", "I4", "I8"}
  BY Formats
<1>2. CASE Fmt(l) \in {"I1", "I2"}
  <2>1. Maximum(l) \in {Max1, Max2} /\ Modulus(l) = Mod32
    BY <1>2 DEF Maximum, Modulus
  <2>2. \A x \in {Max1, Max2} : x \in Nat /\ x % 2 = 1 /\ 2 * x < Mod32
    BY NumericAssumption
  <2>3. 2 * Maximum(l) + 2 <= Mod32
    BY <2>1, <2>2, Moduli
  <2>4. QED BY <1>2, <2>1, <2>2, <2>3
<1>3. CASE Fmt(l) \in {"I4", "I8"}
  <2>1. Maximum(l) = Modulus(l) - 1
    BY <1>3 DEF Maximum
  <2>2. QED BY <1>3, <2>1, ModulusFacts
<1>4. QED BY <1>1, <1>2, <1>3

\* max in readIntBasic: the bound that the digits and factors may reach.
LEMMA LimitFacts ==
  ASSUME NEW l \in Literal, ~IsReal(l)
  PROVE  /\ Limit(l) \in 0..Modulus(l) - 1
         /\ l.sg # "-" => Limit(l) = IF Unsign(l) THEN Maximum(l) ELSE Maximum(l) \div 2
         /\ l.sg = "-" /\ ~Unsign(l) => Limit(l) = Maximum(l) \div 2 + 1
         /\ l.sg = "-" /\ Unsign(l) =>
              Limit(l) = IF Fmt(l) \in {"I1", "I2"} THEN Maximum(l) + 1 ELSE 0
<1> DEFINE max == IF Unsign(l) THEN Maximum(l) ELSE Maximum(l) \div 2
           m == Modulus(l)
<1>1. Fmt(l) \in {"I1", "I2", "I4", "I8"} /\ m \in Nat \ {0} /\ m >= 256
  BY Formats, ModulusFacts
<1>2. /\ max \in Nat /\ max + 1 <= m
      /\ ~Unsign(l) => max + 1 < m
      /\ Unsign(l) => (max + 1 < m <=> Fmt(l) \in {"I1", "I2"})
  BY <1>1, MaximumFacts
<1>3. Limit(l) = IF l.sg = "-" THEN (max + 1) % m ELSE max
  BY DEF Limit
<1>4. /\ max + 1 < m => (max + 1) % m = max + 1
      /\ max + 1 = m => (max + 1) % m = 0
  <2> DEFINE n == max + 1
  <2>1. m \in Nat \ {0} /\ n \in Int /\ 0 <= n /\ m < 2 * m
    BY <1>1, <1>2
  <2> HIDE DEF max, m, n
  <2>2. /\ 0 <= n /\ n < m => n % m = n
        /\ m <= n /\ n < 2 * m => n % m = n - m
    BY <2>1, Wraps, Zenon
  <2>3. QED BY <2>1, <2>2 DEF n
<1>5. QED BY <1>1, <1>2, <1>3, <1>4

-----------------------------------------------------------------------------
(* One round of readIntBasic.                                              *)

\* The three tests of a round together refuse a digit exactly if it makes the
\* number larger than max; else the sum has not wrapped.  `next < num` is there
\* for the sum that wraps: it comes out below 15, and num is not that small.
LEMMA RoundExact ==
  ASSUME NEW mod \in {Mod32, Mod64}, NEW max \in 0..mod - 1, NEW n \in 0..max,
         NEW r \in Radix, NEW char \in 0..r - 1
  PROVE  /\ Overflows(n, r, char, max, mod) <=> n * r + char > max
         /\ ~Overflows(n, r, char, max, mod) => Appended(n, r, char, mod) = n * r + char
<1> DEFINE sum == n * r + char
           next == sum % mod
<1>1. mod \in Nat \ {0} /\ mod >= 256 /\ max \in Nat /\ n \in Nat /\ char \in Nat
  BY Moduli
<1>2. sum \in Nat /\ n * r \in Nat /\ char < 16 /\ n * r <= sum /\ n <= n * r
  BY <1>1 DEF Radix
<1>3. DigitOf(char) = char
  BY DEF DigitOf, Separator, Radix
<1>4. Appended(n, r, char, mod) = next
  BY <1>3 DEF Appended
<1>5. n > max \div r <=> n * r > max
  BY <1>1, Quotient
<1>6. /\ 0 <= sum /\ sum < mod => next = sum
      /\ mod <= sum /\ sum < 2 * mod => next = sum - mod
  <2>1. sum \in Int
    BY <1>2
  <2> HIDE DEF sum
  <2>2. QED BY <1>1, <2>1, Wraps, Zenon
<1>7. CASE n * r > max
  <2>1. sum > max /\ Overflows(n, r, char, max, mod)
    BY <1>1, <1>2, <1>5, <1>7 DEF Overflows
  <2>2. QED BY <2>1
<1>8. CASE n * r <= max /\ sum < mod
  <2>1. next = sum /\ ~(next < n)
    BY <1>1, <1>2, <1>6, <1>8
  <2>2. Overflows(n, r, char, max, mod) <=> sum > max
    BY <1>1, <1>2, <1>4, <1>5, <1>8, <2>1 DEF Overflows
  <2>3. QED BY <1>4, <2>1, <2>2
<1>9. CASE n * r <= max /\ sum >= mod
  <2>1. n * r >= mod - 15 /\ n * r >= 241 /\ sum - mod <= 14
    BY <1>1, <1>2, <1>9
  <2>2. n >= 15
    BY <1>1, <2>1 DEF Radix
  <2>3. next = sum - mod
    BY <1>1, <1>2, <1>6, <1>9
  <2>4. Overflows(n, r, char, max, mod)
    <3>1. next < n
      BY <1>1, <1>2, <2>1, <2>2, <2>3
    <3>2. QED BY <1>4, <3>1 DEF Overflows
  <2>5. sum > max
    BY <1>1, <1>2, <1>9
  <2>6. QED BY <2>4, <2>5
<1>10. QED BY <1>1, <1>2, <1>7, <1>8, <1>9

\* Whatever the character, a separator among them, a number that is not refused
\* is at most max.
LEMMA RoundBounded ==
  ASSUME NEW mod \in {Mod32, Mod64}, NEW max \in Nat, NEW n \in Nat, NEW r \in Radix,
         NEW char \in Chars(r), ~Overflows(n, r, char, max, mod)
  PROVE  Appended(n, r, char, mod) \in 0..max
<1> DEFINE sum == n * r + DigitOf(char)
<1>1. mod \in Nat \ {0} /\ sum \in Int
  BY Moduli DEF Chars, DigitOf, Separator, Radix
<1>2. Appended(n, r, char, mod) = sum % mod
  BY DEF Appended
<1>3. sum % mod \in 0..mod - 1
  <2> HIDE DEF sum
  <2>1. QED BY <1>1, Wraps, Zenon
<1>4. ~(sum % mod > max)
  BY <1>2 DEF Overflows
<1>5. QED BY <1>1, <1>2, <1>3, <1>4

\* The test before each factor of the exponent keeps the product from wrapping.
LEMMA FactorExact ==
  ASSUME NEW l \in Literal, ~IsReal(l), NEW n \in 0..Limit(l)
  PROVE  /\ ScaleOverflows(l, n) <=> n * l.radix > Limit(l)
         /\ ~ScaleOverflows(l, n) => (n * l.radix) % Modulus(l) = n * l.radix
<1>1. l.radix \in Radix /\ Limit(l) \in Nat /\ Limit(l) < Modulus(l) /\ Modulus(l) \in Nat \ {0}
  BY LiteralFields, LimitFacts, ModulusFacts
<1>2. n \in Nat /\ n * l.radix \in Nat
  BY <1>1 DEF Radix
<1>3. ScaleOverflows(l, n) <=> n * l.radix > Limit(l)
  BY <1>1, <1>2, Quotient DEF ScaleOverflows
<1>4. n * l.radix < Modulus(l) => (n * l.radix) % Modulus(l) = n * l.radix
  <2> DEFINE p == n * l.radix
             m == Modulus(l)
  <2>1. p \in Int /\ 0 <= p /\ m \in Nat \ {0}
    BY <1>1, <1>2
  <2> HIDE DEF p, m
  <2>2. p < m => p % m = p
    BY <2>1, Wraps, Zenon
  <2>3. QED BY <2>2 DEF p, m
<1>5. QED BY <1>1, <1>2, <1>3, <1>4

-----------------------------------------------------------------------------
(* The invariant.                                                          *)

\* As long as emitLoadLNumeric goes on, num is the exact value of what has been
\* read; where it stops for the size of a literal, the exact value is past the
\* limit.  (A separator would break this: it counts as a digit 8.)
Tracks ==
  /\ pc \in {"start", "expon", "error"} => exact = 0
  /\ pc \in {"digits", "scale", "done"} /\ ~IsReal(lit) => num = exact
  /\ pc = "overflow" => ~IsReal(lit) /\ exact > Limit(lit)

\* What is emitted for an integer.
Emitted ==
  pc = "done" /\ ~IsReal(lit) =>
    ins = <<[op |-> "ldci4", arg |-> HeldInI4(Read(lit, num))]>> \o Conversion(lit)

Inv ==
  /\ TypeOK
  /\ pc = "start" => num = 0
  /\ pc \in {"start", "expon"} => expon = 0
  /\ pc = "scale" => ~IsReal(lit) /\ 0 <= expon
  /\ Emitted
  /\ "separator" \notin Odd => Tracks

\* Nothing has been read at the beginning.
LEMMA InitInv == Init => Inv
<1> SUFFICES ASSUME Init PROVE Inv
  OBVIOUS
<1>1. /\ lit \in Literal /\ pc = "start" /\ num = 0 /\ expon = 0 /\ exact = 0
      /\ Len(ins) = 0 /\ MaxExpon \in Nat
  BY NumericAssumption DEF Init
<1>2. TypeOK
  BY <1>1 DEF TypeOK
<1>3. QED
  BY <1>1, <1>2 DEF Inv, Emitted, Tracks

\* The limit of the exponent.
LEMMA ExponFacts ==
  ASSUME NEW l \in Literal
  PROVE  ExponLimit(l) \in Nat /\ ExponLimit(l) <= MaxExpon /\ MaxExpon \in Nat
BY NumericAssumption, LiteralFields DEF ExponLimit

\* The match of the literal.
LEMMA MatchInv ==
  ASSUME Inv, Invalid \/ Valid
  PROVE  Inv'
<1>1. /\ pc = "start" /\ num = 0 /\ expon = 0 /\ lit \in Literal
      /\ UNCHANGED <<lit, num, expon, exact, ins>> /\ pc' \in {"error", "digits", "expon"}
  BY DEF Inv, TypeOK, Invalid, Valid
<1>2. ExponLimit(lit) \in Nat /\ (~IsReal(lit) => Limit(lit) \in Nat)
  BY <1>1, ExponFacts, LimitFacts, ModulusFacts
<1>3. lit' = lit /\ IsReal(lit)' = IsReal(lit) /\ Limit(lit)' = Limit(lit)
      /\ ExponLimit(lit)' = ExponLimit(lit)
  BY <1>1
<1>4. TypeOK'
  <2>1. /\ lit' \in Literal /\ num' \in Nat /\ expon' \in -MaxExpon..MaxExpon
        /\ exact' \in Nat /\ Len(ins') <= 2
    BY <1>1 DEF Inv, TypeOK
  <2>2. QED BY <1>1, <1>2, <2>1 DEF TypeOK
<1>5. "separator" \notin Odd => Tracks'
  BY <1>1 DEF Inv, Tracks
<1>6. QED
  BY <1>1, <1>4, <1>5 DEF Inv, Emitted

\* The digits of the exponent.
LEMMA ExponInv ==
  ASSUME Inv, ReadExpon
  PROVE  Inv'
<1>1. /\ pc = "expon" /\ lit \in Literal /\ num \in Nat /\ num <= ExponLimit(lit)
      /\ UNCHANGED <<lit, expon, exact, ins>>
  BY DEF Inv, TypeOK, ReadExpon
<1>2. ExponLimit(lit) \in Nat
  BY <1>1, ExponFacts
<1>3. num' \in 0..ExponLimit(lit) /\ pc' \in {"expon", "error"}
  <2>1. PICK char \in Chars(10) :
          IF Overflows(num, 10, char, ExponLimit(lit), Mod32)
          THEN pc' = "error" /\ UNCHANGED num
          ELSE num' = Appended(num, 10, char, Mod32) /\ UNCHANGED pc
    BY DEF ReadExpon
  <2>2. ~Overflows(num, 10, char, ExponLimit(lit), Mod32) =>
          Appended(num, 10, char, Mod32) \in 0..ExponLimit(lit)
    BY <1>1, <1>2, RoundBounded DEF Radix
  <2>3. QED BY <1>1, <1>2, <2>1, <2>2
<1>4. TypeOK'
  <2>1. /\ lit' \in Literal /\ expon' \in -MaxExpon..MaxExpon /\ exact' \in Nat /\ Len(ins') <= 2
    BY <1>1 DEF Inv, TypeOK
  <2>2. num' \in Nat /\ num' <= ExponLimit(lit')
    BY <1>1, <1>2, <1>3
  <2>3. QED BY <1>3, <2>1, <2>2 DEF TypeOK
<1>5. "separator" \notin Odd => Tracks'
  BY <1>1, <1>3 DEF Inv, Tracks
<1>6. QED
  BY <1>1, <1>3, <1>4, <1>5 DEF Inv, Emitted

\* The end of the exponent: num is reset.
LEMMA EndExponInv ==
  ASSUME Inv, EndExpon
  PROVE  Inv'
<1>1. /\ pc = "expon" /\ lit \in Literal /\ num \in Nat /\ num <= ExponLimit(lit)
      /\ UNCHANGED <<lit, exact, ins>> /\ num' = 0 /\ pc' = "digits"
      /\ expon' = IF lit.es = "-" THEN -num ELSE num
  BY DEF Inv, TypeOK, EndExpon
<1>2. expon' \in -MaxExpon..MaxExpon
  BY <1>1, ExponFacts
<1>3. ~IsReal(lit) => 0 <= Limit(lit)
  BY <1>1, LimitFacts, ModulusFacts
<1>4. TypeOK'
  BY <1>1, <1>2, <1>3 DEF Inv, TypeOK
<1>5. "separator" \notin Odd => Tracks'
  BY <1>1 DEF Inv, Tracks
<1>6. QED
  BY <1>1, <1>4, <1>5 DEF Inv, Emitted

\* A digit of an integer.
LEMMA DigitInv ==
  ASSUME Inv, ReadDigit
  PROVE  Inv'
<1>1. /\ pc = "digits" /\ ~IsReal(lit) /\ lit \in Literal /\ num \in Nat /\ num <= Limit(lit)
      /\ exact \in Nat /\ UNCHANGED <<lit, expon, ins>>
  BY DEF Inv, TypeOK, ReadDigit
<1>2. PICK char \in Chars(lit.radix) :
        /\ exact' = ExactOf(exact, lit.radix, char)
        /\ IF Overflows(num, lit.radix, char, Limit(lit), Modulus(lit))
           THEN pc' = "overflow" /\ UNCHANGED num
           ELSE num' = Appended(num, lit.radix, char, Modulus(lit)) /\ UNCHANGED pc
  BY DEF ReadDigit
<1>3. /\ lit.radix \in Radix /\ Modulus(lit) \in {Mod32, Mod64}
      /\ Limit(lit) \in 0..Modulus(lit) - 1 /\ Limit(lit) \in Nat
  BY <1>1, LiteralFields, LimitFacts, ModulusFacts DEF Modulus
<1>4. num' \in Nat /\ num' <= Limit(lit) /\ pc' \in {"digits", "overflow"}
  <2>1. ~Overflows(num, lit.radix, char, Limit(lit), Modulus(lit)) =>
          Appended(num, lit.radix, char, Modulus(lit)) \in 0..Limit(lit)
    BY <1>1, <1>3, RoundBounded
  <2>2. QED BY <1>1, <1>2, <1>3, <2>1
<1>5. exact' \in Nat
  BY <1>1, <1>2, <1>3 DEF ExactOf, Chars, Separator, Radix
<1>6. TypeOK'
  BY <1>1, <1>4, <1>5 DEF Inv, TypeOK
<1>7. ASSUME "separator" \notin Odd PROVE Tracks'
  <2>1. num = exact /\ char \in 0..lit.radix - 1
    BY <1>1, <1>2, <1>7 DEF Inv, Tracks, Chars
  <2>2. exact' = num * lit.radix + char
    BY <1>2, <1>3, <2>1 DEF ExactOf, Separator, Radix
  <2>3. /\ Overflows(num, lit.radix, char, Limit(lit), Modulus(lit)) <=>
             num * lit.radix + char > Limit(lit)
        /\ ~Overflows(num, lit.radix, char, Limit(lit), Modulus(lit)) =>
             Appended(num, lit.radix, char, Modulus(lit)) = num * lit.radix + char
    BY <1>1, <1>3, <2>1, RoundExact
  <2>4. CASE Overflows(num, lit.radix, char, Limit(lit), Modulus(lit))
    BY <1>1, <1>2, <2>2, <2>3, <2>4 DEF Tracks
  <2>5. CASE ~Overflows(num, lit.radix, char, Limit(lit), Modulus(lit))
    BY <1>1, <1>2, <2>2, <2>3, <2>5 DEF Tracks
  <2>6. QED BY <2>4, <2>5
<1>8. QED
  BY <1>1, <1>4, <1>6, <1>7 DEF Inv, Emitted

\* The end of the digits.
LEMMA EndDigitsInv ==
  ASSUME Inv, EndDigits
  PROVE  Inv'
<1>1. /\ pc = "digits" /\ ~IsReal(lit) /\ UNCHANGED <<lit, num, expon, exact, ins>>
      /\ pc' = IF expon < 0 THEN "aborted" ELSE "scale"
  BY DEF EndDigits
<1>2. expon \in Int
  BY NumericAssumption DEF Inv, TypeOK
<1>3. TypeOK'
  BY <1>1 DEF Inv, TypeOK
<1>4. "separator" \notin Odd => Tracks'
  BY <1>1 DEF Inv, Tracks
<1>5. QED
  BY <1>1, <1>2, <1>3, <1>4 DEF Inv, Emitted

\* A factor of the exponent.
LEMMA ScaleInv ==
  ASSUME Inv, Scale
  PROVE  Inv'
<1>1. /\ pc = "scale" /\ ~IsReal(lit) /\ lit \in Literal /\ num \in Nat /\ num <= Limit(lit)
      /\ exact \in Nat /\ expon \in -MaxExpon..MaxExpon /\ expon > 0
      /\ UNCHANGED <<lit, ins>> /\ exact' = exact * lit.radix
      /\ IF ScaleOverflows(lit, num)
         THEN pc' = "overflow" /\ UNCHANGED <<num, expon>>
         ELSE /\ num' = (num * lit.radix) % Modulus(lit)
              /\ expon' = expon - 1
              /\ UNCHANGED pc
  BY DEF Inv, TypeOK, Scale
<1>2. lit.radix \in Radix /\ Limit(lit) \in Nat /\ MaxExpon \in Nat
  BY <1>1, LiteralFields, LimitFacts, ModulusFacts, ExponFacts
<1>3. num * lit.radix \in Nat /\ exact' \in Nat
  BY <1>1, <1>2 DEF Radix
<1>4. /\ ScaleOverflows(lit, num) <=> num * lit.radix > Limit(lit)
      /\ ~ScaleOverflows(lit, num) => (num * lit.radix) % Modulus(lit) = num * lit.radix
  BY <1>1, <1>2, FactorExact
<1>5. CASE ScaleOverflows(lit, num)
  <2>1. TypeOK'
    BY <1>1, <1>3, <1>5 DEF Inv, TypeOK
  <2>2. "separator" \notin Odd => exact' > Limit(lit)
    BY <1>1, <1>4, <1>5 DEF Inv, Tracks
  <2>3. "separator" \notin Odd => Tracks'
    BY <1>1, <1>5, <2>2 DEF Tracks
  <2>4. QED BY <1>1, <1>5, <2>1, <2>3 DEF Inv, Emitted
<1>6. CASE ~ScaleOverflows(lit, num)
  <2>1. /\ pc' = "scale" /\ num' = num * lit.radix /\ num' <= Limit(lit)
        /\ expon' \in -MaxExpon..MaxExpon /\ 0 <= expon'
    BY <1>1, <1>2, <1>3, <1>4, <1>6
  <2>2. TypeOK'
    BY <1>1, <1>3, <2>1 DEF Inv, TypeOK
  <2>3. "separator" \notin Odd => Tracks'
    BY <1>1, <2>1 DEF Inv, Tracks
  <2>4. QED BY <1>1, <2>1, <2>2, <2>3 DEF Inv, Emitted
<1>7. QED BY <1>5, <1>6

\* The instructions: the load, and at most one conversion.
LEMMA EmitInv ==
  ASSUME Inv, EmitInt \/ EmitReal
  PROVE  Inv'
<1>1. pc' = "done" /\ UNCHANGED <<lit, num, expon, exact>>
  BY DEF EmitInt, EmitReal
<1>2. CASE EmitInt
  <2> DEFINE load == [op |-> "ldci4", arg |-> HeldInI4(Read(lit, num))]
  <2>1. pc = "scale" /\ ~IsReal(lit) /\ ins' = <<load>> \o Conversion(lit)
    BY <1>2 DEF Inv, EmitInt
  <2>2. Conversion(lit) = <<>> \/ \E c : Conversion(lit) = <<c>>
    BY DEF Conversion
  <2> HIDE DEF load
  <2>3. Len(ins') <= 2
    BY <2>1, <2>2
  <2>4. TypeOK'
    BY <1>1, <2>1, <2>3 DEF Inv, TypeOK
  <2>5. Emitted'
    BY <1>1, <2>1 DEF Emitted, load
  <2>6. "separator" \notin Odd => Tracks'
    BY <1>1, <2>1 DEF Inv, Tracks
  <2>7. QED BY <1>1, <2>4, <2>5, <2>6 DEF Inv
<1>3. CASE EmitReal
  <2>1. pc = "digits" /\ IsReal(lit) /\ Len(ins') <= 2
    BY <1>3 DEF EmitReal
  <2>2. TypeOK'
    BY <1>1, <2>1 DEF Inv, TypeOK
  <2>3. QED BY <1>1, <2>1, <2>2 DEF Inv, Emitted, Tracks
<1>4. QED BY <1>2, <1>3

\* The invariant holds in every state emitLoadLNumeric can be in.
THEOREM Invariance == Spec => []Inv
<1>1. Inv /\ [Next]_vars => Inv'
  <2> SUFFICES ASSUME Inv, [Next]_vars PROVE Inv'
    OBVIOUS
  <2>1. CASE Invalid \/ Valid
    BY <2>1, MatchInv
  <2>2. CASE ReadExpon
    BY <2>2, ExponInv
  <2>3. CASE EndExpon
    BY <2>3, EndExponInv
  <2>4. CASE ReadDigit
    BY <2>4, DigitInv
  <2>5. CASE EndDigits
    BY <2>5, EndDigitsInv
  <2>6. CASE Scale
    BY <2>6, ScaleInv
  <2>7. CASE EmitInt \/ EmitReal
    BY <2>7, EmitInv
  <2>8. CASE UNCHANGED vars
    BY <2>8 DEF vars, Inv, TypeOK, Emitted, Tracks
  <2>9. QED
    BY <2>1, <2>2, <2>3, <2>4, <2>5, <2>6, <2>7, <2>8 DEF Next, Terminated
<1>2. QED
  BY <1>1, InitInv, PTL DEF Spec

-----------------------------------------------------------------------------
(* What is loaded.                                                         *)

\* The value of a literal whose digits and exponent make n.
ValueOf(l, n) == IF l.sg = "-" THEN -n ELSE n

\* The limit lets through the numbers of the format only.
LEMMA LimitFits ==
  ASSUME NEW l \in Literal, ~IsReal(l), NEW n \in 0..Limit(l), "negated" \notin Odd
  PROVE  Fits(l, ValueOf(l, n))
<1>1. /\ n \in Nat /\ Limit(l) \in Nat /\ n <= Limit(l)
      /\ Maximum(l) \in Nat /\ Maximum(l) \div 2 \in Nat /\ l.sg \in {"+", "-"}
  BY LimitFacts, MaximumFacts, ModulusFacts, LiteralFields
<1>2. CASE l.sg = "+"
  BY <1>1, <1>2, LimitFacts DEF ValueOf, Fits
<1>3. CASE l.sg = "-" /\ ~Unsign(l)
  BY <1>1, <1>3, LimitFacts DEF ValueOf, Fits
<1>4. CASE l.sg = "-" /\ Unsign(l)
  <2>1. Limit(l) = 0
    BY <1>4, LimitFacts DEF Literal
  <2>2. n = 0
    BY <1>1, <2>1
  <2>3. ValueOf(l, n) = 0
    <3>1. ValueOf(l, n) = -n
      BY <1>4 DEF ValueOf
    <3>2. QED BY <1>1, <2>2, <3>1
  <2>4. QED BY <1>1, <1>4, <2>3 DEF Fits
<1>5. QED BY <1>1, <1>2, <1>3, <1>4

\* ... and nothing past it is a number of the format.
LEMMA PastLimitMisfits ==
  ASSUME NEW l \in Literal, ~IsReal(l), NEW n \in Nat, n > Limit(l)
  PROVE  ~Fits(l, ValueOf(l, n))
<1>1. /\ Limit(l) \in Nat /\ Maximum(l) \in Nat /\ Maximum(l) \div 2 \in Nat /\ l.sg \in {"+", "-"}
  BY LimitFacts, MaximumFacts, ModulusFacts, LiteralFields
<1>2. CASE l.sg = "+"
  BY <1>1, <1>2, LimitFacts DEF ValueOf, Fits
<1>3. CASE l.sg = "-" /\ ~Unsign(l)
  BY <1>1, <1>3, LimitFacts DEF ValueOf, Fits
<1>4. CASE l.sg = "-" /\ Unsign(l)
  BY <1>1, <1>4, LimitFacts DEF ValueOf, Fits
<1>5. QED BY <1>1, <1>2, <1>3, <1>4

\* static_cast to the signed type.
LEMMA SignedFacts ==
  ASSUME NEW m \in Nat \ {0}, m = 2 * (m \div 2), NEW n \in 0..m - 1
  PROVE  /\ AsSigned(n, m) = n \/ AsSigned(n, m) = n - m
         /\ AsSigned(n, m) \in -(m \div 2)..m \div 2 - 1
BY DEF AsSigned

\* The number readInt returns is the value of the literal in two's complement.
LEMMA ReadFacts ==
  ASSUME NEW l \in Literal, ~IsReal(l), NEW n \in 0..Limit(l)
  PROVE  /\ Read(l, n) \in -(Modulus(l) \div 2)..Modulus(l) \div 2 - 1
         /\ Read(l, n) - ValueOf(l, n) \in {0, Modulus(l), -Modulus(l)}
<1> DEFINE m == Modulus(l)
           x == IF l.sg = "-" THEN (m - n) % m ELSE n
<1>1. /\ m \in Nat \ {0} /\ m = 2 * (m \div 2) /\ m \div 2 \in Nat
      /\ n \in Nat /\ n < m /\ l.sg \in {"+", "-"}
  BY ModulusFacts, LimitFacts, LiteralFields
<1>2. /\ n = 0 => (m - n) % m = 0
      /\ n > 0 => (m - n) % m = m - n
  <2> DEFINE d == m - n
  <2>1. d \in Int /\ m \in Nat \ {0} /\ (n > 0 => 0 <= d /\ d < m) /\ (n = 0 => m <= d /\ d < 2 * m)
    BY <1>1
  <2>2. n = 0 => d - m = 0
    BY <1>1
  <2> HIDE DEF d, m
  <2>3. /\ 0 <= d /\ d < m => d % m = d
        /\ m <= d /\ d < 2 * m => d % m = d - m
    BY <2>1, Wraps, Zenon
  <2>4. QED BY <2>1, <2>2, <2>3 DEF d
<1>3. x \in 0..m - 1 /\ x - ValueOf(l, n) \in {0, m}
  <2>1. CASE l.sg = "-" /\ n > 0
    <3>1. x = m - n /\ ValueOf(l, n) = -n
      BY <1>2, <2>1 DEF ValueOf
    <3> HIDE DEF x, m
    <3>2. QED BY <1>1, <2>1, <3>1
  <2>2. CASE l.sg = "-" /\ ~(n > 0)
    <3>1. n = 0
      BY <1>1, <2>2
    <3>2. x = 0
      BY <1>2, <2>2, <3>1
    <3>3. ValueOf(l, n) = -n
      BY <2>2 DEF ValueOf
    <3> HIDE DEF x, m
    <3>4. QED BY <1>1, <2>2, <3>2, <3>3
  <2>3. CASE l.sg # "-"
    <3>1. x = n /\ ValueOf(l, n) = n
      BY <2>3 DEF ValueOf
    <3> HIDE DEF x, m
    <3>2. QED BY <1>1, <3>1
  <2>4. QED BY <1>1, <2>1, <2>2, <2>3
<1>4. Read(l, n) = AsSigned(x, m)
  BY DEF Read
<1>5. /\ AsSigned(x, m) = x \/ AsSigned(x, m) = x - m
      /\ AsSigned(x, m) \in -(m \div 2)..m \div 2 - 1
  <2> HIDE DEF x, m
  <2>1. QED BY <1>1, <1>3, SignedFacts
<1>6. ValueOf(l, n) \in Int
  BY <1>1 DEF ValueOf
<1>7. QED
  <2> HIDE DEF x, m
  <2>1. AsSigned(x, m) - ValueOf(l, n) \in {0, m, -m}
    BY <1>1, <1>3, <1>5, <1>6
  <2>2. QED BY <1>4, <1>5, <2>1 DEF m

\* i4 of the union keeps the lower half.
LEMMA HeldFacts ==
  ASSUME NEW v \in Int
  PROVE  /\ HeldInI4(v) \in Int
         /\ v \in -(Mod32 \div 2)..Mod32 \div 2 - 1 => HeldInI4(v) = v
<1> DEFINE x == v % Mod32
<1>1. Mod32 \in Nat \ {0} /\ Mod32 = 2 * (Mod32 \div 2) /\ Mod32 \div 2 \in Nat
  BY Moduli
<1>2. /\ x \in 0..Mod32 - 1
      /\ 0 <= v /\ v < Mod32 => x = v
      /\ -Mod32 <= v /\ v < 0 => x = v + Mod32
  BY <1>1, Wraps
<1>3. HeldInI4(v) = AsSigned(x, Mod32)
  BY DEF HeldInI4
<1> HIDE DEF x
<1>4. AsSigned(x, Mod32) = x \/ AsSigned(x, Mod32) = x - Mod32
  BY <1>1, <1>2, SignedFacts
<1>5. v \in -(Mod32 \div 2)..Mod32 \div 2 - 1 => AsSigned(x, Mod32) = v
  BY <1>1, <1>2 DEF AsSigned
<1>6. QED BY <1>1, <1>2, <1>3, <1>4, <1>5

\* A number of a format of at most 32 bits: readInt returns it, or for one of the
\* upper half of an unsigned format what its 32 bits mean with a sign; the Ldci4
\* holds that, and the conversion makes it the number again.
LEMMA ConvertsBack ==
  ASSUME NEW l \in Literal, ~IsReal(l), NEW n \in 0..Limit(l), Fits(l, ValueOf(l, n)), Fmt(l) # "I8"
  PROVE  LET h == HeldInI4(Read(l, n)) IN
           IF Conversion(l) = <<>> THEN h = ValueOf(l, n)
           ELSE \E op : Conversion(l) = <<[op |-> op]>> /\ Converted(op, h) = ValueOf(l, n)
<1> DEFINE v == ValueOf(l, n)
           h == HeldInI4(Read(l, n))
           m == Maximum(l)
<1>1. /\ v \in Int /\ Mod32 \in Nat \ {0} /\ Mod32 = 2 * (Mod32 \div 2) /\ Mod32 \div 2 \in Nat
      /\ Modulus(l) = Mod32 /\ Fmt(l) \in {"I1", "I2", "I4"}
  BY Moduli, LimitFacts, ModulusFacts, Formats DEF ValueOf
<1>2. /\ h \in -(Mod32 \div 2)..Mod32 \div 2 - 1
      /\ h - v \in {0, Mod32, -Mod32}
  <2>1. /\ Read(l, n) \in -(Mod32 \div 2)..Mod32 \div 2 - 1
        /\ Read(l, n) - v \in {0, Mod32, -Mod32}
    BY <1>1, ReadFacts
  <2>2. h = Read(l, n)
    BY <1>1, <2>1, HeldFacts
  <2>3. QED BY <2>1, <2>2
<1>3. /\ m \in Nat /\ m = 2 * (m \div 2) + 1 /\ m \div 2 \in Nat
      /\ Fmt(l) \in {"I1", "I2"} => 2 * m + 2 <= Mod32
      /\ Fmt(l) = "I4" => m = Mod32 - 1
  BY <1>1, MaximumFacts
<1>4. v \in IF Unsign(l) THEN 0..m ELSE -(m \div 2) - 1..m \div 2
  <2>1. Fits(l, v)
    OBVIOUS
  <2> HIDE DEF v
  <2>2. QED BY <1>1, <1>3, <2>1 DEF Fits
<1>5. ASSUME Fmt(l) \in {"I1", "I2"} \/ ~Unsign(l) PROVE h = v
  <2> HIDE DEF v, h, m
  <2>1. QED BY <1>1, <1>2, <1>3, <1>4, <1>5
<1>6. CASE Fmt(l) \in {"I1", "I2"} /\ Unsign(l)
  <2>1. v % (m + 1) = v
    <3> HIDE DEF v, m
    <3>1. m + 1 \in Nat \ {0} /\ v \in Int /\ 0 <= v /\ v < m + 1
      BY <1>1, <1>3, <1>4, <1>6
    <3>2. QED BY <3>1, Wraps, Zenon
  <2>2. \/ Fmt(l) = "I1" /\ Conversion(l) = <<[op |-> "cvu1"]>> /\ m = Max1
        \/ Fmt(l) = "I2" /\ Conversion(l) = <<[op |-> "cvu2"]>> /\ m = Max2
    BY <1>6 DEF Conversion, Maximum
  <2>3. /\ Converted("cvu1", h) = h % (Max1 + 1)
        /\ Converted("cvu2", h) = h % (Max2 + 1)
    BY DEF Converted
  <2> HIDE DEF v, h, m
  <2>4. QED BY <1>5, <1>6, <2>1, <2>2, <2>3 DEF v, h
<1>7. CASE Fmt(l) \in {"I1", "I2"} /\ ~Unsign(l)
  <2>1. AsSigned(v % (m + 1), m + 1) = v
    <3> HIDE DEF v, m
    <3>1. /\ 0 <= v => v % (m + 1) = v
          /\ v < 0 => v % (m + 1) = v + (m + 1)
      <4>1. m + 1 \in Nat \ {0} /\ v \in Int /\ -(m + 1) <= v /\ v < m + 1
        BY <1>1, <1>3, <1>4, <1>7
      <4>2. QED BY <4>1, Wraps, Zenon
    <3>2. (m + 1) \div 2 = m \div 2 + 1
      BY <1>3
    <3>3. QED BY <1>1, <1>3, <1>4, <1>7, <3>1, <3>2 DEF AsSigned
  <2>2. \/ Fmt(l) = "I1" /\ Conversion(l) = <<[op |-> "cvi1"]>> /\ m = Max1
        \/ Fmt(l) = "I2" /\ Conversion(l) = <<[op |-> "cvi2"]>> /\ m = Max2
    BY <1>7 DEF Conversion, Maximum
  <2>3. /\ Converted("cvi1", h) = AsSigned(h % (Max1 + 1), Max1 + 1)
        /\ Converted("cvi2", h) = AsSigned(h % (Max2 + 1), Max2 + 1)
    BY DEF Converted
  <2> HIDE DEF v, h, m
  <2>4. QED BY <1>5, <1>7, <2>1, <2>2, <2>3 DEF v, h
<1>8. CASE Fmt(l) = "I4" /\ Unsign(l)
  <2>1. h % Mod32 = v
    <3> HIDE DEF v, h, m
    <3>1. 0 <= v /\ v < Mod32 /\ (h = v \/ h = v - Mod32)
      BY <1>1, <1>2, <1>3, <1>4, <1>8
    <3>2. Mod32 \in Nat \ {0} /\ h \in Int /\ ((0 <= h /\ h < Mod32) \/ (-Mod32 <= h /\ h < 0))
      BY <1>1, <1>2
    <3>3. /\ 0 <= h /\ h < Mod32 => h % Mod32 = h
          /\ -Mod32 <= h /\ h < 0 => h % Mod32 = h + Mod32
      BY <3>2, Wraps, Zenon
    <3>4. QED BY <1>1, <3>1, <3>2, <3>3
  <2>2. Conversion(l) = <<[op |-> "cvu4"]>>
    BY <1>8 DEF Conversion
  <2>3. Converted("cvu4", h) = h % Mod32
    BY DEF Converted
  <2> HIDE DEF v, h, m
  <2>4. QED BY <2>1, <2>2, <2>3 DEF v, h
<1>9. CASE Fmt(l) = "I4" /\ ~Unsign(l)
  <2>1. Conversion(l) = <<>>
    BY <1>9 DEF Conversion
  <2>2. QED BY <1>5, <1>9, <2>1
<1>10. QED BY <1>1, <1>6, <1>7, <1>8, <1>9

-----------------------------------------------------------------------------
(* What the runs check.                                                    *)

\* Every variable holds what it is declared to and num never exceeds its limit,
\* for types and exponents of any size.
THEOREM TypeCorrect == Spec => []TypeOK
BY Invariance, PTL DEF Inv

\* A literal that is loaded is one its format can hold, and what is loaded is its
\* value (LoadsItsValue); all literals but those of OddKinds.
THEOREM LoadsCorrect == ASSUME Odd = {} PROVE Spec => []LoadsItsValue
<1>1. Inv => LoadsItsValue
  <2> SUFFICES ASSUME Inv, pc = "done", ~IsReal(lit)
               PROVE  Fits(lit, Value) /\ Loaded = Value
    BY DEF LoadsItsValue
  <2>1. lit \in Literal /\ num \in 0..Limit(lit) /\ num = exact
    BY LimitFacts, ModulusFacts DEF Inv, TypeOK, Tracks
  <2>2. Value = ValueOf(lit, num)
    BY <2>1 DEF Value, ValueOf
  <2>3. Fits(lit, Value) /\ Fmt(lit) # "I8"
    BY <2>1, <2>2, LimitFits DEF Literal
  <2> DEFINE load == [op |-> "ldci4", arg |-> HeldInI4(Read(lit, num))]
  <2>4. ins = <<load>> \o Conversion(lit) /\ load.arg = HeldInI4(Read(lit, num))
    BY DEF Inv, Emitted
  <2>5. IF Conversion(lit) = <<>> THEN load.arg = Value
        ELSE \E op : Conversion(lit) = <<[op |-> op]>> /\ Converted(op, load.arg) = Value
    BY <2>1, <2>2, <2>3, <2>4, ConvertsBack
  <2> HIDE DEF load
  <2>6. CASE Conversion(lit) = <<>>
    <3>1. ins = <<load>>
      BY <2>4, <2>6
    <3>2. QED BY <2>3, <2>5, <2>6, <3>1 DEF Loaded
  <2>7. CASE Conversion(lit) # <<>>
    <3>1. PICK op : Conversion(lit) = <<[op |-> op]>> /\ Converted(op, load.arg) = Value
      BY <2>5, <2>7
    <3> DEFINE c == [op |-> op]
    <3>2. ins = <<load>> \o <<c>> /\ c.op = op
      BY <2>4, <3>1
    <3> HIDE DEF c
    <3>3. Len(ins) = 2 /\ ins[1] = load /\ ins[2].op = op
      BY <3>2
    <3>4. QED BY <2>3, <3>1, <3>3 DEF Loaded
  <2>8. QED BY <2>6, <2>7
<1>2. QED
  BY <1>1, Invariance, PTL

\* A literal without separators is called too large only if it is
\* (RefusesOnlyMisfits).
THEOREM RefusesCorrect == ASSUME "separator" \notin Odd PROVE Spec => []RefusesOnlyMisfits
<1>1. Inv => RefusesOnlyMisfits
  <2> SUFFICES ASSUME Inv, pc = "overflow" PROVE ~Fits(lit, Value)
    BY DEF RefusesOnlyMisfits
  <2>1. lit \in Literal /\ ~IsReal(lit) /\ exact \in Nat /\ exact > Limit(lit)
    BY DEF Inv, TypeOK, Tracks
  <2>2. Value = ValueOf(lit, exact)
    BY DEF Value, ValueOf
  <2>3. QED BY <2>1, <2>2, PastLimitMisfits
<1>2. QED
  BY <1>1, Invariance, PTL
=============================================================================
