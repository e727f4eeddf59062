-------------------------------- MODULE Bits --------------------------------
(* The puzzles of bits.c and the functions of tests.c they are graded        *)
(* against.  A 32-bit word is the set of the positions of its 1 bits, so &   *)
(* is \cap, | is \cup, and a shift moves positions.  clang -O0 -m32 (the     *)
(* Makefile) wraps signed overflow and shifts by a count modulo 32.          *)
EXTENDS Integers, Sequences, SequencesExt, FiniteSets, FiniteSetsExt

Positions == 0..31
Words == SUBSET Positions

Not(x) == Positions \ x
Xor(x, y) == (x \ y) \cup (y \ x)
Bool(b) == IF b THEN {0} ELSE {}
Bang(x) == Bool(x = {})
Shl(x, k) == {i + k : i \in x} \cap Positions
Sar(x, k) == {i \in Positions : IF i + k > 31 THEN 31 \in x ELSE i + k \in x}

\* Position i receives a carry when some lower position generates one and the
\* positions in between let it through.
Carries(x, y) ==
    {i \in Positions : \E j \in x \cap y : j < i /\ (j + 1)..(i - 1) \subseteq x \cup y}
Plus(x, y) == Xor(Xor(x, y), Carries(x, y))
Neg(x) == Plus(Not(x), {0})
Minus(x, y) == Plus(x, Neg(y))

\* mask |= mask << k for each k in turn.
Smear(mask, ks) == FoldLeft(LAMBDA m, k : m \cup Shl(m, k), mask, ks)

Num(n) == {i \in 0..30 : (n \div 2^i) % 2 = 1}
Val(x) == MapThenSumSet(LAMBDA i : 2^i, x)
TMin == {31}
TMax == 0..30

----------------------------------------------------------------------------
\* The integer puzzles.

thirdBits == Smear({0, 3, 6}, <<9, 18>>)
isTmin(x) == Bang(Plus(x, x) \cup Bang(x))
isNotEqual(x, y) == Bang(Bang(Xor(x, y)))
anyOddBit(x) == Bang(Bang(x \cap Smear({1, 3, 5, 7}, <<8, 16>>)))
negate(x) == Plus(Not(x), {0})

conditional(x, y, z) ==
    LET mask == Smear(Bang(x), <<1, 2, 4, 8, 16>>)
    IN  (Not(mask) \cap y) \cup (mask \cap z)

subOK(x, y) ==
    LET z == Minus(x, y)
        mask == {31}
    IN  Bang(Xor(x \cap mask, y \cap mask) \cap Xor(x \cap mask, z \cap mask))

(* Mutant: the signs are not told apart, and the difference overflows. *)
MutantIsGreater(x, y) == Sar(Plus(Plus(Not(x), {0}), y), 31) \cap {0}

isGreater(x, y) ==
    LET same_sign == Bang(Xor(TMin \cap x, TMin \cap y))
        neg_x == Plus(Not(x), {0})
    IN  (same_sign \cap Sar(Plus(neg_x, y), 31)) \cup (Bang(same_sign) \cap Sar(y, 31))

bitParity(x) ==
    Sar(FoldLeft(LAMBDA w, k : Xor(w, Shl(w, k)), x, <<16, 8, 4, 2, 1>>), 31) \cap {0}

\* The binary search keeps in result how many leading zeros it has skipped;
\* the number returned stands for itself, not for a word.
howManyBits(x) ==
    LET sign_mask == Smear(Sar(x, 31) \cap {0}, <<1, 2, 4, 8, 16>>)
        y == Shl(Plus(Not(sign_mask) \cap x, sign_mask \cap Not(x)), 1)
        result == FoldLeft(LAMBDA n, w : n + IF Sar(y, 32 - w - n) = {} THEN w ELSE 0,
                           0, <<16, 8, 4, 2, 1>>)
    IN  CASE y = {} -> 1
          [] 31 \in y -> 32
          [] OTHER -> 32 - result

----------------------------------------------------------------------------
\* The floating-point puzzles: sign in bit 31, exponent in bits 23 to 30.

Exp(uf) == Val({i - 23 : i \in uf \cap 23..30})
Frac(uf) == uf \cap 0..22
Pack(sign, exp, frac) == sign \cup Shl(Num(exp), 23) \cup frac

float_half(uf) ==
    LET exp == Exp(uf)
        sign == uf \cap {31}
        frac == Frac(uf)
        halved == Sar(Plus(frac, frac \cap Sar(frac, 1) \cap {0}), 1)
    IN  CASE exp = 0 -> Pack(sign, 0, halved)
          [] exp = 255 -> uf
          [] exp = 1 -> Pack(sign, 0, halved \cup {22})
          [] OTHER -> Pack(sign, exp - 1, frac)

float_i2f(x) == {0}    \* still to be written in the source

\* For an exponent beyond 150 the shift count is negative: the machine takes it
\* modulo 32.
float_f2i(uf) ==
    LET exp == Exp(uf)
        result == Sar(Frac(uf) \cup {23}, (158 - 8 - exp) % 32)
    IN  CASE exp < 127 -> {}
          [] exp >= 158 -> TMin
          [] 31 \in uf -> Plus(Not(result), {0})
          [] OTHER -> result

----------------------------------------------------------------------------
\* tests.c: what each puzzle should return, computed another way.

Less(x, y) ==
    LET d == Xor(x, y)
    IN  d # {} /\ IF 31 \in d THEN 31 \in x ELSE Max(d) \in y

test_thirdBits == {i \in Positions : i % 3 = 0}
test_isTmin(x) == Bool(x = TMin)
test_isNotEqual(x, y) == Bool(x # y)
test_anyOddBit(x) == Bool(\E i \in x : i % 2 = 1)
test_conditional(x, y, z) == IF x # {} THEN y ELSE z
test_isGreater(x, y) == Bool(Less(y, x))
test_bitParity(x) == Bool(Cardinality(x) % 2 = 1)

\* -x, by what it is: the word that added to x gives 0.
test_negate(x) == IF x = {} THEN {} ELSE Xor(x, (Min(x) + 1)..31)

\* The difference as a long long: with x and y shifted one place down, it fits
\* iff the halves' difference, borrow included, lies between -2^30 and 2^30 - 1.
test_subOK(x, y) ==
    LET hx == Sar(x, 1)
        hy == Sar(y, 1)
        borrow == IF 0 \in y \ x THEN {0} ELSE {}
        d == Minus(Minus(hx, hy), borrow)
    IN  Bool((31 \in d) = (30 \in d))

test_howManyBits(x) ==
    LET a == IF 31 \in x THEN Not(x) ELSE x
    IN  1 + IF a = {} THEN 0 ELSE Max(a) + 1

\* m shifted k places to the right, rounded to the nearest, ties to even: what
\* the processor does with the bits a float has no room for.
RoundShift(m, k) ==
    LET q == {i - k : i \in {b \in m : b >= k}}
        up == k > 0 /\ k - 1 \in m /\ (0 \in q \/ \E b \in m : b < k - 1)
    IN  Plus(q, Bool(up))

test_float_half(uf) ==
    LET sign == uf \cap {31}
        frac == Frac(uf)
    IN  CASE Exp(uf) = 255 -> uf
          [] Exp(uf) = 0 -> sign \cup RoundShift(frac, 1)
          [] Exp(uf) = 1 -> sign \cup RoundShift(frac \cup {23}, 1)
          [] OTHER -> Pack(sign, Exp(uf) - 1, frac)

test_float_i2f(x) ==
    LET m == IF 31 \in x THEN test_negate(x) ELSE x
        top == Max(m)
        significand == IF top <= 23 THEN Shl(m, 23 - top) ELSE RoundShift(m, top - 23)
    IN  IF x = {} THEN {}
        ELSE (x \cap {31}) \cup Plus(Shl(Num(top + 126), 23), significand)

\* cvttss2si truncates, and answers TMin for what no int can hold.
test_float_f2i(uf) ==
    LET exp == Exp(uf)
        m == {i + exp - 150 : i \in Frac(uf) \cup {23}} \cap Positions
    IN  CASE exp < 127 -> {}
          [] exp >= 158 -> TMin
          [] OTHER -> IF 31 \in uf THEN test_negate(m) ELSE m

----------------------------------------------------------------------------
\* decl.c: the puzzles in the order btest runs them, with their ratings.

Puzzle(name, args, rating) == [name |-> name, args |-> args, rating |-> rating]
test_set ==
    << Puzzle("thirdBits", 0, 1), Puzzle("isTmin", 1, 1),
       Puzzle("isNotEqual", 2, 2), Puzzle("anyOddBit", 1, 2), Puzzle("negate", 1, 2),
       Puzzle("conditional", 3, 3), Puzzle("subOK", 2, 3), Puzzle("isGreater", 2, 3),
       Puzzle("bitParity", 1, 4), Puzzle("howManyBits", 1, 4),
       Puzzle("float_half", 1, 4), Puzzle("float_i2f", 1, 4), Puzzle("float_f2i", 1, 4) >>

solution_funct(name, a) ==
    CASE name = "thirdBits" -> thirdBits
      [] name = "isTmin" -> isTmin(a[1])
      [] name = "isNotEqual" -> isNotEqual(a[1], a[2])
      [] name = "anyOddBit" -> anyOddBit(a[1])
      [] name = "negate" -> negate(a[1])
      [] name = "conditional" -> conditional(a[1], a[2], a[3])
      [] name = "subOK" -> subOK(a[1], a[2])
      [] name = "isGreater" -> isGreater(a[1], a[2])
      [] name = "bitParity" -> bitParity(a[1])
      [] name = "howManyBits" -> howManyBits(a[1])
      [] name = "float_half" -> float_half(a[1])
      [] name = "float_i2f" -> float_i2f(a[1])
      [] name = "float_f2i" -> float_f2i(a[1])

test_funct(name, a) ==
    CASE name = "thirdBits" -> test_thirdBits
      [] name = "isTmin" -> test_isTmin(a[1])
      [] name = "isNotEqual" -> test_isNotEqual(a[1], a[2])
      [] name = "anyOddBit" -> test_anyOddBit(a[1])
      [] name = "negate" -> test_negate(a[1])
      [] name = "conditional" -> test_conditional(a[1], a[2], a[3])
      [] name = "subOK" -> test_subOK(a[1], a[2])
      [] name = "isGreater" -> test_isGreater(a[1], a[2])
      [] name = "bitParity" -> test_bitParity(a[1])
      [] name = "howManyBits" -> test_howManyBits(a[1])
      [] name = "float_half" -> test_float_half(a[1])
      [] name = "float_i2f" -> test_float_i2f(a[1])
      [] name = "float_f2i" -> test_float_f2i(a[1])

----------------------------------------------------------------------------
\* The whole truth about where bits.c and tests.c part: float_i2f is a stub;
\* halving the largest float of exponent 1 drops the carry of the rounding into
\* the exponent; float_f2i shifts by a negative count from 2^24 on.
Differs(name, a) ==
    \/ name = "float_i2f"
    \/ name = "float_half" /\ a[1] \ {31} = 0..23
    \/ name = "float_f2i" /\ Exp(a[1]) \in 151..157

=============================================================================
