----------------------------- MODULE Converters -----------------------------
(***************************************************************************)
(* The conversions of numbers to text (src/Converters.cpp).                *)
(*                                                                         *)
(* The functions are operators; a step makes one call, with any arguments, *)
(* and its outcome is compared with the text that was asked for.  The      *)
(* caller's memory from outstr on is a function; what a conversion writes  *)
(* at maxLen or behind lies outside the caller's buffer.  A character is a *)
(* number: a digit is its value, the others are named.  uint64_t has Width *)
(* bits.                                                                   *)
(*                                                                         *)
(* Floating-point arithmetic is not modelled: FloatToString begins where   *)
(* the value has been rounded and split in intPart and fpartInt.           *)
(***************************************************************************)
EXTENDS Integers, Sequences

CONSTANTS Width,      \* bits of uint64_t
          Unsigned, Signed,   \* the numbers that are converted
          Whole, Fraction,    \* the two parts of a floating number
          Base,       \* the bases asked for
          MaxLen,     \* the largest maxLen, other than 0 (no limit)
          Precision   \* the precisions asked for

(* base^n, as a recursive function: the provers know nothing of "^".       *)
Power(base, n) ==
    LET power[k \in 0 .. n] == IF k = 0 THEN 1 ELSE base * power[k - 1]
    IN  power[n]

ASSUME WidthAssumption == Width \in Nat \ {0}
ASSUME UnsignedAssumption == Unsigned \subseteq 0 .. Power(2, Width) - 1
ASSUME SignedAssumption == Signed \subseteq -Power(2, Width - 1) .. Power(2, Width - 1) - 1
ASSUME WholeAssumption == Whole \subseteq Unsigned /\ Fraction \subseteq Nat
ASSUME BaseAssumption == Base \subseteq 2 .. 36
ASSUME MaxLenAssumption == MaxLen \in Nat
ASSUME PrecisionAssumption == Precision \subseteq Nat

VARIABLE call  \* the last call: what was asked for and what came of it

Minus == 100
Point == 101
Nul == 102
Untouched == -1

Memory == 0 .. 2 * Width + MaxLen

ShorterOf(a, b) == IF a < b THEN a ELSE b

Stored(memory, at, text) ==
    [i \in DOMAIN memory |->
        IF i \in at .. at + Len(text) - 1 THEN text[i - at + 1] ELSE memory[i]]

Terminators(terminator) == IF terminator THEN 1 ELSE 0

(* The generation cycle: the last digit first, until nothing is left. *)
Generated(var, base) ==
    LET text[v \in 0 .. var] ==
            Append(IF v \div base = 0 THEN << >> ELSE text[v \div base], v % base)
    IN  text[var]

(* The memory after the call and the length of the whole text, be it       *)
(* copied or not.  The terminator goes behind the whole text too.          *)
UintToString_CopiesOneMore(memory, at, var, maxLen, base, terminator) ==
    LET text      == Generated(var, base)
        available == IF maxLen = 0 THEN Len(text) ELSE maxLen - Terminators(terminator) + 1
        copied    == SubSeq(text, 1, ShorterOf(Len(text), available))
    IN  IF (maxLen = 1 /\ terminator) \/ base \notin 2 .. 36
        THEN [memory |-> memory, length |-> 0]
        ELSE [memory |-> Stored(Stored(memory, at, copied),
                                at + Len(text), IF terminator THEN <<Nul>> ELSE << >>),
              length |-> Len(text)]
UintToString(memory, at, var, maxLen, base, terminator) ==
    LET text      == Generated(var, base)
        available == IF maxLen = 0 THEN Len(text) ELSE maxLen - Terminators(terminator)
        copied    == SubSeq(text, 1, ShorterOf(Len(text), available))
    IN  IF (maxLen = 1 /\ terminator) \/ base \notin 2 .. 36
        THEN [memory |-> memory, length |-> 0]
        ELSE [memory |-> Stored(Stored(memory, at, copied),
                                at + Len(text), IF terminator THEN <<Nul>> ELSE << >>),
              length |-> Len(text)]

(* What is left of a limited buffer: 0 both if there is no limit and if    *)
(* nothing is left.                                                        *)
LimitFrom(maxLen, index) == IF maxLen = 0 THEN 0 ELSE maxLen - index

IntToString(memory, var, maxLen, base, terminator) ==
    LET end      == Terminators(terminator)
        signed   == var < 0 /\ (maxLen = 0 \/ 0 < maxLen - end)
        index    == IF signed THEN 1 ELSE 0
        absValue == (IF var < 0 THEN -var ELSE var) % Power(2, Width)
        limit    == LimitFrom(maxLen, index)
        number   == UintToString(Stored(memory, 0, IF signed THEN <<Minus>> ELSE << >>),
                                 index, absValue, limit, base, terminator)
    IN  IF (maxLen = 1 /\ terminator) \/ base \notin 2 .. 36
        THEN [memory |-> memory, length |-> 0]
        ELSE [memory |-> number.memory,
              length |-> index + IF maxLen # 0 /\ number.length > limit
                                 THEN limit - end ELSE number.length]
-----------------------------------------------------------------------------
(* FloatToString, the part before the point: sign and digits. *)
IntegerPart(memory, negative, intPart, maxLen) ==
    LET signed == negative /\ maxLen # 1
        index  == IF signed THEN 1 ELSE 0
        limit  == LimitFrom(maxLen, index)
        number == UintToString(Stored(memory, 0, IF signed THEN <<Minus>> ELSE << >>),
                               index, intPart, limit, 10, FALSE)
    IN  [memory |-> number.memory,
         length |-> index + IF maxLen # 0 THEN ShorterOf(number.length, limit)
                            ELSE number.length]

(* The point, the leading zeros one by one and the other digits. *)
FractionPart_NoLeadingZeros(before, fpartInt, maxLen, precision, terminator) ==
    LET index  == before.length + 1
        limit  == LimitFrom(maxLen, index)
        number == UintToString(Stored(before.memory, before.length, <<Point>>),
                               index, fpartInt, limit, 10, terminator)
    IN  [memory |-> number.memory,
         length |-> index + IF maxLen # 0 /\ number.length > limit
                            THEN limit - Terminators(terminator) ELSE number.length]
FractionPart(before, fpartInt, maxLen, precision, terminator) ==
    LET end    == Terminators(terminator)
        point  == before.length + 1
        missing == precision - Len(Generated(fpartInt, 10))
        zeros  == IF missing < 0 THEN 0
                  ELSE IF maxLen = 0 THEN missing
                  ELSE ShorterOf(missing, maxLen - end - point)
        index  == point + zeros
        limit  == LimitFrom(maxLen, index)
        number == UintToString(Stored(before.memory, before.length,
                                      <<Point>> \o [i \in 1 .. zeros |-> 0]),
                               index, fpartInt, limit, 10, terminator)
    IN  [memory |-> number.memory,
         length |-> index + IF maxLen # 0 /\ number.length > limit
                            THEN limit - end ELSE number.length]

FloatToString(memory, negative, intPart, fpartInt, maxLen, precision, terminator) ==
    LET before == IntegerPart(memory, negative, intPart, maxLen)
    IN  IF maxLen # 0 /\ precision > 0 /\ maxLen < 3
        THEN [memory |-> memory, length |-> 0]
        ELSE IF precision > 0 /\ (maxLen = 0 \/ before.length < maxLen - 1)
        THEN FractionPart(before, fpartInt, maxLen, precision, terminator)
        ELSE IF terminator
        THEN [before EXCEPT !.memory =
                 Stored(@, IF maxLen = 0 \/ before.length < maxLen THEN before.length
                           ELSE maxLen - 1, <<Nul>>)]
        ELSE before
-----------------------------------------------------------------------------
(* The texts that are asked for, digit by digit. *)
DigitsOf(v, base, n) == [i \in 1 .. n |-> (v \div Power(base, n - i)) % base]

HasDigits(v, base, n) == v < Power(base, n) /\ (n = 1 \/ Power(base, n - 1) <= v)

NumeralOf(v, base) == DigitsOf(v, base, CHOOSE n \in 1 .. Width : HasDigits(v, base, n))

Sign(negative) == IF negative THEN <<Minus>> ELSE << >>

Decimals(fpartInt, precision) ==
    IF precision = 0 THEN << >>
    ELSE <<Point>> \o DigitsOf(fpartInt, 10, precision)

Blank == [i \in Memory |-> Untouched]

NoCall == [of |-> "none"]

ConvertersInit == call = NoCall

CallMade(function, wanted, maxLen, terminator, outcome) ==
    call' = [of |-> function, wanted |-> wanted, maxLen |-> maxLen,
             terminator |-> terminator, memory |-> outcome.memory, length |-> outcome.length]

(* One call says as much as many: they keep nothing. *)
Convert ==
    /\ call = NoCall
    /\ \E maxLen \in 0 .. MaxLen, terminator \in BOOLEAN :
           \/ \E v \in Unsigned, base \in Base :
                  CallMade("UintToString", NumeralOf(v, base), maxLen, terminator,
                           UintToString(Blank, 0, v, maxLen, base, terminator))
           \/ \E v \in Signed, base \in Base :
                  CallMade("IntToString", Sign(v < 0) \o NumeralOf(IF v < 0 THEN -v ELSE v, base),
                           maxLen, terminator,
                           IntToString(Blank, v, maxLen, base, terminator))
           \/ \E v \in Whole, fpartInt \in Fraction, precision \in Precision, negative \in BOOLEAN :
                  /\ fpartInt < Power(10, precision)
                  /\ CallMade("FloatToString",
                              Sign(negative) \o NumeralOf(v, 10) \o Decimals(fpartInt, precision),
                              maxLen, terminator,
                              FloatToString(Blank, negative, v, fpartInt, maxLen, precision, terminator))

ConvertersSpec == ConvertersInit /\ [][Convert]_call

Terminated == call.wanted \o IF call.terminator THEN <<Nul>> ELSE << >>

Fits == call.maxLen = 0 \/ Len(Terminated) <= call.maxLen

Written == {i \in 0 .. call.maxLen - 1 : call.memory[i] \notin {Untouched, Nul}}

(* A number whose text fits into the buffer is written exactly, with its   *)
(* terminator and nothing else, and the length returned is that of the     *)
(* text: for every base, sign, precision and limit, the extreme value of   *)
(* the signed type and a buffer that is filled to the last byte included.  *)
ExactWhenItFits ==
    call # NoCall /\ Fits =>
        /\ call.memory = Stored(Blank, 0, Terminated)
        /\ call.length = Len(call.wanted)

(* Of a number that does not fit, the buffer never shows a wrong digit:    *)
(* what is in it is the beginning of the text; and an integer stays inside *)
(* the "Limit of output string length" (Converters.h:28, 39), if no        *)
(* terminator is wanted and there is place for more than a sign.  (But a   *)
(* negative float for which there is one character shows its first digit   *)
(* and no sign; a terminator is written behind the whole text, and so      *)
(* behind the buffer of a text that is cut; a number for which nothing is  *)
(* left after its sign or its zeros is written without a limit.)           *)
PrefixWhenCut ==
    call # NoCall /\ ~Fits =>
        /\ \/ call.of = "FloatToString" /\ call.maxLen = 1
           \/ \A i \in Written : /\ 0 .. i \subseteq Written
                                 /\ i < Len(call.wanted) /\ call.memory[i] = call.wanted[i + 1]
        /\ call.of # "FloatToString" /\ ~call.terminator
              /\ call.maxLen > Len(Sign(call.wanted[1] = Minus))
           => \A i \in Memory : i >= call.maxLen => call.memory[i] = Untouched
=============================================================================
