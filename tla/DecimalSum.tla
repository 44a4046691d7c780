---- MODULE DecimalSum ----
(***************************************************************************)
(* The sum of the selected cells of a result: decimal numbers, given as    *)
(* text, are added digit by digit, so that no value is too wide.           *)
(*                                                                         *)
(* A number is a record of its parts; one without digits stands for all    *)
(* that is not a number (text, NaN, a second dot).  Digits are sequences   *)
(* of 0..9, most significant first.  "total" is the reference: the exact   *)
(* sum times 10^MaxDigits, as one integer.                                 *)
(***************************************************************************)
EXTENDS Integers, Sequences

CONSTANTS
    Wholes, Fractions,  \* the digit strings before and behind the dot
    Exponents,
    MaxDigits,          \* maxDigits: 100 000 in the code
    MaxCells            \* bound: cells of a selection

ASSUME DecimalSumBounds ==
    /\ Wholes \cup Fractions \subseteq Seq(0..9)
    /\ Exponents \subseteq Int /\ {MaxDigits, MaxCells} \subseteq Nat

VARIABLES
    sum,    \* _sign, _digits, _scale, _count
    total, cells

sumVars == <<sum, total, cells>>

-----------------------------------------------------------------------------
\* Arithmetic on digits

Zeros(n) == [i \in 1..n |-> 0]
DigitAt(d, i) == IF i <= Len(d) THEN d[Len(d) + 1 - i] ELSE 0
Longer(a, b) == IF Len(a) > Len(b) THEN Len(a) ELSE Len(b)
Reversed(digit, n) == [k \in 1..n |-> digit[n + 1 - k]]

trimLeadingZeros(d) ==
    IF \A i \in DOMAIN d : d[i] = 0 THEN <<>>
    ELSE LET first == CHOOSE i \in DOMAIN d : d[i] # 0 /\ \A k \in 1..i - 1 : d[k] = 0
         IN SubSeq(d, first, Len(d))

\* Whether the number of a is less than that of b; neither has leading zeros.
LessAbs(a, b) ==
    \/ Len(a) < Len(b)
    \/ /\ Len(a) = Len(b)
       /\ \E i \in DOMAIN a : a[i] < b[i] /\ \A k \in 1..i - 1 : a[k] = b[k]

\* What is carried behind i digits.
Carries(a, b) ==
    LET carry[i \in Nat] == IF i = 0 THEN 0 ELSE (carry[i - 1] + DigitAt(a, i) + DigitAt(b, i)) \div 10
    IN carry
Carried(a, b, n, digits) == IF Carries(a, b)[n] = 0 THEN digits ELSE <<Carries(a, b)[n]>> \o digits

\* A mutant: a digit keeps what is carried.
addAbsUnreduced(a, b) ==
    LET n == Longer(a, b)
    IN Carried(a, b, n, Reversed([i \in 1..n |-> Carries(a, b)[i - 1] + DigitAt(a, i) + DigitAt(b, i)], n))

addAbs(a, b) ==
    LET n == Longer(a, b)
        digit == [i \in 1..n |-> (Carries(a, b)[i - 1] + DigitAt(a, i) + DigitAt(b, i)) % 10]
    IN Carried(a, b, n, Reversed(digit, n))

\* What is borrowed behind i digits.
Borrows(a, b) ==
    LET borrow[i \in Nat] == IF i = 0 THEN 0
                            ELSE IF DigitAt(a, i) - borrow[i - 1] - DigitAt(b, i) < 0 THEN 1 ELSE 0
    IN borrow

\* A mutant: the borrow is not carried on.
subAbsUnborrowed(a, b) ==
    LET digit == [i \in 1..Len(a) |-> (DigitAt(a, i) - DigitAt(b, i)) % 10]
    IN trimLeadingZeros(Reversed(digit, Len(a)))

subAbs(a, b) ==
    LET digit == [i \in 1..Len(a) |-> (DigitAt(a, i) - Borrows(a, b)[i - 1] - DigitAt(b, i)) % 10]
    IN trimLeadingZeros(Reversed(digit, Len(a)))

-----------------------------------------------------------------------------
\* add

Numbers == [sign : {1, -1}, whole : Wholes, fraction : Fractions, exp : Exponents]

\* The scale of the value; an exponent that outgrows the fraction makes it
\* whole, by zeros at its end.
Scale(v) == IF Len(v.fraction) > v.exp THEN Len(v.fraction) - v.exp ELSE 0
Digits(v) == v.whole \o v.fraction \o
    (IF v.exp > Len(v.fraction) THEN Zeros(v.exp - Len(v.fraction)) ELSE <<>>)

Accepted(v) ==
    /\ v.whole \o v.fraction # <<>>
    /\ v.exp - Len(v.fraction) <= MaxDigits
    /\ Scale(v) <= MaxDigits /\ Len(Digits(v)) <= MaxDigits

\* The sum of two signed numbers of one scale; a zero is never negative.
Signed(sign, a, vsign, b) ==
    LET digits == IF sign = vsign THEN trimLeadingZeros(addAbs(a, b))
                  ELSE IF LessAbs(a, b) THEN subAbs(b, a) ELSE subAbs(a, b)
    IN [digits |-> digits,
        sign |-> IF digits = <<>> THEN 1
                 ELSE IF sign # vsign /\ LessAbs(a, b) THEN vsign ELSE sign]

\* Both get the scale of the wider one; a zero stays without digits.
Widened(digits, by) == IF digits = <<>> \/ by <= 0 THEN digits ELSE digits \o Zeros(by)

Added(s, v) ==
    LET scale == IF Scale(v) > s.scale THEN Scale(v) ELSE s.scale
        res == Signed(s.sign, Widened(s.digits, scale - s.scale),
                      v.sign, Widened(trimLeadingZeros(Digits(v)), scale - Scale(v)))
    IN [sign |-> res.sign, digits |-> res.digits, scale |-> scale, count |-> s.count + 1]

-----------------------------------------------------------------------------
\* text: the digits before the dot, at least one, and those behind it.
Printed(s) ==
    LET missing == s.scale + 1 - Len(s.digits)
        d == IF missing > 0 THEN Zeros(missing) \o s.digits ELSE s.digits
        point == Len(d) - s.scale
    IN [sign |-> s.sign, whole |-> SubSeq(d, 1, point), fraction |-> SubSeq(d, point + 1, Len(d)), exp |-> 0]

-----------------------------------------------------------------------------
\* The reference: the value of digits by their places, and of a number, times
\* 10^MaxDigits.
Ten[n \in Nat] == IF n = 0 THEN 1 ELSE 10 * Ten[n - 1]
Low(d) == LET low[i \in Nat] == IF i = 0 THEN 0 ELSE low[i - 1] + DigitAt(d, i) * Ten[i - 1] IN low
ValueOf(v) == v.sign * Low(Digits(v))[Len(Digits(v))] * Ten[MaxDigits - Scale(v)]

SumInit ==
    /\ sum = [sign |-> 1, digits |-> <<>>, scale |-> 0, count |-> 0]
    /\ total = 0 /\ cells = 0

\* The next selected cell of F6; what is no number or too wide is left out.
SumCell ==
    /\ cells < MaxCells
    /\ cells' = cells + 1
    /\ \E v \in Numbers :
         IF Accepted(v) THEN sum' = Added(sum, v) /\ total' = total + ValueOf(v)
         ELSE UNCHANGED <<sum, total>>

SumNext == SumCell
SumSpec == SumInit /\ [][SumNext]_sumVars

SumTypeOK ==
    /\ sum.sign \in {1, -1} /\ sum.digits \in Seq(0..9)
    /\ sum.scale \in 0..MaxDigits /\ sum.count \in 0..cells

\* However many values of whatever sign, width and exponent are added in
\* whatever order, what is printed is their exact sum, with no digit too many
\* in front and no negative zero (DecimalSum::add, DecimalSum::text).
SumExact ==
    LET p == Printed(sum) IN
    /\ ValueOf(p) = total
    /\ p.whole # <<>> /\ (Len(p.whole) > 1 => p.whole[1] # 0)
    /\ total = 0 => p.sign = 1
====
