------------------------------ MODULE Capacity ------------------------------
(***************************************************************************)
(* Capacities of capacity/capacity.go and capacity/format.go: a number of  *)
(* bytes in a machine word, written as a sum of terms such as 1GB2MB.      *)
(*                                                                         *)
(* A text is a sign and a list of terms; a term is the digits before and   *)
(* after the decimal point and a unit.  The word, the base 1024 and the    *)
(* number of units are constants, so that a small instance has the same    *)
(* edges.  The product of a fraction and a unit, which the code computes   *)
(* in float64, is a constant operator that may be a byte away from it.     *)
(***************************************************************************)
EXTENDS Integers, Sequences, Selection

CONSTANTS
  Base,         \* 1024
  UnitCount,    \* B, KB, MB, GB, TB
  MaxInt,       \* the largest value of the word
  CapTexts,     \* the texts that are parsed
  CapValues,    \* the values a program starts from
  CapNumbers,   \* the JSON numbers that are read
  FloatProduct(_, _, _), \* (f, unit, scale): int64(float64(f) * (float64(unit) / scale))
  NoText

\* The powers of b, from the 0th to the n-th.
Powers(b, n) ==
  LET p[i \in 0 .. n] == IF i = 0 THEN 1 ELSE p[i - 1] * b
  IN  p

\* The first number that the units can not show.
Limit == Powers(Base, UnitCount)[UnitCount]

\* A digit fits the word, and so does what the units can show: 1024 of the
\* largest unit is 2^50 bytes in an int64.
ASSUME WordAssumption ==
  /\ Base \in Nat /\ Base > 1 /\ UnitCount \in Nat \ {0}
  /\ MaxInt \in Nat /\ MaxInt >= 9 /\ Limit <= MaxInt

\* A text: the sign, the digits of each term with its unit, and whether it is
\* just "0".  Unit 0 stands for a missing unit and UnitCount + 1 for an unknown
\* one.
CapDigits == 0 .. 9
CapTerms == [int : Seq(CapDigits), frac : Seq(CapDigits), unit : 0 .. UnitCount + 1]
IsText(t) ==
  /\ t \in [neg : BOOLEAN, zero : BOOLEAN, terms : Seq(CapTerms)]
  /\ t.zero => t.terms = <<>>

ASSUME CapTextAssumption ==
  /\ \A t \in CapTexts : IsText(t)
  /\ ~IsText(NoText)
  /\ CapValues \subseteq Int /\ CapNumbers \subseteq Int

\* The variable of a program: its value, whether the last operation on it
\* returned no error, and the text it was last saved as.  source and saved are
\* auxiliary: the text the value was parsed from, and the value that was saved.
VARIABLE cap

capVars == <<cap>>

\* What the word keeps of an integer.
Word(x) == ((x + MaxInt + 1) % (2 * (MaxInt + 1))) - (MaxInt + 1)

\* unitMap.
UnitSize(k) == Powers(Base, UnitCount)[k - 1]

Bad == -1

\* One digit more, if the number still fits.
AddDigit(x, c) ==
  LET y == Word(x * 10 + c)
  IN  IF x = Bad \/ x > MaxInt \div 10 \/ y < 0 THEN Bad ELSE y

\* leadingInt: the value of the digits, or Bad if they do not fit.
leadingInt(ds) ==
  LET x[i \in 0 .. Len(ds)] == IF i = 0 THEN 0 ELSE AddDigit(x[i - 1], ds[i])
  IN  x[Len(ds)]

\* leadingFraction: digits that no longer fit are skipped.
AddFraction(r, c) ==
  LET y == AddDigit(r.f, c)
  IN  IF r.over \/ y = Bad THEN [f |-> r.f, scale |-> r.scale, over |-> TRUE]
      ELSE [f |-> y, scale |-> r.scale * 10, over |-> FALSE]

leadingFraction(ds) ==
  LET r[i \in 0 .. Len(ds)] ==
        IF i = 0 THEN [f |-> 0, scale |-> 1, over |-> FALSE]
        ELSE AddFraction(r[i - 1], ds[i])
  IN  r[Len(ds)]

\* What the fraction of a term adds.
FractionBytes(t) ==
  LET r == leadingFraction(t.frac)
  IN  IF r.f > 0 THEN FloatProduct(r.f, UnitSize(t.unit), r.scale) ELSE 0

\* Three roundings to 53 bits, of a product below 2^40: the integer part is at
\* most one away from the exact one, and not above the unit.
ASSUME FloatAssumption ==
  \A t \in CapTexts : \A i \in DOMAIN t.terms :
    LET r == leadingFraction(t.terms[i].frac)
        unit == UnitSize(t.terms[i].unit)
        bytes == FloatProduct(r.f, unit, r.scale)
    IN  t.terms[i].unit \in 1 .. UnitCount /\ r.f > 0 =>
          /\ bytes \in 0 .. unit
          /\ bytes - (r.f * unit) \div r.scale \in -1 .. 1

\* One turn of the loop of ParseCapacities.
TermValue(t) ==
  LET v    == leadingInt(t.int)
      unit == UnitSize(t.unit)
      sum  == Word(v * unit + FractionBytes(t))
  IN  IF \/ v = Bad
         \/ t.int = <<>> /\ t.frac = <<>>
         \/ t.unit \notin 1 .. UnitCount
      THEN Bad
      ELSE IF v > MaxInt \div unit \/ sum < 0 THEN Bad ELSE sum

\* Mutant: the sum of the terms is not tested.
SumOfTermsUnchecked(ts) ==
  LET d[i \in 0 .. Len(ts)] ==
        IF i = 0 THEN 0
        ELSE IF d[i - 1] = Bad \/ TermValue(ts[i]) = Bad THEN Bad
        ELSE (d[i - 1] + TermValue(ts[i])) % (MaxInt + 1)
  IN  d[Len(ts)]

\* One term more, if the sum still fits.
AddTerm(d, v) ==
  LET s == Word(d + v) IN IF d = Bad \/ v = Bad \/ s < 0 THEN Bad ELSE s

SumOfTerms(ts) ==
  LET d[i \in 0 .. Len(ts)] ==
        IF i = 0 THEN 0 ELSE AddTerm(d[i - 1], TermValue(ts[i]))
  IN  d[Len(ts)]

\* ParseCapacities: the text "0" needs no unit, an empty text is an error, and
\* an error comes with the value 0.
ParseCapacities(t) ==
  LET d == SumOfTerms(t.terms)
  IN  IF t.zero THEN [ok |-> TRUE, val |-> 0]
      ELSE IF t.terms = <<>> \/ d = Bad THEN [ok |-> FALSE, val |-> 0]
      ELSE [ok |-> TRUE, val |-> IF t.neg THEN -d ELSE d]

\* fmtInt: the decimal digits of a number below the base.
fmtInt(v) ==
  LET ds[n \in 0 .. Base - 1] ==
        IF n < 10 THEN <<n>> ELSE Append(ds[n \div 10], n % 10)
  IN  ds[v]

Magnitude(c) == IF c < 0 THEN -c ELSE c
DigitAt(c, k) == (Magnitude(c) \div UnitSize(k)) % Base
UnitsDown == [i \in 1 .. UnitCount |-> UnitCount + 1 - i]

\* The terms for some of the units.
TermsFor(c, units) ==
  [i \in DOMAIN units |->
     [int |-> fmtInt(DigitAt(c, units[i])), frac |-> <<>>, unit |-> units[i]]]

\* Mutant: the loop ends at the first unit that has nothing to show.
StringOfStopsAtZero(c) ==
  LET shown == {k \in 1 .. UnitCount : \A j \in 1 .. k : DigitAt(c, j) > 0}
  IN  [neg |-> c < 0, zero |-> FALSE, terms |-> TermsFor(c, Select(UnitsDown, shown))]

\* String: one term for each unit that is not zero, the largest first; nothing
\* at all for 0, and nothing of what is above the largest unit.
StringOf(c) ==
  LET shown == {k \in 1 .. UnitCount : DigitAt(c, k) > 0}
  IN  [neg |-> c < 0, zero |-> FALSE, terms |-> TermsFor(c, Select(UnitsDown, shown))]

CapInit ==
  cap = [val |-> 0, ok |-> TRUE, source |-> NoText, doc |-> NoText, saved |-> 0]

Untouched == cap.source = NoText /\ cap.doc = NoText /\ cap.val = 0

\* The program gives its variable a value.
CapAssign(c) == Untouched /\ cap' = [cap EXCEPT !.val = c]

\* A text is parsed into the variable; an error comes with the value 0.
Parsed(t) ==
  [cap EXCEPT !.val = ParseCapacities(t).val, !.ok = ParseCapacities(t).ok,
              !.source = t]

\* Set, UnmarshalYAML and the mapstructure hook; one text per behaviour.
CapSet(t) == Untouched /\ cap' = Parsed(t)

\* MarshalJSON and MarshalYAML.
CapMarshal == cap' = [cap EXCEPT !.doc = StringOf(cap.val), !.saved = cap.val]

\* UnmarshalJSON of what was saved.  A string without characters is taken for
\* a number, which fails, as ParseCapacities of an empty text does.
CapUnmarshal == cap.doc # NoText /\ cap' = Parsed(cap.doc)

\* UnmarshalJSON of a number: ParseInt answers with the nearest value of the
\* word, which is stored also when the number does not fit.
CapUnmarshalNumber(n) ==
  /\ Untouched
  /\ cap' = [cap EXCEPT !.ok = (n = Word(n)),
                        !.val = IF n > MaxInt THEN MaxInt
                                ELSE IF n < -MaxInt - 1 THEN -MaxInt - 1 ELSE n]

CapNext ==
  \/ \E c \in CapValues : CapAssign(c)
  \/ \E t \in CapTexts : CapSet(t)
  \/ \E n \in CapNumbers : CapUnmarshalNumber(n)
  \/ CapMarshal
  \/ CapUnmarshal

CapSpec == CapInit /\ [][CapNext]_capVars

-----------------------------------------------------------------------------
(* Properties.                                                             *)

\* The number a text denotes, without a word to fit in.
Number(ds) ==
  LET x[i \in 0 .. Len(ds)] == IF i = 0 THEN 0 ELSE x[i - 1] * 10 + ds[i]
  IN  x[Len(ds)]
ExactFraction(u) ==
  (Number(u.frac) * UnitSize(u.unit)) \div Powers(10, Len(u.frac))[Len(u.frac)]
ExactValue(u) == Number(u.int) * UnitSize(u.unit) + ExactFraction(u)
SumExactly(ts) ==
  LET d[i \in 0 .. Len(ts)] == IF i = 0 THEN 0 ELSE d[i - 1] + ExactValue(ts[i])
  IN  d[Len(ts)]
Denotes(t) == SumExactly(t.terms)
GoodTerm(u) == (u.int # <<>> \/ u.frac # <<>>) /\ u.unit \in 1 .. UnitCount
WellFormed(t) ==
  t.zero \/ (t.terms # <<>> /\ \A i \in DOMAIN t.terms : GoodTerm(t.terms[i]))

\* One byte for each term, if the text has a fraction at all.
Slack(t) ==
  IF \E i \in DOMAIN t.terms : t.terms[i].frac # <<>> THEN Len(t.terms) ELSE 0

\* What ParseCapacities accepts is well formed, fits the word and is worth what
\* the text denotes, exactly so without a fraction; what it refuses is ill
\* formed or too large.  None of its products and sums overflows unnoticed, and
\* the rounding of one term does not upset the tests of the next.
ParseFaithful ==
  cap.source # NoText =>
    LET t == cap.source
        m == Magnitude(cap.val)
    IN  IF cap.ok
        THEN /\ WellFormed(t) /\ m <= MaxInt
             /\ m - Denotes(t) \in -Slack(t) .. Slack(t)
             /\ cap.val = IF t.neg THEN -m ELSE m
        ELSE cap.val = 0 /\ (WellFormed(t) => Denotes(t) + Slack(t) > MaxInt)

\* A value that is saved and loaded comes back, if it is neither 0, which is
\* saved as an empty string, nor so large that String drops its upper part.
CapRoundTrip ==
  /\ cap.doc # NoText /\ cap.source = cap.doc
  /\ 0 < Magnitude(cap.saved) /\ Magnitude(cap.saved) < Limit
  => cap.ok /\ cap.val = cap.saved
=============================================================================
