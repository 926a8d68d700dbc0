----------------------------- MODULE Wasm89Num -----------------------------
(***************************************************************************)
(* The integer and floating-point operations of src/wasm89/src/numeric.c.  *)
(* An integer operation takes its width w and unsigned operands below 2^w. *)
(* A float is a number of quarters with a sign, an infinity or a NaN, so   *)
(* that it has ties, both zeros and values out of an integer's range.      *)
(***************************************************************************)
EXTENDS Integers, Sequences, FiniteSets, Bitwise

Trap == -1

---------------------------------------------------------------------------
(* Integers *)

Wrap(w, x) == x % 2 ^ w
Sign(w) == 2 ^ (w - 1)
Sx(w, x) == IF x >= Sign(w) THEN x - 2 ^ w ELSE x

Quot(x, y) == LET q == (IF x < 0 THEN -x ELSE x) \div (IF y < 0 THEN -y ELSE y)
              IN IF (x < 0) = (y < 0) THEN q ELSE -q \* C's division, toward zero

\* Mutant: the quotient is rounded down instead of toward zero.
DivSFloor(w, x, y) ==
    IF y = 0 \/ (x = Sign(w) /\ y = 2 ^ w - 1) THEN Trap
    ELSE Wrap(w, IF Sx(w, y) < 0 THEN (-Sx(w, x)) \div (-Sx(w, y)) ELSE Sx(w, x) \div Sx(w, y))

DivS(w, x, y) ==
    IF y = 0 \/ (x = Sign(w) /\ y = 2 ^ w - 1) THEN Trap ELSE Wrap(w, Quot(Sx(w, x), Sx(w, y)))

DivU(w, x, y) == IF y = 0 THEN Trap ELSE x \div y

RemS(w, x, y) ==
    IF y = 0 THEN Trap
    ELSE IF x = Sign(w) /\ y = 2 ^ w - 1 THEN 0
    ELSE Wrap(w, Sx(w, x) - Sx(w, y) * Quot(Sx(w, x), Sx(w, y)))

RemU(w, x, y) == IF y = 0 THEN Trap ELSE x % y

Shl(w, x, k) == Wrap(w, x * 2 ^ (k % w))
ShrU(w, x, k) == x \div 2 ^ (k % w)

ShrS(w, x, y) ==
    LET k == y % w
    IN IF k = 0 THEN x
       ELSE (x \div 2 ^ k) | Wrap(w, (IF x >= Sign(w) THEN 2 ^ w - 1 ELSE 0) * 2 ^ (w - k))

Rotl(w, x, y) ==
    LET k == y % w IN IF k = 0 THEN x ELSE Wrap(w, x * 2 ^ k) | (x \div 2 ^ (w - k))

Rotr(w, x, y) ==
    LET k == y % w IN IF k = 0 THEN x ELSE (x \div 2 ^ k) | Wrap(w, x * 2 ^ (w - k))

\* Leading and trailing zeros of x # 0, by halves: h is the next shift.
ClzFrom[w \in Nat, h \in Nat, x \in Nat] ==
    IF h = 0 THEN 0
    ELSE IF x \div 2 ^ (w - h) = 0 THEN h + ClzFrom[w, h \div 2, Wrap(w, x * 2 ^ h)]
    ELSE ClzFrom[w, h \div 2, x]

CtzFrom[h \in Nat, x \in Nat] ==
    IF h = 0 THEN 0
    ELSE IF x % 2 ^ h = 0 THEN h + CtzFrom[h \div 2, x \div 2 ^ h]
    ELSE CtzFrom[h \div 2, x]

Clz(w, x) == IF x = 0 THEN w ELSE ClzFrom[w, w \div 2, x]
Ctz(w, x) == IF x = 0 THEN w ELSE CtzFrom[w \div 2, x]
\* The narrow operation runs the wide one.
ClzNarrow(w, x) == IF x = 0 THEN w ELSE ClzFrom[2 * w, w, x] - w

\* Every other group of k bits of a word.
Mask(w, k) == (2 ^ w - 1) \div (2 ^ k + 1)

Popcnt(w, x) ==
    LET x1 == x - ((x \div 2) & Mask(w, 1))
        x2 == (x1 & Mask(w, 2)) + ((x1 \div 4) & Mask(w, 2))
        x3 == (x2 + x2 \div 16) & Mask(w, 4)
    IN Wrap(w, x3 * ((2 ^ w - 1) \div 255)) \div 2 ^ (w - 8)

LtS(w, x, y) == (x ^^ Sign(w)) < (y ^^ Sign(w))
LeS(w, x, y) == (x ^^ Sign(w)) <= (y ^^ Sign(w))

\* The low n bits, sign-extended to w.
ExtendS(w, n, x) ==
    LET lo == x % 2 ^ n IN IF lo >= Sign(n) THEN lo | (2 ^ w - 2 ^ n) ELSE lo

---------------------------------------------------------------------------
(* Floats *)

FloatMax == 36 \* the largest finite magnitude
Inf == FloatMax + 1
Float(neg, mag) == [neg |-> neg, mag |-> mag]
NaN == Float(FALSE, Inf + 1)
IsNan(f) == f.mag = Inf + 1
Floats == [neg : BOOLEAN, mag : 0 .. Inf + 1]
Val(f) == IF f.neg THEN -f.mag ELSE f.mag

Feq(f, g) == ~IsNan(f) /\ ~IsNan(g) /\ Val(f) = Val(g)
Flt(f, g) == ~IsNan(f) /\ ~IsNan(g) /\ Val(f) < Val(g)
Fle(f, g) == ~IsNan(f) /\ ~IsNan(g) /\ Val(f) <= Val(g)
PosZero(f) == f = Float(FALSE, 0)
NegZero(f) == f = Float(TRUE, 0)

Canon(f) == IF IsNan(f) THEN NaN ELSE f

\* Mutant: zeros of opposite sign are equal, so either may be the minimum.
FminUnsigned(f, g) ==
    IF IsNan(f) \/ IsNan(g) THEN NaN ELSE IF Fle(f, g) THEN f ELSE g

Fmin(f, g) ==
    IF IsNan(f) \/ IsNan(g) THEN NaN
    ELSE IF (NegZero(f) /\ PosZero(g)) \/ (NegZero(g) /\ PosZero(f)) THEN Float(TRUE, 0)
    ELSE IF Fle(f, g) THEN f ELSE g

Fmax(f, g) ==
    IF IsNan(f) \/ IsNan(g) THEN NaN
    ELSE IF (NegZero(f) /\ PosZero(g)) \/ (NegZero(g) /\ PosZero(f)) THEN Float(FALSE, 0)
    ELSE IF Fle(g, f) THEN f ELSE g

Copysign(f, g) == Float(g.neg, f.mag)
Fabs(f) == Float(FALSE, f.mag)
Fneg(f) == Float(~f.neg, f.mag)

\* The C library's rounding of a magnitude; infinities stay.
Down(f) == IF f.mag >= Inf THEN f.mag ELSE 4 * (f.mag \div 4)
Up(f) == IF f.mag >= Inf THEN f.mag ELSE 4 * ((f.mag + 3) \div 4)
Floor(f) == Float(f.neg, IF f.neg THEN Up(f) ELSE Down(f))
Ceil(f) == Float(f.neg, IF f.neg THEN Down(f) ELSE Up(f))

Fceil(f) == Canon(Ceil(f))
Ffloor(f) == Canon(Floor(f))
TruncZ(f) == IF IsNan(f) \/ Val(f) < 0 THEN Ceil(f) ELSE Floor(f)
Ftrunc(f) == IF IsNan(f) THEN NaN ELSE TruncZ(f)

\* Adding one to a whole number: the sum of -1 and 1 is +0.
PlusOne(f) == Float(Val(f) + 4 < 0, IF Val(f) + 4 < 0 THEN -(Val(f) + 4) ELSE Val(f) + 4)

Fnearest(f) ==
    IF IsNan(f) THEN NaN
    ELSE IF f.mag <= 2 THEN Float(f.neg, 0)
    ELSE LET r == Floor(f)
             d == Val(f) - Val(r)
         IN IF f.mag = Inf THEN r \* inf - inf is no number, and half of inf its own floor
            ELSE IF d < 2 THEN r
            ELSE IF d > 2 THEN PlusOne(r)
            ELSE IF r.mag % 8 = 0 THEN r ELSE PlusOne(r)

\* Conversion to an integer of w bits, trapping or saturating out of range.
IntOf(f) == IF f.neg THEN -(TruncZ(f).mag \div 4) ELSE TruncZ(f).mag \div 4
InRange(f, lo, hi) == f.mag < Inf /\ lo <= IntOf(f) /\ IntOf(f) <= hi
TruncS(w, f) == IF InRange(f, -Sign(w), Sign(w) - 1) THEN Wrap(w, IntOf(f)) ELSE Trap
TruncU(w, f) == IF InRange(f, 0, 2 ^ w - 1) THEN IntOf(f) ELSE Trap

TruncSatS(w, f) ==
    IF IsNan(f) THEN 0
    ELSE IF InRange(f, -Sign(w), Sign(w) - 1) THEN Wrap(w, IntOf(f))
    ELSE IF f.neg THEN Sign(w) ELSE Sign(w) - 1

TruncSatU(w, f) ==
    IF IsNan(f) THEN 0 ELSE IF InRange(f, 0, 2 ^ w - 1) THEN IntOf(f) ELSE IF f.neg THEN 0 ELSE 2 ^ w - 1
============================================================================
