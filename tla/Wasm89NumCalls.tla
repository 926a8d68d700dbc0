-------------------------- MODULE Wasm89NumCalls ---------------------------
(***************************************************************************)
(* Calls of the operations of Wasm89Num over small operands, against the   *)
(* definitions by sets of bits, signed numbers and rational numbers.       *)
(***************************************************************************)
EXTENDS Wasm89Num

CONSTANTS IntWidths, \* the widths the integer operations are checked at
          Edges      \* the second operands

VARIABLES width, \* of a call's operands; FloatWidth for floats
          args   \* the operands chosen so far

FloatWidth == 0
a == args[1]
b == args[2]

---------------------------------------------------------------------------
(* The operands of a call *)

Init ==
    /\ width \in IntWidths \cup {FloatWidth}
    /\ args \in {<<x>> : x \in IF width = FloatWidth THEN Floats ELSE 0 .. 2 ^ width - 1}

Apply ==
    /\ Len(args) = 1
    /\ \E y \in IF width = FloatWidth THEN Floats ELSE {x \in Edges : x < 2 ^ width} :
          args' = Append(args, y)
    /\ UNCHANGED width

Next == Apply

---------------------------------------------------------------------------
(* Properties *)

Bits(x) == {i \in 0 .. width - 1 : (x \div 2 ^ i) % 2 = 1}
Extremum(S, c(_, _)) == CHOOSE x \in S : \A y \in S : c(x, y)

\* The integer operations agree with their definitions on sets of bits and on
\* signed numbers: division truncates and the remainder completes it, the most
\* negative number divided by -1 traps but has remainder 0, shifts and rotations
\* use the count modulo the width, zero and full-width counts included, and the
\* bit counts by halving and by parallel sums count bits.
IntegersExact ==
    width # FloatWidth /\ Len(args) = 2 =>
        LET w == width
            x == Sx(w, a)
            y == Sx(w, b)
            k == b % w
        IN /\ DivS(w, a, b) # Trap =>
                 LET q == Sx(w, DivS(w, a, b))
                     r == x - q * y
                 IN /\ r * r < y * y /\ r * x >= 0
                    /\ Sx(w, RemS(w, a, b)) = r
           /\ DivS(w, a, b) = Trap => b = 0 \/ (x = -Sign(w) /\ y = -1 /\ RemS(w, a, b) = 0)
           /\ b # 0 => DivU(w, a, b) * b + RemU(w, a, b) = a /\ RemU(w, a, b) < b
           /\ Bits(Shl(w, a, b)) = {i + k : i \in {j \in Bits(a) : j + k < w}}
           /\ Bits(ShrU(w, a, b)) = {i - k : i \in {j \in Bits(a) : j >= k}}
           /\ Sx(w, ShrS(w, a, b)) = x \div 2 ^ k
           /\ Bits(Rotl(w, a, b)) = {(i + k) % w : i \in Bits(a)}
           /\ Rotr(w, Rotl(w, a, b), b) = a
           /\ LtS(w, a, b) = (x < y) /\ LeS(w, a, b) = (x <= y)
           /\ a # 0 => /\ Clz(w, a) = w - 1 - Extremum(Bits(a), >=)
                       /\ Ctz(w, a) = Extremum(Bits(a), <=)
           /\ ClzNarrow(w, a) = Clz(w, a)
           /\ w >= 8 => Popcnt(w, a) = Cardinality(Bits(a))
           /\ \A n \in 1 .. w - 1 : Sx(w, ExtendS(w, n, a)) = Sx(n, a % 2 ^ n)

\* What the integer part of a float must be: the nearest, ties to even.
NearestInt(f, n) ==
    LET d == Val(f) - 4 * n IN d \in -1 .. 1 \/ (d \in {-2, 2} /\ n % 2 = 0)

\* The float operations: minimum and maximum order the two zeros and absorb NaNs
\* into the canonical one, rounding to an integer is to nearest with ties to even
\* and keeps the sign of zero, and the conversions trap or saturate exactly when
\* the truncated value does not fit.
FloatsExact ==
    width = FloatWidth /\ Len(args) = 2 =>
        LET Before(f, g) == Val(f) < Val(g) \/ (Val(f) = Val(g) /\ (f.neg \/ ~g.neg))
        IN /\ IF IsNan(a) \/ IsNan(b) THEN Fmin(a, b) = NaN /\ Fmax(a, b) = NaN
              ELSE /\ {Fmin(a, b), Fmax(a, b)} = {a, b}
                   /\ Before(Fmin(a, b), Fmax(a, b))
           /\ Copysign(Fneg(a), b) = Copysign(Fabs(a), b)
           /\ IsNan(a) => \A f \in {Fceil(a), Ffloor(a), Ftrunc(a), Fnearest(a)} : f = NaN
           /\ a.mag = Inf => \A f \in {Fceil(a), Ffloor(a), Ftrunc(a), Fnearest(a)} : f = a
           /\ a.mag < Inf =>
                 /\ \A f \in {Fceil(a), Ffloor(a), Ftrunc(a), Fnearest(a)} : f.neg = a.neg /\ f.mag % 4 = 0
                 /\ NearestInt(a, Val(Fnearest(a)) \div 4)
                 /\ Ftrunc(a).mag \in a.mag - 3 .. a.mag
                 /\ Val(Ffloor(a)) \in Val(a) - 3 .. Val(a)
                 /\ Val(Fceil(a)) \in Val(a) .. Val(a) + 3
           /\ \A w \in {2, 3} :
                 LET t == IF a.mag < Inf THEN Val(Ftrunc(a)) \div 4 ELSE IF a.neg THEN -100 ELSE 100
                     Clamp(lo, hi) == IF t < lo THEN lo ELSE IF t > hi THEN hi ELSE t
                 IN ~IsNan(a) =>
                       /\ Sx(w, TruncSatS(w, a)) = Clamp(-Sign(w), Sign(w) - 1)
                       /\ TruncSatU(w, a) = Clamp(0, 2 ^ w - 1)
                       /\ TruncS(w, a) = IF t = Clamp(-Sign(w), Sign(w) - 1) THEN TruncSatS(w, a) ELSE Trap
                       /\ TruncU(w, a) = IF t = Clamp(0, 2 ^ w - 1) THEN TruncSatU(w, a) ELSE Trap
           /\ IsNan(a) => TruncS(3, a) = Trap /\ TruncU(3, a) = Trap /\ TruncSatS(3, a) = 0
============================================================================
