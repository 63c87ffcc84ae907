----------------------------- MODULE FixedPoint64 -----------------------------
(***************************************************************************)
(* The fixed point numbers of src/helpers/fixed_point_64.py: byte strings  *)
(* that hold an integer, of which the last word is the fraction.  Numbers  *)
(* are computed on a stack of two.                                         *)
(***************************************************************************)
EXTENDS ByteWords

CONSTANT MaxBytes  \* longest argument of the AVM's byte arithmetic, 64

ASSUME FixedPointAssumption == MaxBytes \in Nat /\ MaxBytes >= 2 * WordBytes

PRECISION == WordValues

(* A byte string is its length and its value as a big endian integer.      *)
(* Byte arithmetic returns the shortest string for its result.             *)
Shortest(v) ==
  [len |-> CHOOSE n \in 0 .. 2 * MaxBytes :
             v < Power[n] /\ \A m \in 0 .. n - 1 : v >= Power[m],
   val |-> v]

ZERO == [len |-> 0, val |-> 0]
ONE == Shortest(PRECISION)

TruncateLonger(x) == IF x.len <= WordBytes THEN x             \* mutant
                     ELSE [len |-> x.len - WordBytes, val |-> x.val \div PRECISION]

TruncateByOneLess(x) == IF x.len <= WordBytes THEN ZERO       \* mutant
                        ELSE [len |-> x.len - WordBytes + 1,
                              val |-> x.val \div (PRECISION \div ByteValues)]

(* _truncate_8                                                             *)
Truncate(x) == IF x.len <= WordBytes THEN ZERO
               ELSE [len |-> x.len - WordBytes, val |-> x.val \div PRECISION]

(* _right_pad_8, which is from_big_int too.                                *)
RightPad(x) == [len |-> x.len + WordBytes, val |-> x.val * PRECISION]

FromInt(n) == RightPad([len |-> WordBytes, val |-> n])

(* Btoi panics on strings longer than a word, whatever they start with.    *)
ToIntPanics(x) == Truncate(x).len > WordBytes
ToInt(x) == Truncate(x).val

Argument(x) == x.len <= MaxBytes

MulPanics(x, y) == ~ (Argument(x) /\ Argument(y))
Mul(x, y) == Truncate(Shortest(x.val * y.val))

DivUnexpanded(x, y) == Shortest(x.val \div y.val)             \* mutant

DivPanics(x, y) == ~ (Argument(RightPad(x)) /\ Argument(y)) \/ y.val = 0
Div(x, y) == Shortest(RightPad(x).val \div y.val)

Add(x, y) == Shortest(x.val + y.val)

SubPanics(x, y) == MulPanics(x, y) \/ x.val < y.val
Sub(x, y) == Shortest(x.val - y.val)

-----------------------------------------------------------------------------
VARIABLES top, below   \* of the stack

numbers == <<top, below>>

NumbersInit == top = FromInt(0) /\ below = FromInt(0)

PushOne == top' = ONE /\ below' = top

PushInt == \E n \in 0 .. PRECISION - 1 : top' = FromInt(n) /\ below' = top

(* Big integers come from byte arithmetic.                                 *)
PushBigInt ==
  \E n \in PRECISION .. PRECISION * PRECISION - 1 : top' = RightPad(Shortest(n)) /\ below' = top

Compute ==
  /\ \/ ~ MulPanics(below, top) /\ (top' = Mul(below, top) \/ top' = Add(below, top))
     \/ ~ DivPanics(below, top) /\ top' = Div(below, top)
     \/ ~ SubPanics(below, top) /\ top' = Sub(below, top)
  /\ Argument(top')   \* bounds the numbers to those that may be used again
  /\ UNCHANGED below

NumbersNext == PushOne \/ PushInt \/ PushBigInt \/ Compute

NumbersSpec == NumbersInit /\ [][NumbersNext]_numbers

-----------------------------------------------------------------------------
(* to_int panics when the integral part does not fit a word, and then only:*)
(* no chain of operations leaves idle bytes in front that would make Btoi  *)
(* refuse a small number.                                                  *)
ToIntDefined == ToIntPanics(top) <=> top.val >= PRECISION * PRECISION

(* A quotient multiplied by its divisor gives no more than the dividend,   *)
(* and less by at most one unit of the fraction more than the divisor's    *)
(* integral part.                                                          *)
QuotientBounded ==
  ~ DivPanics(below, top) /\ Argument(Div(below, top)) =>
    LET back == Mul(Div(below, top), top)
    IN /\ back.val <= below.val
       /\ below.val - back.val <= top.val \div PRECISION + 1

(* Parts converted to integers never add up to more than the whole, and    *)
(* fall short of it by less than one for each.                             *)
PartsWithinWhole ==
  LET whole == Add(below, top)
  IN ~ ToIntPanics(whole) =>
       /\ ToInt(below) + ToInt(top) <= ToInt(whole)
       /\ ToInt(whole) <= ToInt(below) + ToInt(top) + 1
=============================================================================
