------------------------------- MODULE Bignum -------------------------------
(***************************************************************************)
(* bignum of dumps.hpp: natural numbers of at most MaxLimbs limbs of       *)
(* LimbBits bits, the lowest first.  `count' is the length of the          *)
(* sequence.  What does not fit is dropped without a sign.                 *)
(***************************************************************************)
EXTENDS Integers, Sequences

CONSTANTS LimbBits, MaxLimbs  \* 32 and 40

ASSUME LimbAssumption == LimbBits \in Nat \ {0} /\ MaxLimbs \in Nat \ {0}

Base == 2 ^ LimbBits

Least(S) == CHOOSE n \in S : \A m \in S : n <= m

Limb(b, i) == IF i \in 1..Len(b) THEN b[i] ELSE 0

\* while (count > 0 && limbs[count - 1] == 0) --count
Trimmed(b) ==
    SubSeq(b, 1, Least({n \in 0..Len(b) : \A i \in (n + 1)..Len(b) : b[i] = 0}))

\* The constructor.
FromNat(value) ==
    LET n == Least({k \in 0..MaxLimbs : value < Base ^ k})
    IN  [i \in 1..n |-> (value \div (Base ^ (i - 1))) % Base]

\* Fault: the bits a limb hands on to the next one are lost.
ShiftLeftFault(b, bits) ==
    LET limb_shift == bits \div LimbBits
        n          == Len(b) + limb_shift + 1
    IN  Trimmed([i \in 1..(IF n < MaxLimbs THEN n ELSE MaxLimbs) |->
                   (Limb(b, i - limb_shift) * (2 ^ (bits % LimbBits))) % Base])

ShiftLeft(b, bits) ==
    LET limb_shift == bits \div LimbBits
        bit_shift  == bits % LimbBits
        n          == Len(b) + limb_shift + 1
    IN  IF b = <<>> THEN b
        ELSE Trimmed([i \in 1..(IF n < MaxLimbs THEN n ELSE MaxLimbs) |->
                        ((Limb(b, i - limb_shift) * (2 ^ bit_shift)) % Base)
                          + (Limb(b, i - limb_shift - 1) \div (2 ^ (LimbBits - bit_shift)))])

\* Fault: the carry stops one limb too early.
MultiplySmallFault(b, factor) ==
    LET carry[i \in 0..MaxLimbs] ==
            IF i = 0 THEN 0 ELSE (carry[i - 1] + Limb(b, i) * factor) \div Base
        n == Least({k \in Len(b)..MaxLimbs : carry[k] = 0 \/ k >= MaxLimbs - 1})
    IN  [i \in 1..n |-> (carry[i - 1] + Limb(b, i) * factor) % Base]

MultiplySmall(b, factor) ==
    LET carry[i \in 0..MaxLimbs] ==
            IF i = 0 THEN 0 ELSE (carry[i - 1] + Limb(b, i) * factor) \div Base
        n == Least({k \in Len(b)..MaxLimbs : carry[k] = 0 \/ k = MaxLimbs})
    IN  [i \in 1..n |-> (carry[i - 1] + Limb(b, i) * factor) % Base]

\* -1, 0 or 1.
Compare(lhs, rhs) ==
    LET Order(l, r) == IF l < r THEN -1 ELSE 1
    IN  IF Len(lhs) # Len(rhs) THEN Order(Len(lhs), Len(rhs))
        ELSE IF lhs = rhs THEN 0
        ELSE LET top == CHOOSE i \in 1..Len(lhs) :
                            /\ lhs[i] # rhs[i]
                            /\ \A k \in (i + 1)..Len(lhs) : lhs[k] = rhs[k]
             IN  Order(lhs[top], rhs[top])

\* Fault: the carry out of the last limb is forgotten.
AddFault(lhs, rhs) ==
    LET limit == IF Len(lhs) > Len(rhs) THEN Len(lhs) ELSE Len(rhs)
        carry[i \in 0..limit] ==
            IF i = 0 THEN 0 ELSE (carry[i - 1] + Limb(lhs, i) + Limb(rhs, i)) \div Base
    IN  [i \in 1..limit |-> (carry[i - 1] + Limb(lhs, i) + Limb(rhs, i)) % Base]

Add(lhs, rhs) ==
    LET limit == IF Len(lhs) > Len(rhs) THEN Len(lhs) ELSE Len(rhs)
        carry[i \in 0..limit] ==
            IF i = 0 THEN 0 ELSE (carry[i - 1] + Limb(lhs, i) + Limb(rhs, i)) \div Base
        sum == [i \in 1..limit |-> (carry[i - 1] + Limb(lhs, i) + Limb(rhs, i)) % Base]
    IN  IF carry[limit] # 0 /\ limit < MaxLimbs THEN Append(sum, carry[limit]) ELSE sum

\* lhs - rhs, for lhs >= rhs.
Subtract(lhs, rhs) ==
    LET borrow[i \in 0..Len(lhs)] ==
            IF i > 0 /\ Limb(lhs, i) - Limb(rhs, i) - borrow[i - 1] < 0 THEN 1 ELSE 0
    IN  Trimmed([i \in 1..Len(lhs) |->
                   (Limb(lhs, i) - Limb(rhs, i) - borrow[i - 1]) % Base])

=============================================================================
