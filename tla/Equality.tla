------------------------------ MODULE Equality ------------------------------
(***************************************************************************)
(* operator== of the runtime value: member by member, and for numbers by   *)
(* the integers when both have one and by the doubles otherwise.  A double *)
(* is counted in halves; up to Exact it has every integer, and from there  *)
(* to 2 * Exact the even ones (Exact is 2^53 for IEEE double).             *)
(***************************************************************************)
EXTENDS Integers, Sequences

CONSTANTS
    Values,  \* the values that are made, with all they hold
    Depth,   \* how deep each is nested: a value owns its elements and members
    Exact

ASSUME ExactAssumption == Exact \in Nat \ {0}

Kind == {"object", "array", "string", "number", "boolean", "null"}

\* Rounded to the nearest double, from halfway to the one with the even mantissa.
Nearest(n) == IF n \in -Exact..Exact \/ n % 2 = 0 THEN n ELSE IF n % 4 = 1 THEN n - 1 ELSE n + 1

\* What the factories make.
ASSUME ValuesAssumption ==
    /\ Depth \in [Values -> Nat]
    /\ \A v \in Values :
          /\ v.kind \in Kind
          /\ v.kind = "number" =>
                /\ v.integral => v.integer \in Int /\ v.floating = 2 * Nearest(v.integer) /\ ~v.nan
                /\ v.floating \in Int
          /\ v.elements \in Seq(Values)
          /\ v.members \in Seq({v.members[i] : i \in DOMAIN v.members})
          /\ \A i \in DOMAIN v.members : v.members[i].value \in Values
          /\ \A i \in DOMAIN v.elements : Depth[v.elements[i]] < Depth[v]
          /\ \A i \in DOMAIN v.members : Depth[v.members[i].value] < Depth[v]

VARIABLES a, b, c, equal

-----------------------------------------------------------------------------
Nothing == [kind |-> "null", boolean |-> FALSE, integral |-> FALSE, integer |-> 0,
            floating |-> 0, nan |-> FALSE, string |-> "", elements |-> <<>>, members |-> <<>>]

MakeInteger(n) == [Nothing EXCEPT !.kind = "number", !.integral = TRUE, !.integer = n,
                                  !.floating = 2 * Nearest(n)]

\* The cast to an integer cuts off towards zero.
Truncated(halves) == IF halves < 0 THEN -((-halves) \div 2) ELSE halves \div 2

MakeDouble(halves) == [Nothing EXCEPT !.kind = "number", !.integer = Truncated(halves),
                                      !.floating = halves]

MakeNaN == [Nothing EXCEPT !.kind = "number", !.nan = TRUE]

\* Fault: the integers are compared when one of them has one.
SameNumberFault(lhs, rhs) ==
    IF lhs.integral \/ rhs.integral THEN lhs.integer = rhs.integer
    ELSE ~lhs.nan /\ ~rhs.nan /\ lhs.floating = rhs.floating

SameNumber(lhs, rhs) ==
    IF lhs.integral /\ rhs.integral THEN lhs.integer = rhs.integer
    ELSE ~lhs.nan /\ ~rhs.nan /\ lhs.floating = rhs.floating

Equal[pair \in Values \X Values] ==
    LET lhs == pair[1]
        rhs == pair[2]
    IN  /\ lhs.kind = rhs.kind
        /\ lhs.kind = "boolean" => lhs.boolean = rhs.boolean
        /\ lhs.kind = "number"  => SameNumber(lhs, rhs)
        /\ lhs.kind = "string"  => lhs.string = rhs.string
        /\ lhs.kind = "array"   =>
              /\ Len(lhs.elements) = Len(rhs.elements)
              /\ \A i \in DOMAIN lhs.elements : Equal[<<lhs.elements[i], rhs.elements[i]>>]
        /\ lhs.kind = "object"  =>
              /\ Len(lhs.members) = Len(rhs.members)
              /\ \A i \in DOMAIN lhs.members :
                    /\ lhs.members[i].key = rhs.members[i].key
                    /\ Equal[<<lhs.members[i].value, rhs.members[i].value>>]

-----------------------------------------------------------------------------
compared == <<a, b, c, equal>>

CompareInit == a \in Values /\ b \in Values /\ c \in Values /\ equal = <<>>

Compare == /\ equal = <<>>
           /\ equal' = [aa |-> Equal[<<a, a>>], ab |-> Equal[<<a, b>>], ba |-> Equal[<<b, a>>],
                        bc |-> Equal[<<b, c>>], ac |-> Equal[<<a, c>>]]
           /\ UNCHANGED <<a, b, c>>

Compared == equal # <<>> /\ UNCHANGED compared

CompareNext == Compare \/ Compared

CompareSpec == CompareInit /\ [][CompareNext]_compared

-----------------------------------------------------------------------------
(***************************************************************************)
(* Property.                                                               *)
(***************************************************************************)
\* No NaN, and no integer that the doubles do not have.
Exactly[v \in Values] ==
    /\ v.kind = "number" => ~v.nan /\ (v.integral => v.integer \in -Exact..Exact)
    /\ \A i \in DOMAIN v.elements : Exactly[v.elements[i]]
    /\ \A i \in DOMAIN v.members : Exactly[v.members[i].value]

\* == is reflexive, symmetric and transitive, however integers and doubles are mixed:
\* 1 equals 1.0 and 1.0 equals 1.  Not beyond Exact: 2^53 + 1 and 2^53 both equal the
\* double they are rounded to, and not each other.
Equivalence ==
    equal # <<>> /\ (\A v \in {a, b, c} : Exactly[v]) =>
        /\ equal.aa
        /\ equal.ab = equal.ba
        /\ equal.ab /\ equal.bc => equal.ac

=============================================================================
