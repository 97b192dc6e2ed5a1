---------------------------- MODULE MCCommandPath ----------------------------
(* Four bits to a float's mantissa, six to a word: rounding to the nearest, ties to even. *)
EXTENDS CommandPath

Nearest(n, step) ==
    LET q == n \div step
        r == n % step
    IN  step * (IF 2 * r > step \/ (2 * r = step /\ q % 2 = 1) THEN q + 1 ELSE q)

MCFloat == [n \in 0 .. Word - 1 |->
    CASE n <= Exact     -> n
      [] n <= 2 * Exact -> Nearest(n, 2)
      [] OTHER          -> Nearest(n, 4)]

MCTyped == {-32, -30, -1, 0, 1, 5, 6, 7, 16, 17, 31}
==============================================================================
