------------------------------- MODULE BitSets -------------------------------
(***************************************************************************)
(* Numbers of up to 16 bits as the sets of their bits, the bitwise         *)
(* operators of C in these terms, and a loop.                              *)
(***************************************************************************)
EXTENDS Integers

BitsOf(x) == {k \in 0 .. 15 : (x \div 2 ^ k) % 2 = 1}

\* the number with the bits S
Num(S) ==
    LET w(k) == IF k \in S THEN 2 ^ k ELSE 0
    IN  w(0) + (w(1) + (w(2) + (w(3) + (w(4) + (w(5) + (w(6) + (w(7) + (w(8)
        + (w(9) + (w(10) + (w(11) + (w(12) + (w(13) + (w(14) + w(15)))))))))))))))

And(x, y) == Num(BitsOf(x) \cap BitsOf(y))
Or(x, y)  == Num(BitsOf(x) \cup BitsOf(y))
Xor(x, y) == Num((BitsOf(x) \ BitsOf(y)) \cup (BitsOf(y) \ BitsOf(x)))

\* for (k = 1; k <= n; k++) a = Op(k, a);
Iterate(Op(_, _), a, n) ==
    LET r[k \in 0 .. n] == IF k = 0 THEN a ELSE Op(k, r[k - 1])
    IN  r[n]
=============================================================================
