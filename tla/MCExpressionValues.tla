------------------------- MODULE MCExpressionValues -------------------------
(* Numbers of a few bits: i64 is -8 .. 7, u64 is 0 .. 15, and an f64 has three *)
(* bits of mantissa, so that floats begin to leave out integers after 8, and   *)
(* 48 is displayed as 50.                                                      *)
EXTENDS ExpressionValues, FiniteSetsExt

MCFloats ==
    {s * m * e : s \in {-1, 1}, m \in 0 .. 7, e \in {1, 2, 4, 8, 16}}

MCDecimals == -120 .. 120

\* d halves are 5 * d tenths.
MCLength ==
    [d \in MCDecimals |->
        Min({k \in 0 .. 3 : \E m \in 0 .. 10 ^ k - 1, e \in 0 .. 3 :
                               m * 10 ^ e = 5 * Distance(d, 0)})]

MCLiterals ==
    {<<"integer", n>> : n \in -12 .. 20 \cup {-48, 32, 40, 48, 56}}
      \cup {<<"decimal", h>> : h \in -20 .. 20}
      \cup {<<"null">>, <<"bool", FALSE>>, <<"string", "text">>, <<"list">>}
=============================================================================
