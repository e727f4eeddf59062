------------------------------ MODULE MCGraders -----------------------------
(* The calls of btest and the shapes that TLC checks. With the puzzles' own   *)
(* test vectors or with the given arguments, nothing loops and no time goes   *)
(* by; loops and lost seconds are tried on one triple of arguments.           *)
EXTENDS Graders

\* The words of the instance: each single bit, each run of low bits, and their
\* complements; floats at the edges of the exponents.
Edges == {{b} : b \in Positions} \cup {0..b : b \in Positions}
Ints == Edges \cup {Not(w) : w \in Edges}
Fractions == {{}, {0}, {0, 1}, 0..22, 1..22, {22}}
Floats == {Pack(s, e, f) : s \in {{}, {31}}, f \in Fractions,
                           e \in {0, 1, 2, 126, 127, 149, 150, 151, 157, 158, 254, 255}}
Few == {{}, {0}, {31}, 0..30, Positions, {1, 31}}

Ranges == <<3, 2, 1>>
Randoms == {{2, 3, 5, 7, 11, 13, 17, 19, 23, 29, 31}, 4..29}
ByHand == (1..6) \X (1..9)

CONSTANTS slow_seconds, loop_sets
GraderSessions ==
    {[given |-> g, loops |-> {}, seconds |-> 0] :
        g \in {<<>>} \cup {<<x, y, {0, 4}>> : x \in Ints, y \in Few} \cup
              {<<x, {}, {}>> : x \in Floats}} \cup
    {[given |-> <<{5}, {3, 4}, {31}>>, loops |-> l, seconds |-> s] :
        l \in loop_sets, s \in 0..slow_seconds}
=============================================================================
