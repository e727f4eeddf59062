-------------------------------- MODULE Btest -------------------------------
(***************************************************************************)
(* btest.c: run_tests calls test_function on every puzzle of decl.c, with  *)
(* an alarm that a puzzle which loops never sees coming. The alarm is      *)
(* never cancelled, only set again by the next puzzle, so one that is left *)
(* over goes off wherever the program then is.                             *)
(*                                                                         *)
(* Options: -g changes nothing but what is printed, -f and -r are left     *)
(* out, as is the reading of numbers; the time limit is positive.          *)
(***************************************************************************)
EXTENDS Bits

CONSTANTS
    timeout_limit,   \* -T, in seconds
    test_ranges,     \* arg_test_range of a puzzle with 1, 2 and 3 arguments
    random_vals,     \* what random_val may draw
    Sessions         \* how btest is called, on which puzzles: a set of records
                     \* of given, the arguments of -1 -2 -3 (<<>> for none),
                     \* loops, the puzzles that do not return, and seconds,
                     \* how many go by while no puzzle loops

ASSUME TimeoutAssumption == timeout_limit \in Nat \ {0}

VARIABLES
    session,    \* what Sessions says, seconds counted down
    pc,         \* where btest is
    t,          \* index of the puzzle in test_set
    vals,       \* arg_test_vals
    n,          \* how many argument vectors were tried, this one included
    pending,    \* seconds to the alarm, 0 for none
    masked,     \* SIGALRM is blocked
    verdict,    \* what the last line about each puzzle says
    points, max_points,
    spent,      \* seconds that each puzzle was given since its alarm was set
    astray      \* seconds of a pending alarm that went by in no puzzle

btestVars == <<session, pc, t, vals, n, pending, masked, verdict, points,
               max_points, spent, astray>>

Tests == 1..Len(test_set)
this == test_set[t]

BtestInit ==
    /\ session \in Sessions
    /\ pc = "run" /\ t = 1 /\ vals = <<>> /\ n = 0
    /\ pending = 0 /\ masked = FALSE
    /\ verdict = [p \in Tests |-> "none"]
    /\ points = 0 /\ max_points = 0
    /\ spent = [p \in Tests |-> 0] /\ astray = 0

----------------------------------------------------------------------------
(* gen_vals: every vector of values that it may leave.                       *)

Signed(x) == <<x, x \cup {31}>>
smallest_norm == {23}
one == 23..29
largest_norm == 0..30 \ {23}
inf == 23..30
nan == 22..30

FloatVals(i) ==
    LET w == Num(i)
    IN  Signed(w) \o
        <<Plus(smallest_norm, w), Minus(smallest_norm, w)>> \o
        <<Plus(smallest_norm, w) \cup {31}, Minus(smallest_norm, w) \cup {31}>> \o
        <<Plus(one, w), Minus(one, w), Plus(one, w) \cup {31}, Minus(one, w) \cup {31}>> \o
        Signed(Minus(largest_norm, w))

IntVals(i, r) == <<Plus(TMin, Num(i)), Minus(TMax, Num(i)), Num(i), Neg(Num(i)), r>>

gen_vals(test_range, arg) ==
    CASE session.given # <<>> -> {<<session.given[arg]>>}
      [] session.given = <<>> /\ this.name \in {"float_half", "float_i2f", "float_f2i"} ->
           {FlattenSeq([i \in 1..test_range |-> FloatVals(i - 1)]) \o Signed(inf) \o Signed(nan)}
      [] OTHER ->
           {FlattenSeq([i \in 1..test_range |-> IntVals(i - 1, r[i])]) :
              r \in [1..test_range -> random_vals]}

\* The n-th vector of arguments in the order of the three loops.
Counts == [i \in 1..this.args |-> Len(vals[i])]
Below(i) == FoldLeft(LAMBDA p, c : p * c, 1, SubSeq(Counts, i + 1, this.args))
Vectors == IF this.args = 0 THEN 1 ELSE Counts[1] * Below(1)
Arguments == [i \in 1..this.args |-> vals[i][1 + (((n - 1) \div Below(i)) % Counts[i])]]

----------------------------------------------------------------------------
\* run_tests calls test_function, which makes its test vectors and then marks
\* where a timeout comes back to.
MakeVals ==
    /\ pc = "run" /\ t \in Tests
    /\ pc' = "gen"
    /\ UNCHANGED <<session, t, vals, n, pending, masked, verdict, points, max_points,
                   spent, astray>>

sigsetjmp ==
    /\ pc = "gen"
    /\ vals' \in LET r == test_ranges[IF this.args = 0 THEN 3 ELSE this.args]
                 IN  CASE this.args = 0 -> {<<>>}
                       [] this.args = 1 -> {<<v>> : v \in gen_vals(r, 1)}
                       [] this.args = 2 -> gen_vals(r, 1) \X gen_vals(r, 2)
                       [] this.args = 3 -> gen_vals(r, 1) \X gen_vals(r, 2) \X gen_vals(r, 3)
    /\ pc' = "set"
    /\ UNCHANGED <<session, t, n, pending, masked, verdict, points, max_points, spent, astray>>

alarm ==
    /\ pc = "set"
    /\ pending' = timeout_limit
    /\ n' = 1
    /\ pc' = "call"
    /\ UNCHANGED <<session, t, vals, masked, verdict, points, max_points, spent, astray>>

Judged(v) ==
    /\ verdict' = [verdict EXCEPT ![t] = v]
    /\ pc' = "judged"
    /\ n' = 0 /\ vals' = <<>>

\* test_0_arg to test_3_arg: one vector, up to the first that fails.
Call ==
    /\ pc = "call" /\ this.name \notin session.loops
    /\ LET error == solution_funct(this.name, Arguments) # test_funct(this.name, Arguments)
       IN  \/ /\ error \/ n = Vectors
              /\ Judged(IF error THEN "wrong" ELSE "right")
           \/ /\ ~error /\ n < Vectors
              /\ n' = n + 1
              /\ UNCHANGED <<pc, vals, verdict>>
    /\ UNCHANGED <<session, t, pending, masked, points, max_points, spent, astray>>

\* run_tests counts the points and goes on.
Tally ==
    /\ pc = "judged"
    /\ points' = points + IF verdict[t] = "right" THEN this.rating ELSE 0
    /\ max_points' = max_points + this.rating
    /\ t' = t + 1
    /\ pc' = "run"
    /\ UNCHANGED <<session, vals, n, pending, masked, verdict, spent, astray>>

Exit ==
    /\ pc = "run" /\ t \notin Tests
    /\ pc' = "exit"
    /\ pending' = 0
    /\ UNCHANGED <<session, t, vals, n, masked, verdict, points, max_points, spent, astray>>

----------------------------------------------------------------------------
(* Mutant: sigsetjmp(envbuf, 0) saves no mask. *)
MutantMaskKept == masked' = TRUE

\* siglongjmp gives back the signal mask of sigsetjmp.
siglongjmp == masked' = FALSE

\* test_function returns 1, wherever the alarm found the program.  Before
\* sigsetjmp the buffer is that of the call before, whose frame lay where this
\* one lies, and t is read afresh.  After the return either the frame is
\* untouched and returns once more, to count the puzzle again, or a call of
\* run_tests has written over it and the program dies.
timeout_handler ==
    \/ /\ pc \in {"gen", "set", "call", "judged"}
       /\ Judged("timeout") /\ siglongjmp
       /\ UNCHANGED t
    \/ /\ pc = "run"
       /\ t' = t - 1
       /\ verdict' = [verdict EXCEPT ![t - 1] = "timeout"]
       /\ pc' = "judged" /\ siglongjmp
       /\ UNCHANGED <<n, vals>>
    \/ /\ pc \in {"run", "judged"}
       /\ pc' = "dead"
       /\ UNCHANGED <<t, vals, n, masked, verdict>>

\* A second goes by: in a puzzle that loops, or anywhere in a slow session.
Looping == pc = "call" /\ this.name \in session.loops
Second ==
    /\ pending > 0 /\ pc # "dead"
    /\ Looping \/ session.seconds > 0
    /\ session' = [session EXCEPT !.seconds = IF Looping THEN @ ELSE @ - 1]
    /\ spent' = IF pc = "call" THEN [spent EXCEPT ![t] = @ + 1] ELSE spent
    /\ astray' = IF pc = "call" THEN astray ELSE astray + 1
    /\ pending' = pending - 1
    /\ \/ pending = 1 /\ ~masked /\ timeout_handler
       \/ /\ pending > 1 \/ masked
          /\ UNCHANGED <<pc, t, vals, n, masked, verdict>>
    /\ UNCHANGED <<points, max_points>>

Work == MakeVals \/ sigsetjmp \/ alarm \/ Call \/ Tally \/ Exit
BtestNext == Work \/ Second

----------------------------------------------------------------------------
\* Where bits.c and its reference differ is exactly known: every other call
\* that btest makes gives the same word on both sides, the floats at the edge
\* between denormal and normal included (bits.c, all puzzles).
MeetsReference ==
    pc = "call" =>
        (Differs(this.name, Arguments)
           <=> solution_funct(this.name, Arguments) # test_funct(this.name, Arguments))

Fails(p) ==
    LET name == test_set[p].name
    IN  IF session.given = <<>> THEN name = "float_i2f" ELSE Differs(name, session.given)
Loops(p) == test_set[p].name \in session.loops

Deserved(p) ==
    CASE spent[p] = timeout_limit -> "timeout"
      [] Loops(p) -> "none"
      [] OTHER -> IF Fails(p) THEN "wrong" ELSE "right"

\* No puzzle runs without an alarm that will reach it, after whatever timeouts
\* came before, and no puzzle is right that fails or loops (test_function).
\* When btest ends every puzzle is judged, and each as it deserves, with the
\* points of the right ones, unless a second of a left-over alarm went by
\* between two puzzles: the alarm of one may then strike the next, count a
\* puzzle twice, or end the program in a frame that is gone.
JudgedFairly ==
    /\ pc = "call" => pending > 0 /\ ~masked
    /\ \A p \in DOMAIN verdict : verdict[p] = "right" => ~Fails(p) /\ ~Loops(p)
    /\ pc = "dead" => astray > 0
    /\ pc = "exit" => \A p \in Tests : verdict[p] # "none"
    /\ pc = "exit" /\ astray = 0 =>
         /\ \A p \in Tests : verdict[p] = Deserved(p)
         /\ points = MapThenSumSet(LAMBDA p : test_set[p].rating,
                                   {p \in Tests : verdict[p] = "right"})
         /\ max_points = 37

=============================================================================
