-------------------------------- MODULE Trans -------------------------------
(***************************************************************************)
(* The matrix transposes of trans.c, and the programs that grade them:     *)
(* driver.py runs test-trans on one shape after the other, which runs each *)
(* function in tracegen, validates what it left in B and counts the misses *)
(* of its loads and stores in a cache of 32 lines of 32 bytes.             *)
(*                                                                         *)
(* A and B are linear memory: A[i][j] of an int[N][M] is word i * M + j,   *)
(* inside the 256 * 256 words that tracegen has. Of A only the place of a  *)
(* word matters: initMatrix fills the first M * N with random words, which *)
(* are taken to differ. The marker, the stack and the globals that the     *)
(* call of the function reads are left out of the trace.                   *)
(***************************************************************************)
EXTENDS Integers, Sequences, SequencesExt, FiniteSets

CONSTANT OtherShapes     \* shapes <<M, N>> given to test-trans by hand

\* The shapes of driver.py, in its order.
DriverShapes == <<<<32, 32>>, <<64, 64>>, <<61, 67>>>>

WordsPerLine == 8
CacheLines == 32
Static == 256 * 256     \* words between A and B
IntMax == 2147483647

VARIABLES
    shapes,     \* what test-trans is still to be run on, the present one first
    stage,         \* where test-trans is: it runs a function, checks it, or is done
    func,       \* index in func_list: 1 is transpose_submit, 2 is trans
    i, j, k,    \* the loop counters: block row, block column, row in the block
    B,          \* B as linear memory: the place in A its word came from, or -1
    cache,      \* the line that each set of the cache holds, -1 for none
    misses,
    results,    \* of transpose_submit: correct and misses
    printed     \* TEST_TRANS_RESULTS of the shapes done

transVars == <<shapes, stage, func, i, j, k, B, cache, misses, results, printed>>

M == shapes[1][1]
N == shapes[1][2]

\* The largest index that a block reaching over the edge can write.
Reach(m, n) == (m + 3) * n + n + 3
initMatrix == [x \in 0..Reach(M, N) |-> -1]
Cold == [s \in 0..(CacheLines - 1) |-> -1]

TransInit ==
    /\ shapes \in {DriverShapes} \cup {<<s>> : s \in OtherShapes}
    /\ stage = "trace" /\ func = 1
    /\ i = 0 /\ j = 0 /\ k = 0
    /\ B = initMatrix /\ cache = Cold /\ misses = 0
    /\ results = [correct |-> 0, misses |-> IntMax]
    /\ printed = <<>>

----------------------------------------------------------------------------
(* What one row of one block loads and stores.                               *)

Load(r, c) == <<[line |-> (r * M + c) \div WordsPerLine, store |-> FALSE]>>
Store(r, c) ==
    <<[line |-> (Static + c * N + r) \div WordsPerLine, store |-> TRUE,
       at |-> c * N + r, word |-> r * M + c]>>
Copy(r, c) == Load(r, c) \o Store(r, c)

BlockSize ==
    CASE func = 2 -> M
      [] func = 1 /\ M = 32 /\ N = 32 -> 8
      [] func = 1 /\ M = 61 /\ N = 67 -> 16
      [] OTHER -> 4
Rows == IF func = 2 THEN 1 ELSE BlockSize

\* Blocks of 16 stop at the edge of the matrix, those of 4 and 8 do not look.
Clipped == func = 1 /\ BlockSize = 16
Columns == IF Clipped THEN {c \in j..(j + 15) : c < M} ELSE j..(j + BlockSize - 1)
RowEnds == k + 1 = Rows \/ (Clipped /\ i + k + 1 = N)

(* Mutant: the diagonal's word is copied in its turn. *)
MutantDiagonalInTurn(r) ==
    FlattenSeq([x \in 1..Cardinality(Columns) |-> Copy(r, j + x - 1)])

\* The diagonal's word is stored last, its line of B being that of the row of
\* A; with blocks of 16 it is loaded in its turn.
transpose_submit(r) ==
    LET OnDiagonal(c) == IF Clipped THEN Load(r, c) ELSE <<>>
        OneColumn(c) == IF c = r THEN OnDiagonal(c) ELSE Copy(r, c)
        rest == FlattenSeq([x \in 1..Cardinality(Columns) |-> OneColumn(j + x - 1)])
    IN  rest \o (IF r \notin Columns THEN <<>>
                 ELSE IF Clipped THEN Store(r, r) ELSE Copy(r, r))

trans(r) == FlattenSeq([x \in 1..M |-> Copy(r, x - 1)])

\* One access: csim-ref with s = 5, E = 1, b = 5, and the word in B.
Access(m, a) ==
    LET set == a.line % CacheLines
        hit == m.cache[set] = a.line
    IN  [cache |-> IF hit THEN m.cache ELSE [m.cache EXCEPT ![set] = a.line],
         misses |-> IF hit THEN m.misses ELSE m.misses + 1,
         B |-> IF a.store THEN [m.B EXCEPT ![a.at] = a.word] ELSE m.B]

----------------------------------------------------------------------------
\* The innermost loop, and the counters of those around it.
Advance ==
    IF ~RowEnds THEN k' = k + 1 /\ UNCHANGED <<i, j, stage>>
    ELSE /\ k' = 0
         /\ j' = IF j + BlockSize < M THEN j + BlockSize ELSE 0
         /\ i' = IF j + BlockSize < M THEN i ELSE i + Rows
         /\ stage' = IF j + BlockSize >= M /\ i + Rows >= N THEN "validate" ELSE "trace"

RunRow ==
    /\ stage = "trace"
    /\ LET row == IF func = 1 THEN transpose_submit(i + k) ELSE trans(i + k)
           after == FoldLeft(Access, [cache |-> cache, misses |-> misses, B |-> B], row)
       IN  cache' = after.cache /\ misses' = after.misses /\ B' = after.B
    /\ Advance
    /\ UNCHANGED <<shapes, func, results, printed>>

\* validate against correctTrans; a word of A outside its N rows is no random
\* word.
validate == \A r \in 0..(N - 1), c \in 0..(M - 1) : B[c * N + r] = r * M + c

\* eval_perf: a function that fails is not traced; the next one starts cold.
Evaluate ==
    /\ stage = "validate"
    /\ results' = IF func = 1 /\ validate THEN [correct |-> 1, misses |-> misses] ELSE results
    /\ func' = func + 1
    /\ stage' = IF func = 2 THEN "print" ELSE "trace"
    /\ i' = 0 /\ j' = 0 /\ k' = 0
    /\ B' = initMatrix /\ cache' = Cold /\ misses' = 0
    /\ UNCHANGED <<shapes, printed>>

\* test-trans ends and driver.py goes on with the next shape.
Finish(r) ==
    /\ printed' = Append(printed, [shape |-> shapes[1], correct |-> r.correct,
                                    misses |-> r.misses])
    /\ shapes' = Tail(shapes)
    /\ stage' = IF Len(shapes) = 1 THEN "done" ELSE "trace"
    /\ func' = 1
    /\ i' = 0 /\ j' = 0 /\ k' = 0
    /\ B' = IF Len(shapes) = 1 THEN <<>>
            ELSE [x \in 0..Reach(shapes[2][1], shapes[2][2]) |-> -1]
    /\ cache' = Cold /\ misses' = 0
    /\ results' = [correct |-> 0, misses |-> IntMax]

PrintResults == stage = "print" /\ Finish(results)

\* The alarm of 120 seconds: valgrind may be slow.
sigalrm_handler ==
    stage \in {"trace", "validate", "print"} /\ Finish([correct |-> 0, misses |-> 0])

TransNext == RunRow \/ Evaluate \/ PrintResults \/ sigalrm_handler

----------------------------------------------------------------------------
\* driver.py: tenths of a point.
computeMissScore(miss, lower, upper, full_score) ==
    CASE miss <= lower -> 10 * full_score
      [] miss >= upper -> 0
      [] OTHER -> (20 * full_score * (upper - miss) + (upper - lower)) \div (2 * (upper - lower))

Limits == <<[lower |-> 300, upper |-> 600, full |-> 8],
            [lower |-> 1300, upper |-> 2000, full |-> 8],
            [lower |-> 2000, upper |-> 3000, full |-> 10]>>
Score(d, r) ==
    r.correct * computeMissScore(r.misses, Limits[d].lower, Limits[d].upper, Limits[d].full)

\* Blocks of 4 reach over the edge: a row too many of B is written beyond its
\* end, but a column too many over the start of the next row.
Fits(shape) == shape[2] % 4 = 0 \/ shape[1] = 1 \/ shape = <<61, 67>>
Earned == <<{80}, 20..29, {100}>>

\* transpose_submit is graded as correct exactly on the shapes that its blocks
\* fit; a run that fails or times out earns nothing; and driver.py gives it all
\* points for 32x32 and 61x67, whose misses stay within its limits, but between
\* 2 and 3 of 8 for 64x64 (trans.c transpose_submit, test-trans.c eval_perf,
\* driver.py main).
TransposesAndScores ==
    \A s \in 1..Len(printed) :
        LET r == printed[s]
            timedOut == r.correct = 0 /\ r.misses = 0
        IN  /\ timedOut \/ (r.correct = 1 <=> Fits(r.shape))
            /\ timedOut \/ (r.correct = 0 <=> r.misses = IntMax)
            /\ \A d \in 1..3 :
                 r.shape = DriverShapes[d] =>
                   Score(d, r) \in IF timedOut THEN {0} ELSE Earned[d]

=============================================================================
