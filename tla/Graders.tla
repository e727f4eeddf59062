------------------------------- MODULE Graders ------------------------------
(***************************************************************************)
(* The two graders that run student code in this repository: btest on the  *)
(* puzzles of the data lab, driver.py with test-trans and tracegen on the  *)
(* transposes of the cache lab. A run is of one or of the other.           *)
(***************************************************************************)
EXTENDS Btest, Trans

BtestOff == session = <<>> /\ pc = "off" /\ t = 0 /\ vals = <<>> /\ n = 0
            /\ pending = 0 /\ masked = FALSE /\ verdict = <<>> /\ points = 0
            /\ max_points = 0 /\ spent = <<>> /\ astray = 0
TransOff == shapes = <<>> /\ stage = "off" /\ func = 0 /\ i = 0 /\ j = 0 /\ k = 0
            /\ B = <<>> /\ cache = <<>> /\ misses = 0 /\ results = <<>> /\ printed = <<>>

vars == <<btestVars, transVars>>
Init == (BtestInit /\ TransOff) \/ (TransInit /\ BtestOff)
Next == (BtestNext /\ UNCHANGED transVars) \/ (TransNext /\ UNCHANGED btestVars)

Spec == Init /\ [][Next]_vars

=============================================================================
