------------------------------ MODULE MCBlock ------------------------------
(* A file of six blocks, and one of four that is closed and opened and whose *)
(* checkpoints may fail.                                                     *)
EXTENDS BlockCkpt

MCUses == {[blocks |-> 6, closes |-> 0, failures |-> 0],
           [blocks |-> 4, closes |-> 1, failures |-> 1]}
=============================================================================
