------------------------------ MODULE MCHandles ------------------------------
(* Two sessions, one application checkpoint name. *)
EXTENDS Handles, TLC

CONSTANTS s1, s2

MCNames == {<<"a", 0>>}
MCDrops == {<<"none", Live>>, <<"from", <<"all", 0>>>>}
New == {}
Written1 == {[name |-> Internal(1), order |-> 1, addr |-> 1]}
MCSetups ==
  [ckpts : {New, Written1}, use : {s1 :> {"checkpoint", "close"} @@ s2 :> {"open", "last", "close"}}]
  \union [ckpts : {New}, use : {s1 :> {"bulk"} @@ s2 :> {"open", "checkpoint", "drop", "create"}}]
  \union [ckpts : {Written1}, use : {s1 :> {"verify", "checkpoint", "backup"} @@ s2 :> {"open", "last"}}]
=============================================================================
