------------------------------ MODULE CursorMap ------------------------------
(***************************************************************************)
(* What a cursor on a file promises (the WT_CURSOR methods and             *)
(* WT_SESSION::truncate of wiredtiger.in): an ordered map from keys to     *)
(* values and a position in it.  BtCursor shows that the three page        *)
(* layouts of the btree implement it.  A fixed-length column store differs *)
(* in two ways: its keys are always 1..n, and removing a record sets it to *)
(* zero.                                                                   *)
(***************************************************************************)
EXTENDS Integers, FiniteSetsExt

CONSTANTS Keys,       \* the keys an application uses: 1..n
          New,        \* the value the application writes
          Zero        \* the value of an unset fixed-length record

VARIABLES map,        \* [key -> value], the records the session can see
          at,         \* the key the cursor is at, 0 when it is nowhere
          out,        \* the last call and what it returned
          fix,        \* a fixed-length column store
          open        \* the calls nothing is promised about in this state

vars == <<map, at, out, fix>>

\* The turn tells two calls that return the same from one.
Return(ret, k, v, exact) ==
  /\ out' = [call |-> out'.call, ret |-> ret, key |-> k, val |-> v, exact |-> exact, turn |-> ~out.turn]
  /\ at' = k

Failed(why) == Return(why, 0, Zero, 0) /\ UNCHANGED map
MoveTo(k, exact) == Return("ok", k, map[k], exact) /\ UNCHANGED map
Change(k, m) == Return("ok", k, Zero, 0) /\ map' = m

Larger(k) == {j \in DOMAIN map : j > k}
Smaller(k) == {j \in DOMAIN map : j < k}

\* A fixed-length store creates every missing record before the one it writes.
Stored(k) ==
  [j \in DOMAIN map \union (IF fix THEN 1 .. k ELSE {k}) |->
     IF j = k THEN New ELSE IF j \in DOMAIN map THEN map[j] ELSE Zero]
Without(ks) == IF fix THEN [j \in DOMAIN map |-> IF j \in ks THEN Zero ELSE map[j]]
               ELSE [j \in DOMAIN map \ ks |-> map[j]]

Called(call) == out'.call = call

Search(k) == /\ Called(<<"search", k>>)
             /\ IF k \in DOMAIN map THEN MoveTo(k, 0) ELSE Failed("notfound")

\* The record itself, or one of its two neighbours with the sign of the difference.
SearchNear(k) ==
  /\ Called(<<"near", k>>)
  /\ \/ DOMAIN map = {} /\ Failed("notfound")
     \/ k \in DOMAIN map /\ MoveTo(k, 0)
     \/ k \notin DOMAIN map /\ Larger(k) # {} /\ MoveTo(Min(Larger(k)), 1)
     \/ k \notin DOMAIN map /\ Smaller(k) # {} /\ MoveTo(Max(Smaller(k)), -1)

Forward == /\ Called(<<"next">>)
           /\ IF Larger(at) = {} THEN Failed("notfound") ELSE MoveTo(Min(Larger(at)), 0)
Backward == /\ Called(<<"prev">>)
            /\ LET before == IF at = 0 THEN DOMAIN map ELSE Smaller(at)
               IN IF before = {} THEN Failed("notfound") ELSE MoveTo(Max(before), 0)
Reset == Called(<<"reset">>) /\ Failed("ok")

Insert(k, overwrite) ==
  /\ Called(<<"insert", k, overwrite>>)
  /\ IF k \in DOMAIN map /\ ~overwrite THEN Failed("duplicate") ELSE Change(k, Stored(k))

\* The new record follows every record there is.
Append == /\ Called(<<"append">>)
          /\ \A k \in DOMAIN map : k < at'
          /\ Change(at', Stored(at'))

Update(k) == /\ Called(<<"update", k>>)
             /\ IF k \in DOMAIN map THEN Change(k, Stored(k)) ELSE Failed("notfound")
Remove(k) == /\ Called(<<"remove", k>>)
             /\ IF k \in DOMAIN map THEN Change(k, Without({k})) ELSE Failed("notfound")

\* The records from a to b are discarded; 0 stands for a cursor that is not given.
Truncate(a, b) ==
  /\ Called(<<"truncate", a, b>>)
  /\ Return(IF DOMAIN map = {} THEN "notfound" ELSE "ok", 0, Zero, 0)
  /\ map' = Without({k \in DOMAIN map : k >= a /\ (b = 0 \/ k <= b)})

Method(name) == out'.call[1] = name
Step ==
  \/ Method("search") /\ \E k \in Keys : Search(k)
  \/ Method("near") /\ \E k \in Keys : SearchNear(k)
  \/ Method("next") /\ Forward
  \/ Method("prev") /\ Backward
  \/ Method("reset") /\ Reset
  \/ Method("insert") /\ \E k \in Keys, overwrite \in BOOLEAN : Insert(k, overwrite)
  \/ Method("append") /\ Append
  \/ Method("update") /\ \E k \in Keys : Update(k)
  \/ Method("remove") /\ \E k \in Keys : Remove(k)
  \/ Method("truncate") /\ \E a, b \in Keys \union {0} : Truncate(a, b)

\* A call of the set open may return and do anything.
Next == (Step \/ out'.call \in open) /\ fix' = fix

Spec == [][Next]_vars
=============================================================================
