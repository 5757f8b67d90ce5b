------------------------------- MODULE LsmMap -------------------------------
(***************************************************************************)
(* What an LSM tree promises: it is a map.  A session calls an update, the *)
(* update takes effect at one instant of the call or the call fails, and   *)
(* nothing else changes the map except truncating or dropping it while no  *)
(* call is running.  An update may leave no trace only if another session  *)
(* updated the same key during the call: it then counts as having come     *)
(* first.                                                                  *)
(***************************************************************************)
CONSTANTS Sessions, Keys, Values, NULL, Tomb, NoRec

VARIABLES kv, pend

Value(v) == IF v = Tomb THEN NoRec ELSE v

Init == /\ kv \in [Keys -> Values \cup {NoRec}]
        /\ pend = [s \in Sessions |-> NULL]

Calls == [k : Keys, v : Values \cup {Tomb}, done : {FALSE}, raced : {FALSE}]

Call(s) ==
    /\ pend[s] = NULL
    /\ pend'[s] \in Calls
    /\ pend' = [pend EXCEPT ![s] = pend'[s]]
    /\ UNCHANGED kv

\* The update takes effect, before or after those it races with.
Apply(s) ==
    LET p == pend[s] IN
    /\ p # NULL /\ ~p.done
    /\ pend' = [t \in Sessions |->
                  IF t = s THEN [p EXCEPT !.done = TRUE]
                  ELSE IF pend[t] # NULL /\ pend[t].k = p.k
                  THEN [pend[t] EXCEPT !.raced = TRUE] ELSE pend[t]]
    /\ \/ kv' = [kv EXCEPT ![p.k] = Value(p.v)]
       \/ p.raced /\ UNCHANGED kv

\* The call returns; one that was not applied has failed.
Return(s) ==
    /\ pend[s] # NULL
    /\ pend' = [pend EXCEPT ![s] = NULL]
    /\ UNCHANGED kv

\* WT_SESSION::truncate and WT_SESSION::drop need the tree for themselves.
Clear ==
    /\ \A s \in Sessions : pend[s] = NULL
    /\ UNCHANGED pend
    /\ kv' = [k \in Keys |-> NoRec]

\* Most steps of a tree leave the map alone.
Next == UNCHANGED <<kv, pend>> \/ (\E s \in Sessions : Call(s) \/ Apply(s) \/ Return(s)) \/ Clear

Spec == Init /\ [][Next]_<<kv, pend>>
=============================================================================
