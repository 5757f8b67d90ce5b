-------------------------------- MODULE MCLsm --------------------------------
(* A small LSM tree: Bloom filters on merged chunks, and also on new ones.    *)
EXTENDS LsmTree

Calls(ids, sessions, rows, cursors, puts, searches, clears, closes, fails) ==
    [ids |-> ids, sessions |-> sessions, rows |-> rows, cursor |-> cursors, put |-> puts,
     search |-> searches, clear |-> clears, close |-> closes, fail |-> fails]

One(S) == {CHOOSE x \in S : TRUE}
Row == One(Keys) \X Values
RowOrNot == One(Keys) \X (Values \cup {Tomb})
Rows == Keys \X Values

\* A tree that is created, its new chunks with Bloom filters or without.
New(newest, size, bounds) ==
    [bloom |-> [newest |-> newest, merged |-> TRUE, oldest |-> FALSE],
     size |-> size, start |-> << >>, calls |-> bounds]

\* A tree that was closed with these chunks.  Every merged chunk gets a filter.
Left(chunks, bounds) ==
    [bloom |-> [newest |-> FALSE, merged |-> TRUE, oldest |-> TRUE], size |-> 1,
     start |-> [i \in DOMAIN chunks |->
                  [k \in Keys |-> IF k \in One(Keys) THEN chunks[i][1] ELSE chunks[i][2]]],
     calls |-> bounds]
Val == CHOOSE x \in Values : TRUE

MCSetups == {New(TRUE, 0, Calls(5, One(Sessions), RowOrNot, 1, 2, 0, 0, 0, 0)),
             New(TRUE, 0, Calls(5, One(Sessions), Row, 1, 2, 0, 0, 1, 0)),
             Left(<< <<Val, NoRec>>, <<Tomb, Val>>, <<NoRec, NoRec>> >>,
                  Calls(5, Sessions, Row, 2, 1, 1, 0, 0, 0)),
             Left(<< <<Val, NoRec>>, <<NoRec, Val>>, <<Val, NoRec>> >>,
                  Calls(4, One(Sessions), RowOrNot, 1, 1, 1, 0, 1, 1)),
             New(FALSE, 1, Calls(4, One(Sessions), Rows, 1, 2, 0, 0, 2, 0)),
             New(FALSE, 0, Calls(3, Sessions, RowOrNot, 2, 2, 0, 0, 0, 0)),
             New(FALSE, 1, Calls(3, Sessions, Row, 2, 1, 0, 1, 0, 0)),
             New(TRUE, 1, Calls(3, One(Sessions), Row, 2, 1, 0, 0, 1, 0)),
             New(TRUE, 1, Calls(2, One(Sessions), Row, 1, 0, 0, 1, 1, 0))}

Symmetry == Permutations(Sessions)
=============================================================================
