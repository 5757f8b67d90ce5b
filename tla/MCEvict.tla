------------------------------- MODULE MCEvict -------------------------------
(* The eviction server on two trees, of two pages and of one.               *)
EXTENDS EvictServer, TLC

CONSTANTS s1, s2, t1, t2, p1, p2, p3

MCTreeOf == p1 :> t1 @@ p2 :> t1 @@ p3 :> t2

Setup(mem, dirt, first, second) ==
    [mem |-> mem, dirty |-> dirt, calls |-> s1 :> first @@ s2 :> second]

MCSetups ==
    { \* a flush while another thread, over the limit, evicts in the same tree
      Setup({p1, p2}, {p1}, << <<"sync", t1>> >>, << <<"access", p1>> >>),
      \* a tree is closed while a user of another tree evicts in it
      Setup({p1}, {p1}, << <<"discard", t1>> >>, << <<"access", p3>> >>),
      \* a page is read into a full cache while a flush of its tree is under way
      Setup({p1}, {p1}, << <<"sync", t1>> >>, << <<"exempt", p2>> >>),
      \* one session's second flush, with an update in between
      Setup({p1}, {p1}, << <<"sync", t1>>, <<"sync", t1>> >>, << <<"access", p1>> >>),
      \* two requests at once, for one tree and for two
      Setup({p1}, {p1}, << <<"sync", t1>> >>, << <<"compact", t1>> >>),
      Setup({p1, p3}, {p1, p3}, << <<"discard", t1>> >>, << <<"nowrite", t2>> >>),
      \* a tree is closed and opened again
      Setup({p1}, {}, << <<"nowrite", t1>>, <<"reopen", t1>> >>, << <<"access", p1>> >>) }
=============================================================================
