---------------------------- MODULE MCIngestion ----------------------------
(* Small instances of Ingestion for TLC. *)
EXTENDS Ingestion, TLC

CONSTANTS e1, e2, e3, e4, p1, p2, u1, u2, k1

Of(e, p, u) == [event |-> e, product |-> p, user |-> u]

(* An event alone and in batches that repeat it, with the same key and      *)
(* without one, and with a product that the catalogue may or may not know;  *)
(* syncs of one key with different content; feedback of one key likewise.   *)
MCSubmissions ==
    {[kind |-> "event", key |-> None, items |-> <<Of(e1, None, u1)>>],
     [kind |-> "event", key |-> None, items |-> <<Of(e4, p1, u2)>>],
     [kind |-> "batch", key |-> k1, items |-> <<Of(e1, p1, u2), Of(e1, None, u1), Of(e1, None, u2)>>],
     [kind |-> "batch", key |-> k1, items |-> <<Of(e2, None, u1)>>],
     [kind |-> "batch", key |-> None, items |-> <<Of(e2, None, u2), Of(e3, None, None)>>],
     [kind |-> "sync", key |-> k1, items |-> <<Of(None, p1, None), Of(None, p1, None)>>],
     [kind |-> "sync", key |-> k1, items |-> <<Of(None, p1, None), Of(None, p2, None)>>],
     [kind |-> "product", key |-> None, items |-> <<Of(None, p2, None)>>],
     [kind |-> "feedback", key |-> k1, items |-> <<Of(None, p1, None)>>],
     [kind |-> "feedback", key |-> k1, items |-> <<Of(None, p2, None)>>]}

Symmetry == Permutations(Calls)
=============================================================================
