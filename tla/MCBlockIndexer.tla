---------------------------- MODULE MCBlockIndexer ----------------------------
(* Instances of BlockIndexer for TLC. *)
EXTENDS BlockIndexer, TLC

CONSTANTS main, reindex, f, g, a, b, c

OneReindexer == {reindex}
TwoForks == {f, g}
ThreeTxs == {a, b, c}
\* Height 0 has two transactions on f; b moves to height 1 on g, and c is mined
\* at height 2 on either fork.
Bodies == 0 :> (f :> <<a, b>> @@ g :> <<a>>)
       @@ 1 :> (f :> <<>> @@ g :> <<b>>)
       @@ 2 :> (f :> <<c>> @@ g :> <<c>>)
       @@ 3 :> (f :> <<>> @@ g :> <<>>)
\* Troubles in pairs: two faults, or two kinds of trouble, or a fault with a reorg.
Troubles == {[crash |-> 0, fault |-> 2, reorg |-> 0, stop |-> 0, cancel |-> 0],
             [crash |-> 0, fault |-> 1, reorg |-> 1, stop |-> 0, cancel |-> 0],
             [crash |-> 1, fault |-> 1, reorg |-> 0, stop |-> 0, cancel |-> 0],
             [crash |-> 1, fault |-> 0, reorg |-> 0, stop |-> 1, cancel |-> 0],
             [crash |-> 0, fault |-> 1, reorg |-> 0, stop |-> 1, cancel |-> 0],
             [crash |-> 0, fault |-> 0, reorg |-> 0, stop |-> 1, cancel |-> 1]}
===============================================================================
