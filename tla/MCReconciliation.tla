-------------------------- MODULE MCReconciliation --------------------------
(* Two expectations, one of which may revise the other, two lines, on two   *)
(* references, and two calls that may be made again when they fail.         *)
EXTENDS Reconciliation

CONSTANTS r1, r2, c1, c2

MCTerms  == {[amount |-> 1, currency |-> "GTQ", state |-> "settled", by |-> 1]}
MCReport == {[amount |-> 1, currency |-> "GTQ", state |-> "settled", settled_at |-> 1],
             [amount |-> 1, currency |-> "USD", state |-> "pending", settled_at |-> Null],
             [amount |-> 2, currency |-> "GTQ", state |-> "settled", settled_at |-> 2]}

Symmetric == Permutations(Ref) \cup Permutations(Caller)
=============================================================================
