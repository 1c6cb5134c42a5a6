-------------------------- MODULE MCShopifyClient --------------------------
(* Small instances of ShopifyClient: a move of stock at the estimated cost  *)
(* beside a cheap tagging of an order, from any level of a bucket that      *)
(* holds no more than a move.  Server errors, and so repeated requests,     *)
(* only meet the move; both are throttled.                                  *)
EXTENDS ShopifyClient

CONSTANTS move, tag

Costs == [c \in Calls |-> IF c = move THEN 4 ELSE 1]
FaultsMet ==
    [c \in Calls |-> {"redis", "network"} \cup IF c = move THEN {"server"} ELSE {}]
=============================================================================
