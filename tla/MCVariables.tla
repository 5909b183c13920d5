----------------------------- MODULE MCVariables -----------------------------
(* Three names: a list with a head, a middle and a tail node.              *)
EXTENDS Variables

CONSTANTS x, y, z, v1, v2

MCNames == {x, y, z}
MCValues == {v1, v2}

==============================================================================
