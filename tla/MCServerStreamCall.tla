-------------------------- MODULE MCServerStreamCall --------------------------
(* Instances of ServerStreamCall for TLC: the .cfg files give the bounds.    *)
EXTENDS ServerStreamCall

===============================================================================
