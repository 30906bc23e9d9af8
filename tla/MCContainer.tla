---------------------------- MODULE MCContainer ----------------------------
(* Every graph over three eager bindings, over two and a lazy token, and   *)
(* over one and two lazy tokens.                                           *)
EXTENDS Container

CONSTANTS a, b, c, x, y

MCOrder == <<a, b, c>>
MCLazyOrder == <<x, y>>
MCPrograms == {{a, b, c}, {a, b, x}, {a, x, y}}
=============================================================================
