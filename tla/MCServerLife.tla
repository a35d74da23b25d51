---------------------------- MODULE MCServerLife ----------------------------
(***************************************************************************)
(* A small instance of ServerLife: an old build, and a new one that adds a *)
(* migration in the middle.                                                *)
(***************************************************************************)
EXTENDS ServerLife

OldAndNew == {{1, 3}, {1, 2, 3}}
=============================================================================
