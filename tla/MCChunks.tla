------------------------------ MODULE MCChunks ------------------------------
(* An instance of Chunks for TLC: two users, rows that leave one byte of a *)
(* chunk and rows that fill two chunks; after a short row, a long one goes  *)
(* on in two more chunks.                                                  *)
EXTENDS Chunks

CONSTANTS a, b

MCOrder == <<a, b>>
=============================================================================
