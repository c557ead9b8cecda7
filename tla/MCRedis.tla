------------------------------- MODULE MCRedis -------------------------------
(***************************************************************************)
(* EXPIRE for RedisWrapper with a time that has passed already and one     *)
(* that passes with the next tick.                                         *)
(***************************************************************************)
EXTENDS RedisWrapper

MCSeconds == {-1, 0}
=============================================================================
