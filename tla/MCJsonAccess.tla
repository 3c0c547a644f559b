---------------------------- MODULE MCJsonAccess ----------------------------
(* A cell holds -4 .. 3 and a 64-bit word -8 .. 7 or 0 .. 15; doubles are     *)
(* counted in quarters, and a float holds multiples of a half.                *)
EXTENDS JsonAccess, TLC

CONSTANTS t1, t2

MCText     == {t1, t2}
MCTextLen  == (t1 :> 1) @@ (t2 :> 2)
MCNumberIn == (t1 :> NotANumber) @@ (t2 :> Uint(12))
MCInt64    == {-1, 5}
MCUint64   == {5, 12}
MCDouble   == {8, 9}
MCFlag     == {Plain, InfNan}
MCSingle(d) == IF d = NaN THEN NaN ELSE d - (d % 2)

MCJsonLen(val, flag) ==
  CASE val.type = "null" -> 4
    [] val.type = "bool" -> IF val.data = 1 THEN 4 ELSE 5
    [] val.type \in IntTypes -> IF val.data \in 0 .. 9 THEN 1 ELSE 2
    [] val.type = "real" /\ val.data = NaN -> IF flag = InfNan THEN 3 ELSE 0
    [] val.type = "real" -> IF val.fixed > 0 THEN 3 ELSE 4
    [] val.type = "str" -> val.len + 2
    [] val.type = "raw" -> val.len
    [] OTHER -> IF val.len = 0 THEN 2 ELSE 5
=============================================================================
