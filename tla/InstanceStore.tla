---------------------------- MODULE InstanceStore ----------------------------
(***************************************************************************)
(* The buffer of the latest values of a stream                             *)
(* (interpreter/src/storage/stores.rs, InstanceStore), newest first.       *)
(***************************************************************************)
EXTENDS Integers, Sequences

CONSTANT NoValue \* Value::None

(***************************************************************************)
(* A full buffer loses its oldest value.                                   *)
(***************************************************************************)
NeverDrops(buffer, limit, v) == <<v>> \o buffer \* wrong variant
OneTooFew(buffer, limit, v) == \* wrong variant: makes room too early
    <<v>> \o IF Len(buffer) >= limit - 1
             THEN SubSeq(buffer, 1, Len(buffer) - 1) ELSE buffer
PushValue(buffer, limit, v) ==
    <<v>> \o IF Len(buffer) = limit
             THEN SubSeq(buffer, 1, Len(buffer) - 1) ELSE buffer

(***************************************************************************)
(* The value an offset back; the newest one has offset 0.                  *)
(***************************************************************************)
GetValue(buffer, offset) ==
    IF offset + 1 \in DOMAIN buffer THEN buffer[offset + 1] ELSE NoValue
=============================================================================
