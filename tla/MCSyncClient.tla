------------------------------ MODULE MCSyncClient ------------------------------
(* SyncClient with two writable objects of data/registry.csv, an ENUM and a  *)
(* BOOL; the rest is given in the configurations.                            *)
EXTENDS SyncClient

CONSTANTS strategy, grid     \* power_mng.soc_strategy, .use_grid_power_enable

MCObjects  == {strategy, grid}
MCType     == [o \in MCObjects |-> IF o = strategy THEN "Enum" ELSE "Bool"]

(* What parse_value makes of an ENUM and what decode_value makes of it; what *)
(* encode_for takes for a BOOL, and what it does not.                        *)
MCInputs ==
  [o \in MCObjects |-> IF o = strategy THEN {Num("U8", 2), Num("U32", 3)}
                                       ELSE {Bool(FALSE), Num("U16", 1)}]
MCHeld ==
  [o \in MCObjects |-> IF o = strategy THEN {<<0, 0, 0, 1>>} ELSE {<<1>>}]
=============================================================================
