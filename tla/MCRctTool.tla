-------------------------------- MODULE MCRctTool --------------------------------
(* RctTool with rows of data/registry.csv, as shipped and as an update may   *)
(* change them: another type for an object, a type or a group the library    *)
(* does not know, a row that is gone, two rows of one name.  UINT32 is not    *)
(* among the types: -1 as u32 is beyond TLC's integers.                      *)
EXTENDS RctTool

Row(group, id, n, type) ==
  [group |-> group, object_id |-> id, name |-> n, req_type |-> type, resp_type |-> type]

Strategy(type) == Row("POWER_MNG", "0xF168B748", "power_mng.soc_strategy", type)
BatterySoc     == Row("BATTERY", "0x959930BF", "battery.soc", "FLOAT")

Shipped ==
  <<Row("POWER_MNG", "0x36A9E9A6", "power_mng.use_grid_power_enable", "BOOL"),
    Row("P_REC", "0x54829753", "p_rec_lim[1]", "FLOAT"),
    BatterySoc,
    Row("POWER_MNG", "0xBD008E29", "power_mng.battery_power_extern", "FLOAT"),
    Row("POWER_MNG", "0xCE266F0F", "power_mng.soc_min", "FLOAT"),
    Strategy("ENUM"),
    Row("BUF_V_CONTROL", "0xFE1AA500", "buf_v_control.power_reduction", "FLOAT")>>

MCFiles ==
  {Shipped}
    \cup {<<Strategy("STRING"), Strategy(t)>> :
            t \in {"UINT8", "INT8", "UINT16", "INT16", "INT32", "NEW_TYPE"}}
    \cup {<<BatterySoc, Row("NEW_GROUP", "0x64D43D1", "logger.day_log_ts", "TIMESERIES")>>}

MCParameters ==
  {"power_mng.soc_strategy", "power_mng.use_grid_power_enable", "p_rec_lim[1]",
   "battery.soc", "power_mng.battery_power_extern", "power_mng.soc_min",
   "buf_v_control.power_reduction", "no.such.parameter"}

(* At the bounds of the rules and of the integer widths, inside and outside. *)
MCInputs ==
  {Word("true"), Word("false"), Word("other")}
    \cup {Typed(FALSE, n, 0) : n \in {-6001, -6000, -1, 0, 5, 6, 6000, 255, 260, 65540}}
    \cup {Typed(TRUE, n, 0) : n \in {1, 2}}
    \cup {Typed(TRUE, 0, t) : t \in {400, 500, 1230, 1234}}
    \cup {Typed(TRUE, -1, 5000), Typed(TRUE, 5999, 9900)}

MCHeld ==
  [t \in DataTypes |->
     CASE t = "Enum" -> {<<0, 0, 0, 3>>}
       [] t = "Bool" -> {<<0>>, <<2>>}
       [] t \in {"Uint8", "Int8"} -> {<<1>>}
       [] t \in {"Uint16", "Int16"} -> {<<0, 1>>}
       [] t \in {"Uint32", "Int32"} -> {<<0, 0, 0, 1>>}
       [] t = "Float" -> {EncodeValue(F32(1, 0))}
       [] OTHER -> {<<49, 0>>}]

(* The registries and what is held at first are what the theorems ask for.   *)
ASSUME MCFits == RegistryFits /\ HeldFits
=============================================================================
