-------------------------------- MODULE Registry --------------------------------
(***************************************************************************)
(* The object registry (src/src/registry.rs): rows of registry.csv become  *)
(* entries, found by name or by id.  The rows are data that the update     *)
(* procedure of README.md replaces, so they are a parameter here.          *)
(***************************************************************************)
EXTENDS Codec

(* A row: [group, object_id, name, req_type, resp_type]; the columns that   *)
(* are only printed are left out.                                           *)

NAMES == <<"RB485", "ENERGY", "GRID_MON", "TEMPERATURE", "BATTERY", "CS_NEG", "HW_TEST",
  "G_SYNC", "LOGGER", "WIFI", "ADC", "NET", "ACC_CONV", "DC_CONV", "NSM", "IO_BOARD",
  "FLASH_RTC", "POWER_MNG", "BUF_V_CONTROL", "DB", "SWITCH_ON_COND", "P_REC", "MODBUS",
  "BAT_MNG_STRUCT", "ISO_STRUCT", "GRID_LT", "CAN_BUS", "DISPLAY_STRUCT", "FLASH_PARAM",
  "FAULT", "PRIM_SM", "CS_MAP", "LINE_MON", "OTHERS", "BATTERY_PLACEHOLDER", "FRT",
  "PARTITION">>

Others == 33

(* ObjectGroup::from_string: the number of the group; unknown ones go to    *)
(* Others.                                                                  *)
GroupOf(entry) ==
  IF \E i \in 1..Len(NAMES) : NAMES[i] = entry
  THEN (CHOOSE i \in 1..Len(NAMES) : NAMES[i] = entry) - 1 ELSE Others

TypeNames ==
  [UNKNOWN |-> "Unknown", BOOL |-> "Bool", UINT8 |-> "Uint8", INT8 |-> "Int8",
   UINT16 |-> "Uint16", INT16 |-> "Int16", UINT32 |-> "Uint32", INT32 |-> "Int32",
   ENUM |-> "Enum", FLOAT |-> "Float", STRING |-> "String",
   TIMESERIES |-> "Timeseries", EVENT_TABLE |-> "EventTable",
   BATTERY_MODULE_STATUS |-> "BatteryModuleStatus",
   BATTERY_MODULE_STATISTICS |-> "BatteryModuleStatistics",
   BATTERY_MODULE_RESISTANCE |-> "BatteryModuleResistance"]

TypeOf(name) == IF name \in DOMAIN TypeNames THEN TypeNames[name] ELSE "Unknown"

Entry(row) ==
  [group |-> GroupOf(row.group), object_id |-> row.object_id, name |-> row.name,
   request_data_type |-> TypeOf(row.req_type),
   response_data_type |-> TypeOf(row.resp_type)]

(* HashMap::insert row by row: the last row with a key stays.               *)
LastWith(rows, key, k) ==
  LET hits == {i \in 1..Len(rows) : rows[i][key] = k}
  IN  Entry(rows[CHOOSE i \in hits : \A j \in hits : j <= i])

Build(rows) ==
  LET names == {rows[i].name : i \in 1..Len(rows)}
      ids   == {rows[i].object_id : i \in 1..Len(rows)}
  IN  [by_name |-> [n \in names |-> LastWith(rows, "name", n)],
       by_id   |-> [o \in ids |-> LastWith(rows, "object_id", o)]]
=============================================================================
