----------------------------- MODULE VehicleIdl -----------------------------
(***************************************************************************)
(* The IDL of the vehicle examples with shorter integers, and types the      *)
(* generator accepts that no example uses.                                   *)
(***************************************************************************)
EXTENDS Integers, Sequences

F(name, type) == [name |-> name, type |-> type, len |-> "u8", elem |-> "none"]
Array(name, elem, len) == [name |-> name, type |-> "array", len |-> len, elem |-> elem]

\* An array with its length, or a truth value called like it, beside it: the
\* length read hides the second field.
Counted == << Array("wheels", "u8", "u8"), F("wheelsLen", "u8") >>
Flagged == << Array("wheels", "u8", "u8"), F("wheelsLen", "bool") >>

VehicleTypes ==
    [Wheel |-> << F("wheelId", "u8"), F("temperatureC", "i8") >>,
     Status |-> << F("vin", "string"), F("speedKph", "u16"), F("doorOpen", "bool"),
                   Array("wheels", "Wheel", "u8"), Array("accelHistory", "u16", "u16") >>,
     Request |-> << F("requestId", "u16"), F("targetVin", "string") >>,
     Response |-> << F("requestId", "u16"), F("status", "Status") >>,
     Tags |-> << Array("tags", "string", "u8"), Array("flags", "bool", "u8"),
                 F("last", "bool") >>,
     Counted |-> Counted,
     Flagged |-> Flagged]

\* Texts and sizes up to one more than a length of eight or sixteen bits can name.
VehicleSamples ==
    [u8 |-> {0, 1}, i8 |-> {-1, 0}, u16 |-> {0, 3}, bool |-> BOOLEAN,
     string |-> {<< >>, << 1 >>, << 1, 0 >>}, array |-> {0, 1, 2, 4},
     u32 |-> {}, u64 |-> {}, i16 |-> {}, i32 |-> {}, i64 |-> {}, f32 |-> {}, f64 |-> {}]

\* Two truth values; one, and arrays, called as the generator calls its variables.
OddTypes ==
    [Doors |-> << F("left", "bool"), F("right", "bool") >>,
     Flag |-> << F("b", "bool") >>,
     Flags |-> << Array("b", "bool", "u8") >>,
     Steps |-> << Array("i", "u8", "u8") >>,
     Counted |-> Counted]

Leftovers == {<< 0 >>, << 1 >>, << 1, 0 >>, << 0, 0, 0 >>}
=============================================================================
