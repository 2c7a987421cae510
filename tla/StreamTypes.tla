---------------------------- MODULE StreamTypes -----------------------------
(***************************************************************************)
(* The type of a value on its way from the engine to the application: the  *)
(* bits packed into a topic's enum value, the switches on them in the      *)
(* engine, the client and the Python package, and the casting mechanism of *)
(* the stream interface, which passes a call with a type that is not the   *)
(* stream's own from one overload to the next until the stream's own takes *)
(* it or none is left (tos_databridge.h, data_stream.hpp).                 *)
(***************************************************************************)
EXTENDS Integers, Sequences

Signed   == <<"char", "short", "int", "long", "long long">>
Unsigned == <<"unsigned char", "unsigned short", "unsigned int",
              "unsigned long", "unsigned long long">>
Floats   == <<"float", "double">>

Families == {Signed, Unsigned, Floats}

Members(family) == {family[i] : i \in DOMAIN family}

Numbers == UNION {Members(f) : f \in Families}
Types   == Numbers \cup {"string"}

(* No overload is left: BuildThrowTypeError.                               *)
TypeError == "DataStreamTypeError"

FamilyOf(t) == CHOOSE f \in Families : t \in Members(f)
Rank(t)     == CHOOSE i \in DOMAIN FamilyOf(t) : FamilyOf(t)[i] = t

(* push(v) hands v to the overload for the next wider type, and the widest *)
(* as text to push(string); a string only the string stream takes.         *)
PushTo ==
  [t \in Types |->
     IF t = "string" THEN TypeError
     ELSE IF Rank(t) < Len(FamilyOf(t)) THEN FamilyOf(t)[Rank(t) + 1]
     ELSE "string"]

(* copy(dest), copy_from_marker(dest) and ncopy_from_marker(dest) go to    *)
(* the next narrower type; copies to strings every stream does itself.     *)
CopyTo ==
  [t \in Numbers |->
     IF Rank(t) > 1 THEN FamilyOf(t)[Rank(t) - 1] ELSE TypeError]

(* Where a push of a value of type t into a stream of type own ends.       *)
Pushed(own) ==
  LET end[t \in Types] ==
        IF t = own THEN own
        ELSE IF PushTo[t] = TypeError THEN TypeError ELSE end[PushTo[t]]
  IN  end

Copied(own) ==
  LET end[t \in Numbers] ==
        IF t = own THEN own
        ELSE IF CopyTo[t] = TypeError THEN TypeError ELSE end[CopyTo[t]]
  IN  end

-----------------------------------------------------------------------------
(* TOS_Topics: the type bits that occur, and what depends on them.         *)

TypeBits == {{}, {"INTGR"}, {"QUAD"}, {"INTGR", "QUAD"}, {"STRING"}}

(* sizeof on the platform, and TOSDB_STR_DATA_SZ for a string.             *)
SizeOf(t) ==
  CASE t = "string" -> 40
    [] t \in {"double", "long long"} -> 8
    [] OTHER -> 4

(* The type of the stream RawDataBlock::_insert_topic makes.               *)
StreamType(bits) ==
  CASE "STRING" \in bits -> "string"
    [] bits = {"INTGR"} -> "long"
    [] bits = {"QUAD"} -> "double"
    [] bits = {"INTGR", "QUAD"} -> "long long"
    [] OTHER -> "float"

(* The room for a value in an element of the shared buffer.                *)
TypeSize(bits) ==
  CASE bits = {"STRING"} -> 40
    [] bits = {"INTGR"} -> 4
    [] bits = {"QUAD"} -> 8
    [] bits = {"INTGR", "QUAD"} -> 8
    [] OTHER -> 4

(* TypeString, what TOSDB_GetTypeString tells an application of a topic.   *)
TypeString(bits) ==
  CASE bits = {"STRING"} -> "string"
    [] bits = {"INTGR"} -> "long"
    [] bits = {"QUAD"} -> "double"
    [] bits = {"INTGR", "QUAD"} -> "long long"
    [] OTHER -> "float"

(* The type at compile time, TOS_Topics::Type<topic>::type.                *)
TypeOf(bits) ==
  IF "STRING" \in bits THEN "string"
  ELSE IF "INTGR" \in bits
       THEN IF "QUAD" \in bits THEN "long long" ELSE "long"
       ELSE IF "QUAD" \in bits THEN "double" ELSE "float"

(* What HandleData parses a DDE text into and RouteToBuffer writes.        *)
WrittenType(bits) ==
  CASE bits = {"STRING"} -> "string"
    [] bits = {"INTGR"} -> "long"
    [] bits = {"QUAD"} -> "double"
    [] bits = {"INTGR", "QUAD"} -> "long long"
    [] bits = {} -> "float"

(* What the connection thread takes an element for and pushes.             *)
ExtractedType(bits) ==
  CASE bits = {"STRING"} -> "string"
    [] bits = {"INTGR"} -> "long"
    [] bits = {"QUAD"} -> "double"
    [] bits = {"INTGR", "QUAD"} -> "long long"
    [] OTHER -> "float"

(* The type of the buffer Python passes: _type_switch.                     *)
PythonType(bits) ==
  CASE bits = {"INTGR", "QUAD"} -> "long long"
    [] bits = {"INTGR"} -> "long"
    [] bits = {"QUAD"} -> "double"
    [] bits = {} -> "float"
    [] OTHER -> "string"

-----------------------------------------------------------------------------
(* What the casts and the switches are for; TLC evaluates each.            *)

SameFamily(a, b) == FamilyOf(a) = FamilyOf(b)

(* A number read through the casts is never narrowed: the stream that      *)
(* answers is of the same family and no wider than what was asked for.     *)
ASSUME CopyNeverNarrows ==
  \A own, t \in Numbers :
    Copied(own)[t] = own <=> SameFamily(own, t) /\ Rank(own) <= Rank(t)

(* Nor is a number that is pushed; what fits no number stream is text, and *)
(* is refused by every stream but that of strings.                         *)
ASSUME PushNeverNarrows ==
  \A t \in Numbers :
    /\ Pushed("string")[t] = "string"
    /\ \A own \in Numbers :
         Pushed(own)[t] = own <=> SameFamily(own, t) /\ Rank(t) <= Rank(own)

(* A value keeps its type from the engine's parser through the buffer into *)
(* the stream and out to the application, and fits its buffer element.     *)
ASSUME SwitchesAgree ==
  \A bits \in TypeBits :
    /\ ExtractedType(bits) = WrittenType(bits)
    /\ SizeOf(WrittenType(bits)) <= TypeSize(bits)
    /\ Pushed(StreamType(bits))[ExtractedType(bits)] = StreamType(bits)
    /\ PythonType(bits) = StreamType(bits)
    /\ TypeString(bits) = StreamType(bits)
    /\ TypeOf(bits) = StreamType(bits)
=============================================================================
