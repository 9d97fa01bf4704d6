------------------------------ MODULE Schemas -------------------------------
(***************************************************************************)
(* The data types of NebulaStream (nes-data-types/src/DataTypes/           *)
(* DataType.cpp): their sizes, their classification, and the rules that    *)
(* decide the type of a function of two operands.  A type is the name of   *)
(* the DataType::Type enumerator.                                          *)
(***************************************************************************)
EXTENDS Naturals, FiniteSets, SequencesExt

SignedIntegers   == {"INT8", "INT16", "INT32", "INT64"}
UnsignedIntegers == {"UINT8", "UINT16", "UINT32", "UINT64"}
Floats           == {"FLOAT32", "FLOAT64"}

(* The registered data types, those that a schema, a constant or a function *)
(* can have.                                                                *)
Types == SignedIntegers \cup UnsignedIntegers \cup Floats
         \cup {"BOOLEAN", "CHAR", "UNDEFINED", "VARSIZED", "VARSIZED_POINTER_REP"}

(* The value of an empty std::optional<DataType>.                           *)
NoType == "nullopt"

isInteger(t)       == t \in SignedIntegers \cup UnsignedIntegers
isSignedInteger(t) == t \in SignedIntegers
isFloat(t)         == t \in Floats
isNumeric(t)       == isInteger(t) \/ isFloat(t)

getSizeInBytes(t) ==
  CASE t \in {"INT8", "UINT8", "BOOLEAN", "CHAR"}              -> 1
    [] t \in {"INT16", "UINT16"}                               -> 2
    [] t \in {"INT32", "UINT32", "FLOAT32", "VARSIZED"}        -> 4
    [] t \in {"INT64", "UINT64", "FLOAT64", "VARSIZED_POINTER_REP"} -> 8
    [] t = "UNDEFINED"                                         -> 0

(***************************************************************************)
(* inferNumericDataType, branch by branch: a float decides by its own      *)
(* size, two floats by the larger one; two integers are both short, or     *)
(* differ in size around 4 and 8 bytes, or have the same size.             *)
(***************************************************************************)
IntegerOfSize(signed, size) ==
  IF size = 4 THEN IF signed THEN "INT32" ELSE "UINT32"
              ELSE IF signed THEN "INT64" ELSE "UINT64"

FloatOfSize(size) == IF size = 4 THEN "FLOAT32" ELSE "FLOAT64"

inferNumericDataType(left, right) ==
  LET sl == getSizeInBytes(left)
      sr == getSizeInBytes(right)
      intsOf(size) ==
        IF sl = size /\ sr < size THEN IntegerOfSize(isSignedInteger(left), size)
        ELSE IF sl < size /\ sr = size THEN IntegerOfSize(isSignedInteger(right), size)
        ELSE IntegerOfSize(isSignedInteger(left) /\ isSignedInteger(right), size)
  IN  CASE isFloat(left) /\ isInteger(right) -> FloatOfSize(sl)
        [] isInteger(left) /\ isFloat(right) -> FloatOfSize(sr)
        [] isFloat(left) /\ isFloat(right)   -> IF 8 \in {sl, sr} THEN "FLOAT64" ELSE "FLOAT32"
        [] isInteger(left) /\ isInteger(right) ->
             IF sl < 4 /\ sr < 4 THEN "INT32"
             ELSE IF sl <= 4 /\ sr <= 4 THEN intsOf(4)
             ELSE intsOf(8)
        [] OTHER -> NoType

(* DataType::join: the type of a binary arithmetic function.                *)
join(left, right) ==
  CASE left \in {"UNDEFINED", "VARSIZED"} -> "UNDEFINED"
    [] isNumeric(left) ->
         IF right = "UNDEFINED" THEN "UNDEFINED"
         ELSE IF isNumeric(right) THEN inferNumericDataType(left, right) ELSE NoType
    [] left \in {"CHAR", "BOOLEAN"} -> IF right = left THEN left ELSE "UNDEFINED"
    [] OTHER -> NoType

(***************************************************************************)
(* DataTypeSerializationUtil: the enumerator is looked up by name in the   *)
(* protobuf enum, which does not list VARSIZED_POINTER_REP (the failed     *)
(* lookup leaves the enum's zero, UINT8), and read back by its position.   *)
(***************************************************************************)
serializeDataType(t)   == IF t = "VARSIZED_POINTER_REP" THEN "UINT8" ELSE t
deserializeDataType(t) == t

(***************************************************************************)
(* What C++ computes for an operator on two arithmetic operands: the       *)
(* promotion of everything shorter than int, then the usual arithmetic     *)
(* conversions.  This is the type the generated code really has, as        *)
(* VarVal's operators apply the C++ operator to the nautilus values.       *)
(***************************************************************************)
Promoted(t) == IF isInteger(t) /\ getSizeInBytes(t) < 4 THEN "INT32" ELSE t

UsualArithmeticConversion(left, right) ==
  LET l == Promoted(left)
      r == Promoted(right)
      longest == IF getSizeInBytes(l) >= getSizeInBytes(r) THEN l ELSE r
      floats == {l, r} \cap Floats
  IN  IF floats # {} THEN CHOOSE t \in floats : \A u \in floats : getSizeInBytes(u) <= getSizeInBytes(t)
      ELSE IF getSizeInBytes(l) # getSizeInBytes(r) THEN longest
      ELSE IF l = r THEN l
      ELSE IntegerOfSize(FALSE, getSizeInBytes(l))

-----------------------------------------------------------------------------
(***************************************************************************)
(* Schemas (nes-data-types/src/DataTypes/Schema.cpp).  A schema is the     *)
(* sequence of its fields.  A name is the sequence of the words it is      *)
(* spelled with, "$" separating the source qualifier from the rest, so     *)
(* that "ends with this text" is the suffix relation on sequences:         *)
(* <<"s", "$", "user", "id">> is s$userid and ends with <<"id">>.          *)
(***************************************************************************)
(* What Op makes of each element, in order.                                 *)
Each(Op(_), seq) == <<>> \o [i \in DOMAIN seq |-> Op(seq[i])]

Field(name, type) == [name |-> name, type |-> type]

(* std::nullopt of getFieldByName.                                          *)
NoField == Field(<<>>, NoType)

Names(schema) == {schema[i].name : i \in DOMAIN schema}

(* The position nameToField holds for a name: emplace keeps the first.      *)
PositionOf(schema, name) ==
  CHOOSE i \in DOMAIN schema :
    schema[i].name = name /\ \A j \in 1 .. i - 1 : schema[j].name # name

contains(schema, name) == name \in Names(schema)

addField(schema, name, type) == Append(schema, Field(name, type))

appendFieldsFromOtherSchema(schema, other) == schema \o other

(* The field of exactly this name, or else the first one that ends with it. *)
getFieldByName(schema, name) ==
  LET matching == SelectSeq(schema, LAMBDA f : IsSuffix(name, f.name))
  IN  IF contains(schema, name) THEN schema[PositionOf(schema, name)]
      ELSE IF matching # <<>> THEN Head(matching) ELSE NoField

(* replaceTypeOfField: only by the exact name; the caller sees a failure.   *)
replaceTypeOfField(schema, name, type) ==
  [schema EXCEPT ![PositionOf(schema, name)].type = type]

renameField(schema, old, new) ==
  [schema EXCEPT ![PositionOf(schema, old)].name = new]

(* The text before the first "$" of the first field, all of it if there is  *)
(* no "$".                                                                  *)
getSourceNameQualifier(schema) ==
  LET name == schema[1].name
      ends == {i \in DOMAIN name : name[i] = "$"}
  IN  IF ends = {} THEN name
      ELSE SubSeq(name, 1, (CHOOSE i \in ends : \A j \in ends : i <= j) - 1)

IsQualified(name) == \E i \in DOMAIN name : name[i] = "$"

(* getQualifierNameForSystemGeneratedFieldsWithSeparator                    *)
Qualifier(schema) == getSourceNameQualifier(schema) \o <<"$">>

(* SchemaSerializationUtil: field by field, each type through its enum.     *)
serializeSchema(schema) ==
  [i \in DOMAIN schema |-> Field(schema[i].name, serializeDataType(schema[i].type))]
=============================================================================
