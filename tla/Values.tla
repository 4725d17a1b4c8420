---- MODULE Values ----
(***************************************************************************)
(* What becomes of a value between the OPC UA client and a response: the   *)
(* conversion of asyncua's objects (adapters/asyncua/convert.py), the JSON *)
(* encoding of the result (ouajson/encode.py), the sample made of it       *)
(* (adapters/asyncua/subscribe.py) and the envelope taken off again        *)
(* (core/mapping.py), for a value that was read and for one that was       *)
(* reported by a MonitoredItem (upstream.py), which fail differently: a    *)
(* read that fails is answered with the last value the history has, as Bad *)
(* (api/routes/values.py).  A DataValue has a value here: what the client  *)
(* library makes of one without is its own affair.                         *)
(*                                                                         *)
(* A Python value is a record: what it "is", and its payload.  Raised is   *)
(* the outcome of an operation that throws.                                *)
(***************************************************************************)
EXTENDS Naturals, Sequences, SequencesExt

CONSTANTS
  Types,      \* the VariantTypes considered
  Payloads,   \* what distinguishes one item from another
  Fields,     \* lists of fields of structures, each a <<type, value>>
  Slots,      \* places in an array or matrix that may hold different items
  Lists,      \* arrays of slots
  Matrices,   \* rows of slots
  Reported,   \* values an earlier notification may have had
  None

VARIABLES
  path,       \* "read", or "notification" of a MonitoredItem
  value,      \* the DataValue of the server
  known,      \* what the newest sample in the history was made of, or None
  stage,      \* what has been done with it
  held,       \* what it is now
  sample,     \* the ValueSample made of it, or None if there is none
  wire        \* the VQT of a response, or None

vars == <<path, value, known, stage, held, sample, wire>>

Null == [is |-> "null"]
Raised == [is |-> "raised"]
List(s) == [is |-> "list", items |-> s]
Native(sort, p) == [is |-> "native", sort |-> sort, of |-> p]   \* int, str, bool, datetime ...
Ua(p) == [is |-> "ua", of |-> p]                                \* an object of asyncua
Neutral(p) == [is |-> "neutral", of |-> p]                      \* an object of ouajson.types
Json(sort, p) == [is |-> "json", sort |-> sort, of |-> p]
Structure(fs) == [is |-> "structure", fields |-> fs]            \* of a class asyncua generated
Binary(p) == [is |-> "binary", of |-> p]                        \* a body asyncua cannot decode
Variant(t, body, dims) == [is |-> "variant", type |-> t, body |-> body, dims |-> dims]

(* What a list, a record or an envelope of parts is, unless one of them was *)
(* never computed.                                                         *)
All(parts, whole) == IF Contains(parts, Raised) THEN Raised ELSE whole
Each(Op(_), s) == LET parts == [i \in DOMAIN s |-> Op(s[i])] IN All(parts, List(parts))

--------------------------------------------------------------------------
(* The values of an OPC UA server, as asyncua presents them.               *)

Converted == {"NodeId", "ExpandedNodeId", "QualifiedName", "LocalizedText", "StatusCode"}
Nested == {"Variant", "DataValue"}
Moments == {"DateTime", "Guid", "ByteString"}
Builtin == {"Boolean", "Int32", "Int64", "Double", "String"} \cup Moments \cup Converted

Symbols == {"Good", "Uncertain", "Bad"}

Sort(t) == IF t \in Moments THEN "moment" ELSE IF t = "String" THEN "text" ELSE "number"

Leaves(t, p) ==
  IF t = "ExtensionObject"
    THEN {Structure(fs) : fs \in Fields} \cup {Binary(p), Ua(p)}
  ELSE IF t = "StatusCode" THEN {Ua(symbol) : symbol \in Symbols}
  ELSE IF t \in Converted \cup Nested \cup {"DiagnosticInfo"} THEN {Ua(p)} ELSE {Native(Sort(t), p)}

Some(t) == UNION {Leaves(t, p) : p \in Payloads}
Items(t) == Some(t) \cup IF t = "String" THEN {Null} ELSE {}

Filled(row, items) == List([i \in DOMAIN row |-> items[row[i]]])
FilledRows(rows, items) == List([i \in DOMAIN rows |-> Filled(rows[i], items)])

Scalars(t) == {Variant(t, x, <<>>) : x \in Some(t) \cup {Null}}
Arrays(t) ==
  UNION {{Variant(t, Filled(row, items), dims) : dims \in {<<>>, <<Len(row)>>}} :
           row \in Lists, items \in [Slots -> Items(t)]}
RowsOfRows(t) ==
  UNION {{Variant(t, FilledRows(rows, items), <<Len(rows), Len(rows[1])>>) :
            items \in [Slots -> Items(t)]} : rows \in Matrices}

UaVariants == UNION {Scalars(t) \cup Arrays(t) \cup RowsOfRows(t) : t \in Types}

(* What a field of a structure may hold.                                   *)
FieldSorts == {"null", "native", "ua", "list", "structure", "binary"}

ASSUME ValueAssumption ==
  /\ Types \subseteq Builtin \cup Nested \cup {"ExtensionObject", "DiagnosticInfo", "Unknown"}
  /\ \A fs \in Fields :
       /\ fs \in Seq(ToSet(fs))
       /\ \A i \in DOMAIN fs : fs[i][2].is \in FieldSorts /\ (fs[i][2].is = "null" => fs[i][2] = Null)
  /\ Lists \subseteq Seq(Slots)
  /\ Matrices \subseteq Seq(Seq(Slots)) \ {<<>>}
  /\ Reported \subseteq UaVariants

--------------------------------------------------------------------------
(* adapters/asyncua/convert.py                                             *)

VariantType(t) == IF t = "Unknown" THEN "Null" ELSE t

(* The values of the fields are kept as asyncua has them.                  *)
FromUaExtensionObject(x) ==
  IF x.is = "structure" THEN [x EXCEPT !.is = "extension"]
  ELSE IF x.is = "binary" THEN Json("object", x.of) ELSE x

(* from_ua_node_id and its like read attributes a list does not have.      *)
FromUa(x) == IF x.is = "ua" THEN Neutral(x.of) ELSE Raised

ConvertScalar(t, x) ==
  IF t \in Converted THEN FromUa(x)
  ELSE IF t = "ExtensionObject" THEN FromUaExtensionObject(x) ELSE x

(* Mutant: a list is converted as if it were one value.                    *)
MutConvertValue(t, x) == IF x = Null THEN Null ELSE ConvertScalar(t, x)

ConvertValue(t, x) ==
  IF x = Null THEN Null
  ELSE IF x.is = "list" THEN Each(LAMBDA i : ConvertScalar(t, i), x.items)
  ELSE ConvertScalar(t, x)

FromUaVariant(v) ==
  LET body == ConvertValue(VariantType(v.type), v.body)
  IN IF body = Raised THEN Raised ELSE [v EXCEPT !.type = VariantType(v.type), !.body = body]

--------------------------------------------------------------------------
(* ouajson/encode.py                                                       *)

(* encode(): the fields of types without a row in _BUILTIN_FIELD_VARIANT.  *)
Encode(x) ==
  IF x.is = "native" THEN Json(IF x.sort = "moment" THEN "text" ELSE x.sort, x.of) ELSE x

(* The three qualities of i3X stand for every OPC UA status, as a value too. *)
Quality(symbol) == IF symbol = "Uncertain" THEN "GoodNoData" ELSE symbol

(* 64-bit integers, datetimes, GUIDs and bytes travel as text (and floats  *)
(* that are not finite, which are not told apart here).                    *)
EncodeAsText(x) == IF x.is = "native" THEN Json("text", x.of) ELSE Raised

(* bytes() also takes a list, but not of the bytes a list of this type has. *)
EncodeBytes(x) == IF x = List(<<>>) THEN Json("text", "no bytes") ELSE EncodeAsText(x)

(* encode_node_id and its like.                                            *)
EncodeStructured(x) == IF x.is = "neutral" THEN Json("object", x.of) ELSE Raised

EncodeStatusCode(x) == IF x.is = "neutral" THEN Json("text", Quality(x.of)) ELSE Raised

(* str() and bool() take anything.                                         *)
EncodeScalar(t, x) ==
  IF x = Null \/ t = "Null" THEN Null ELSE
  CASE t \in {"Boolean", "String"} ->
         Json(IF t = "String" THEN "text" ELSE "number", IF x.is = "native" THEN x.of ELSE "repr")
    [] t \in {"Int32", "Double"} -> IF x.is = "native" THEN Json("number", x.of) ELSE Raised
    [] t = "ByteString" -> EncodeBytes(x)
    [] t \in {"Int64", "DateTime", "Guid"} -> EncodeAsText(x)
    [] t = "StatusCode" -> EncodeStatusCode(x)
    [] t \in (Converted \ {"StatusCode"}) \cup Nested -> EncodeStructured(x)
    [] OTHER -> Raised

(* A field has the rank and the optionality that convert.py gave it: a     *)
(* scalar that must be there.                                              *)
EncodeField(f) == IF f[1] \in Builtin THEN EncodeScalar(f[1], f[2]) ELSE Encode(f[2])

EncodeExtensionObject(x) ==
  LET fields == [i \in DOMAIN x.fields |-> EncodeField(x.fields[i])]
  IN All(fields, Json("object", fields))

EncodeItem(t, x) ==
  IF t # "ExtensionObject" \/ x = Null THEN EncodeScalar(t, x)
  ELSE IF x.is = "extension" THEN EncodeExtensionObject(x) ELSE x

(* _flatten_matrix: row by row; a matrix of this model has two levels.     *)
FlattenMatrix(x) == FlattenSeq([i \in DOMAIN x.items |->
                      IF x.items[i].is = "list" THEN x.items[i].items ELSE <<x.items[i]>>])

EncodeVariant(v) ==
  LET item(x) == EncodeItem(v.type, x)
      body == IF Len(v.dims) > 1 THEN Each(item, FlattenMatrix(v.body))
              ELSE IF v.body.is = "list" THEN Each(item, v.body.items)
              ELSE IF Len(v.dims) = 1 THEN Raised ELSE item(v.body)
  IN IF body = Raised THEN Raised ELSE Variant(v.type, body, v.dims)

--------------------------------------------------------------------------
(* core/mapping.py                                                         *)

(* _strip_variant: the second turn would take off what is nested in a list. *)
StripOnce(x) == IF x.is = "variant" THEN x.body ELSE x
StripVariant(x) ==
  LET body == StripOnce(x)
  IN IF body.is = "list" THEN List([i \in DOMAIN body.items |-> StripOnce(body.items[i])]) ELSE body

--------------------------------------------------------------------------
(* read_values and datachange_notification of upstream.py, deliver_sample, *)
(* and the routes or the subscription manager, which build the VQT.        *)

Encoded(v) == LET c == FromUaVariant(v) IN IF c = Raised THEN Raised ELSE EncodeVariant(c)

Init ==
  /\ path \in {"read", "notification"}
  /\ value \in [value : UaVariants, status : Symbols,
                source : {"", "source time"}, server : {"", "server time"}]
  /\ known \in {None} \cup {v \in Reported : Encoded(v) # Raised}
  /\ stage = "received" /\ held = value.value
  /\ sample = None /\ wire = None

EmptyBad == [value |-> Null, quality |-> "Bad", timestamp |-> ""]

(* A read that throws makes an empty Bad sample; a notification that throws *)
(* is logged, or ends its task, and leaves nothing.                        *)
Fails ==
  /\ stage' = IF path = "read" THEN "sampled" ELSE "lost"
  /\ sample' = IF path = "read" THEN EmptyBad ELSE None
  /\ held' = Raised
  /\ UNCHANGED <<path, value, known, wire>>

(* The client library throws the status of a value it reads unless Good.   *)
Refused == path = "read" /\ value.status # "Good"

Convert ==
  /\ stage = "received"
  /\ LET v == IF Refused THEN Raised ELSE FromUaVariant(held)
     IN IF v = Raised THEN Fails
        ELSE /\ stage' = "converted" /\ held' = v
             /\ UNCHANGED <<path, value, known, sample, wire>>

(* sample_from_ouajson_data_value                                          *)
MakeSample ==
  /\ stage = "converted"
  /\ LET v == EncodeVariant(held)
     IN IF v = Raised THEN Fails
        ELSE /\ stage' = "sampled" /\ held' = v
             /\ sample' = [value |-> v, quality |-> Quality(value.status),
                           timestamp |-> IF value.source # "" THEN value.source ELSE value.server]
             /\ UNCHANGED <<path, value, known, wire>>

(* The whole call of the route to the connection's thread throws, however  *)
(* far this value has come.                                                *)
CallFails ==
  /\ path = "read" /\ stage \in {"received", "converted", "sampled"}
  /\ stage' = "sampled" /\ held' = Raised /\ sample' = None
  /\ UNCHANGED <<path, value, known, wire>>

(* _is_empty_failure, or no samples at all.                                *)
IsEmptyFailure ==
  \/ sample = None
  \/ sample.quality = "Bad" /\ sample.value = Null /\ sample.timestamp = ""

(* _stale_lkv_fallback, or the empty sample its callers put in its place.  *)
StaleLkv ==
  [value |-> IF known = None THEN Null ELSE Encoded(known), quality |-> "Bad", timestamp |-> "now"]

(* A read is answered by _read_with_fallback.                              *)
Deliver ==
  /\ stage = "sampled"
  /\ stage' = "delivered"
  /\ LET s == IF path = "read" /\ IsEmptyFailure THEN StaleLkv ELSE sample
     IN wire' = [s EXCEPT !.value = StripVariant(s.value)]
  /\ UNCHANGED <<path, value, known, held, sample>>

Next == Convert \/ MakeSample \/ CallFails \/ Deliver

Spec == Init /\ [][Next]_vars

--------------------------------------------------------------------------
(* Properties.                                                             *)

Parts(x) == IF x.is = "list" THEN FlattenMatrix(x) ELSE <<x>>
IsMatrix(v) == Len(v.dims) > 1
Holds(v) == {x \in ToSet(Parts(v.body)) : x # Null}

(* The fields that cannot be encoded: those for ids and texts, which stay  *)
(* as asyncua has them, and values their type does not let expect.         *)
Misfit(f) ==
  /\ f[2] # Null
  /\ \/ f[1] \in Converted
     \/ /\ f[1] \in Builtin \ {"Boolean", "String"} /\ f[2].is # "native"
        /\ ~(f[1] = "ByteString" /\ f[2] = List(<<>>))

(* The values without a JSON form: Variants in a Variant, diagnostics,     *)
(* matrices of ids and texts, and structures with a misfit.                *)
Unencodable(v) ==
  \/ Holds(v) # {} /\ v.type \in Nested \cup {"DiagnosticInfo"}
  \/ IsMatrix(v) /\ v.type \in Converted
  \/ /\ ~IsMatrix(v)
     /\ \E x \in Holds(v) : x.is = "structure" /\ \E i \in DOMAIN x.fields : Misfit(x.fields[i])

(* The values that are passed through as they are, for the web framework   *)
(* to make something of: structures asyncua generated no fields for, and   *)
(* all of them in a matrix.                                                *)
Opaque(v, x) == v.type = "ExtensionObject" /\ (x.is = "ua" \/ IsMatrix(v))

Carries(v, x, out) ==
  IF x = Null \/ v.type = "Unknown" THEN out = Null
  ELSE IF Opaque(v, x) THEN out = x
  ELSE CASE x.is = "structure" -> out.is = "json" /\ Len(out.of) = Len(x.fields)
         [] v.type = "StatusCode" -> out.of = Quality(x.of)
         [] OTHER -> out.is = "json" /\ out.of = x.of

(* Item by item and row by row, `out` holds the value.                     *)
Holding(v, out) ==
  LET ins == Parts(v.body)  outs == Parts(out)
  IN Len(outs) = Len(ins) /\ \A i \in DOMAIN ins : Carries(v, ins[i], outs[i])

(* A value that can be encoded arrives, with nothing of the Variant around *)
(* it; exactly the others leave no trace when they are reported.  A read   *)
(* that fails, of this value or as a whole, is answered as Bad and dated   *)
(* now, with the newest value of the history as it had arrived (converted  *)
(* "recursively", convert.py; "NEVER wrapped", mapping.py; "stale-LKV",    *)
(* api/routes/values.py).                                                  *)
ArrivesNaked ==
  /\ stage = "lost" => path = "notification" /\ Unencodable(value.value)
  /\ stage = "delivered" =>
       IF path = "read" /\ (sample = None \/ value.status # "Good" \/ Unencodable(value.value))
       THEN /\ wire.quality = "Bad" /\ wire.timestamp = "now"
            /\ IF known = None THEN wire.value = Null ELSE Holding(known, wire.value)
       ELSE /\ ~Unencodable(value.value) /\ Holding(value.value, wire.value)
            /\ wire.quality = Quality(value.status)
            /\ (wire.timestamp = "") = (value.source = "" /\ value.server = "")

====
