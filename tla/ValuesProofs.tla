---- MODULE ValuesProofs ----
(***************************************************************************)
(* Proofs about Values, for arrays and matrices of any size, any payloads  *)
(* and structures of any fields: which values cannot be encoded, and that  *)
(* all others arrive item by item.                                         *)
(***************************************************************************)
EXTENDS Values, TLAPS, SequenceTheorems, WellFoundedInduction

--------------------------------------------------------------------------
(* Flattening.                                                             *)

\* A set of numbers that is not empty has a least.
LEMMA LeastExists ==
    ASSUME NEW S \in SUBSET Nat, S # {}
    PROVE  \E k \in S : \A j \in S : k <= j
<1>1. PICK x \in S : \A y \in S : ~ (<<y, x>> \in OpToRel(<, Nat))
  BY NatLessThanWellFounded, WFMin
<1>2. \A y \in S : ~ (y < x)
  BY <1>1 DEF OpToRel
<1>3. QED  BY <1>2

\* What FlattenSeq computes, when there is something to flatten.
Joins(rows, f) ==
  f = [i \in 1..Len(rows) |-> IF i = 1 THEN rows[i] ELSE f[i - 1] \o rows[i]]

\* Rows can be joined one after another.
LEMMA RowsCanBeJoined ==
    ASSUME NEW S, NEW rows \in Seq(Seq(S)), Len(rows) # 0
    PROVE  \E f : Joins(rows, f)
<1> DEFINE n == Len(rows)
           Begun(k) == {g \in [1..k -> Seq(S)] : /\ g[1] = rows[1]
                                                 /\ \A i \in 2..k : g[i] = g[i - 1] \o rows[i]}
           Bad == {k \in 1..n : Begun(k) = {}}
<1>1. n \in Nat /\ n # 0 /\ \A i \in 1..n : rows[i] \in Seq(S)
  BY LenProperties
<1>2. Bad = {}
  <2>1. SUFFICES ASSUME Bad # {} PROVE FALSE
    OBVIOUS
  <2>2. PICK k \in Bad : \A j \in Bad : k <= j
    <3>1. Bad \in SUBSET Nat
      <4>1. 1..n \subseteq Nat
        BY <1>1
      <4> HIDE DEF Begun, n
      <4>2. QED  BY <4>1
    <3>2. QED  BY <2>1, <3>1, LeastExists
  <2>3. CASE k = 1
    <3>1. [i \in 1..1 |-> rows[1]] \in Begun(1)
      BY <1>1
    <3>2. QED  BY <2>2, <2>3, <3>1
  <2>4. CASE k # 1
    <3>1. k - 1 \in 1..n /\ ~ (k <= k - 1) /\ k \in 1..n
      BY <1>1, <2>2, <2>4
    <3>2. PICK g \in Begun(k - 1) : TRUE
      BY <2>2, <3>1
    <3> DEFINE h == [i \in 1..k |-> IF i = k THEN g[k - 1] \o rows[k] ELSE g[i]]
    <3>3. h \in [1..k -> Seq(S)]
      <4>1. g[k - 1] \in Seq(S) /\ rows[k] \in Seq(S)
        BY <1>1, <3>1
      <4>2. g[k - 1] \o rows[k] \in Seq(S)
        BY <4>1, ConcatProperties
      <4>3. \A i \in 1..k : i # k => i \in 1..(k - 1)
        BY <3>1
      <4>4. QED  BY <4>2, <4>3
    <3>4. h[1] = rows[1]
      BY <2>4, <3>1
    <3>5. \A i \in 2..k : h[i] = h[i - 1] \o rows[i]
      <4>1. ASSUME NEW i \in 2..k PROVE h[i] = h[i - 1] \o rows[i]
        <5>1. i - 1 \in 1..k /\ i - 1 # k /\ i \in 1..k
          BY <3>1
        <5>2. h[i - 1] = g[i - 1]
          BY <5>1
        <5>3. CASE i = k
          BY <5>1, <5>2, <5>3
        <5>4. CASE i # k
          <6>1. i \in 2..(k - 1)
            BY <3>1, <5>4
          <6>2. g[i] = g[i - 1] \o rows[i] /\ h[i] = g[i]
            BY <5>1, <5>4, <6>1
          <6>3. QED  BY <5>2, <6>2
        <5>5. QED  BY <5>3, <5>4
      <4>2. QED  BY <4>1
    <3>6. h \in Begun(k)
      BY <3>3, <3>4, <3>5
    <3>7. QED  BY <2>2, <3>6
  <2>5. QED  BY <2>3, <2>4
<1>3. PICK g \in Begun(n) : TRUE
  <2>1. n \in 1..n
    BY <1>1
  <2> HIDE DEF Begun
  <2>2. QED  BY <1>2, <2>1
<1>4. Joins(rows, g)
  <2>1. \A i \in 1..n : g[i] = IF i = 1 THEN rows[i] ELSE g[i - 1] \o rows[i]
    <3>1. ASSUME NEW i \in 1..n, i # 1 PROVE i \in 2..n
      BY <1>1, <3>1
    <3>2. g[1] = rows[1] /\ \A i \in 2..n : g[i] = g[i - 1] \o rows[i]
      BY <1>3
    <3>3. QED  BY <3>1, <3>2
  <2>2. QED  BY <2>1 DEF Joins
<1>5. QED  BY <1>4

\* Flattening rows gives a sequence of their items.
LEMMA FlatRows ==
    ASSUME NEW S, NEW rows \in Seq(Seq(S))
    PROVE  FlattenSeq(rows) \in Seq(S)
<1>1. CASE Len(rows) = 0
  BY <1>1, EmptySeq DEF FlattenSeq
<1>2. CASE Len(rows) # 0
  <2> DEFINE n == Len(rows)
             F == CHOOSE f : Joins(rows, f)
             Bad == {i \in 1..n : F[i] \notin Seq(S)}
  <2>1. Joins(rows, F)
    BY <1>2, RowsCanBeJoined
  <2>2. FlattenSeq(rows) = F[n]
    BY <1>2 DEF FlattenSeq, Joins
  <2>3. n \in Nat /\ n # 0 /\ \A i \in 1..n : rows[i] \in Seq(S)
    BY <1>2, LenProperties
  <2> HIDE DEF F
  <2>4. \A i \in 1..n : F[i] = IF i = 1 THEN rows[i] ELSE F[i - 1] \o rows[i]
    BY <2>1 DEF Joins
  <2>5. Bad = {}
    <3>1. SUFFICES ASSUME Bad # {} PROVE FALSE
      OBVIOUS
    <3>2. PICK k \in Bad : \A j \in Bad : k <= j
      <4>1. Bad \in SUBSET Nat
        OBVIOUS
      <4>2. QED  BY <3>1, <4>1, LeastExists
    <3>3. k # 1
      BY <2>3, <2>4
    <3>4. k - 1 \in 1..n /\ ~ (k <= k - 1) /\ k \in 1..n
      BY <2>3, <3>2, <3>3
    <3>5. F[k - 1] \in Seq(S)
      BY <3>2, <3>4
    <3>6. F[k] \in Seq(S)
      <4>1. F[k] = F[k - 1] \o rows[k] /\ rows[k] \in Seq(S)
        BY <2>3, <2>4, <3>3, <3>4
      <4>2. QED  BY <3>5, <4>1, ConcatProperties
    <3>7. QED  BY <3>2, <3>6
  <2>6. QED  BY <2>2, <2>3, <2>5
<1>3. QED  BY <1>1, <1>2

\* Rows of one item each are flattened to those items.
LEMMA FlatSingles ==
    ASSUME NEW S, NEW s \in Seq(S)
    PROVE  FlattenSeq([i \in DOMAIN s |-> <<s[i]>>]) = s
<1> DEFINE rows == [i \in DOMAIN s |-> <<s[i]>>]
           n == Len(s)
<1>1. n \in Nat /\ DOMAIN s = 1..n /\ \A i \in 1..n : s[i] \in S
  BY LenProperties
<1>2. rows \in Seq(Seq(S)) /\ Len(rows) = n
  BY <1>1
<1>3. CASE n = 0
  <2>1. rows = s
    BY <1>1, <1>3
  <2> HIDE DEF rows
  <2>2. QED  BY <1>2, <1>3, <2>1 DEF FlattenSeq
<1>4. CASE n # 0
  <2> DEFINE F == CHOOSE f : Joins(rows, f)
             Bad == {i \in 1..n : F[i] # SubSeq(s, 1, i)}
  <2> HIDE DEF rows
  <2>1. Joins(rows, F)
    BY <1>2, <1>4, RowsCanBeJoined
  <2>2. FlattenSeq(rows) = F[n]
    BY <1>2, <1>4 DEF FlattenSeq, Joins
  <2> HIDE DEF F
  <2>3. \A i \in 1..n : F[i] = IF i = 1 THEN <<s[1]>> ELSE F[i - 1] \o <<s[i]>>
    BY <1>1, <1>2, <2>1 DEF Joins, rows
  <2>4. Bad = {}
    <3>1. SUFFICES ASSUME Bad # {} PROVE FALSE
      OBVIOUS
    <3>2. PICK k \in Bad : \A j \in Bad : k <= j
      <4>1. Bad \in SUBSET Nat
        OBVIOUS
      <4>2. QED  BY <3>1, <4>1, LeastExists
    <3>3. k \in 1..n
      BY <3>2
    <3>4. CASE k = 1
      <4> DEFINE a == SubSeq(s, 1, 1)
                 b == <<s[1]>>
      <4>1. a = b
        <5>1. 1 \in 1..n
          BY <1>1, <1>4
        <5>2. a \in Seq(S) /\ Len(a) = 1 /\ a[1] = s[1]
          BY <1>1, <5>1, SubSeqProperties
        <5>3. b \in Seq(S) /\ Len(b) = 1 /\ b[1] = s[1]
          BY <1>1, <5>1
        <5> HIDE DEF a, b
        <5>4. \A i \in 1..Len(a) : a[i] = b[i]
          BY <5>2, <5>3
        <5>5. QED  BY <5>2, <5>3, <5>4, SeqEqual
      <4>2. QED  BY <2>3, <3>2, <3>3, <3>4, <4>1
    <3>5. CASE k # 1
      <4>1. k - 1 \in 1..n /\ ~ (k <= k - 1)
        BY <1>1, <3>3, <3>5
      <4>2. F[k - 1] = SubSeq(s, 1, k - 1)
        BY <3>2, <4>1
      <4>3. SubSeq(s, 1, k) = SubSeq(s, 1, k - 1) \o <<s[k]>>
        BY <1>1, <3>3, <4>1
      <4>4. QED  BY <2>3, <3>2, <3>3, <3>5, <4>2, <4>3
    <3>6. QED  BY <3>4, <3>5
  <2>5. SubSeq(s, 1, n) = s
    BY <1>1
  <2>6. F[n] = SubSeq(s, 1, n)
    BY <1>1, <1>4, <2>4
  <2>7. QED  BY <2>2, <2>5, <2>6 DEF rows
<1>5. QED  BY <1>3, <1>4

--------------------------------------------------------------------------
(* One item.                                                               *)

Kinds == Builtin \cup Nested \cup {"ExtensionObject", "DiagnosticInfo", "Unknown"}

\* A list of parts was computed when all of them were.
LEMMA AllOrRaised ==
    ASSUME NEW n \in Nat, NEW parts, parts = [i \in 1..n |-> parts[i]]
    PROVE  /\ Len(parts) = n
           /\ All(parts, List(parts)) = IF \E i \in 1..n : parts[i] = Raised THEN Raised ELSE List(parts)
           /\ List(parts) # Raised /\ List(parts) # Null
           /\ List(parts).is = "list" /\ List(parts).items = parts
<1>1. Len(parts) = n
  OBVIOUS
<1>2. Contains(parts, Raised) <=> \E i \in 1..n : parts[i] = Raised
  BY <1>1 DEF Contains
<1>3. /\ List(parts) # Raised /\ List(parts) # Null
      /\ List(parts).is = "list" /\ List(parts).items = parts
  BY DEF List, Raised, Null
<1>4. QED  BY <1>1, <1>2, <1>3 DEF All

\* A field is encoded unless it is a misfit.
LEMMA FieldEncodes ==
    ASSUME NEW f, f[2].is \in FieldSorts, f[2].is = "null" => f[2] = Null
    PROVE  EncodeField(f) = Raised <=> Misfit(f)
<1> DEFINE t == f[1]
           x == f[2]
<1>1. x # Raised /\ (x = Null <=> x.is = "null") /\ x.is # "neutral"
  BY DEF Raised, Null, FieldSorts
<1>2. \A s, p : Json(s, p) # Raised
  BY DEF Json, Raised
<1>3. Null # Raised
  BY DEF Null, Raised
<1> HIDE DEF t, x
<1>4. CASE t \notin Builtin
  <2>1. EncodeField(f) = Encode(x)
    BY <1>4 DEF EncodeField, t, x
  <2>2. Encode(x) # Raised
    BY <1>1, <1>2 DEF Encode
  <2>3. ~ Misfit(f)
    BY <1>4 DEF Misfit, t, Builtin
  <2>4. QED  BY <2>1, <2>2, <2>3
<1>5. CASE t \in Builtin /\ x = Null
  BY <1>3, <1>5 DEF EncodeField, EncodeScalar, Misfit, t, x
<1>6. CASE t \in Builtin /\ x # Null
  <2>1. EncodeField(f) = EncodeScalar(t, x) /\ t # "Null"
    BY <1>6 DEF EncodeField, t, x, Builtin, Moments, Converted
  <2>2. CASE t \in {"Boolean", "String"}
    <3>1. EncodeScalar(t, x) # Raised
      BY <1>2, <1>6, <2>2 DEF EncodeScalar, Moments, Converted, Nested
    <3>2. ~ Misfit(f)
      BY <2>2 DEF Misfit, t, x, Converted
    <3>3. QED  BY <2>1, <3>1, <3>2
  <2>3. CASE t \in {"Int32", "Double", "Int64"} \cup Moments
    <3> DEFINE none == t = "ByteString" /\ x = List(<<>>)
    <3>1. EncodeScalar(t, x) = Raised <=> x.is # "native" /\ ~ none
      <4>1. CASE t = "ByteString"
        BY <1>2, <1>6, <4>1 DEF EncodeScalar, EncodeBytes, EncodeAsText, Moments, Converted, Nested, List
      <4>2. CASE t # "ByteString"
        BY <1>2, <1>6, <2>3, <4>2 DEF EncodeScalar, EncodeAsText, Moments, Converted, Nested
      <4>3. QED  BY <4>1, <4>2
    <3>2. Misfit(f) <=> x.is # "native" /\ ~ none
      BY <1>6, <2>3 DEF Misfit, t, x, Converted, Moments, Builtin
    <3>3. QED  BY <2>1, <3>1, <3>2
  <2>4. CASE t \in Converted
    <3>1. EncodeScalar(t, x) = Raised
      BY <1>1, <1>6, <2>4 DEF EncodeScalar, EncodeStructured, EncodeStatusCode, Converted, Moments, Nested
    <3>2. Misfit(f)
      BY <1>6, <2>4 DEF Misfit, t, x
    <3>3. QED  BY <2>1, <3>1, <3>2
  <2>5. QED  BY <1>6, <2>2, <2>3, <2>4 DEF Builtin
<1>7. QED  BY <1>4, <1>5, <1>6

\* What an item of a type can be.
LEMMA ItemIs ==
    ASSUME NEW t \in Types, NEW x \in Items(t)
    PROVE  /\ t \in Kinds
           /\ \/ x = Null /\ t = "String"
              \/ /\ x \in Some(t) /\ x # Null /\ x # Raised
                 /\ x.is \in {"structure", "binary", "ua", "native"}
           /\ t = "ExtensionObject" =>
                \/ \E fs \in Fields : x = Structure(fs)
                \/ \E p \in Payloads : x = Binary(p) \/ x = Ua(p)
           /\ t \in Converted \cup Nested \cup {"DiagnosticInfo"} => \E p : x = Ua(p)
           /\ t \notin Converted \cup Nested \cup {"DiagnosticInfo", "ExtensionObject"} =>
                x = Null \/ \E p : x = Native(Sort(t), p)
<1>1. t \in Kinds
  BY ValueAssumption DEF Kinds
<1>2. CASE x \notin Some(t)
  <2>1. x = Null /\ t = "String"
    BY <1>2 DEF Items
  <2>2. QED  BY <1>1, <2>1 DEF Converted, Nested
<1>3. CASE x \in Some(t)
  <2>1. PICK p \in Payloads : x \in Leaves(t, p)
    BY <1>3 DEF Some
  <2>2. CASE t = "ExtensionObject"
    <3>1. (\E fs \in Fields : x = Structure(fs)) \/ x = Binary(p) \/ x = Ua(p)
      BY <2>1, <2>2 DEF Leaves
    <3>2. x.is \in {"structure", "binary", "ua"}
      BY <3>1 DEF Structure, Binary, Ua
    <3>3. QED  BY <1>1, <1>3, <2>2, <3>1, <3>2 DEF Null, Raised, Converted, Nested
  <2>3. CASE t \in Converted \cup Nested \cup {"DiagnosticInfo"}
    <3>1. \E q : x = Ua(q)
      BY <2>1, <2>3 DEF Leaves, Converted, Nested
    <3>2. x.is = "ua"
      BY <3>1 DEF Ua
    <3>3. QED  BY <1>1, <1>3, <2>3, <3>1, <3>2 DEF Null, Raised, Converted, Nested
  <2>4. CASE t \notin Converted \cup Nested \cup {"DiagnosticInfo", "ExtensionObject"}
    <3>1. x = Native(Sort(t), p)
      BY <2>1, <2>4 DEF Leaves, Converted
    <3>2. x.is = "native"
      BY <3>1 DEF Native
    <3>3. QED  BY <1>1, <1>3, <2>4, <3>1, <3>2 DEF Null, Raised
  <2>5. QED  BY <2>2, <2>3, <2>4
<1>4. QED  BY <1>2, <1>3

\* A structure with fields of any kind: encoded field by field.
LEMMA StructureEncodes ==
    ASSUME NEW fs \in Fields
    PROVE  LET e == EncodeExtensionObject(FromUaExtensionObject(Structure(fs)))
           IN /\ e = Raised <=> \E i \in DOMAIN fs : Misfit(fs[i])
              /\ e # Raised => e.is = "json" /\ Len(e.of) = Len(fs)
<1> DEFINE c == FromUaExtensionObject(Structure(fs))
           n == Len(fs)
           fields == [i \in 1..n |-> EncodeField(fs[i])]
           whole == Json("object", fields)
<1>1. fs \in Seq(ToSet(fs)) /\ \A i \in DOMAIN fs : fs[i][2].is \in FieldSorts /\ (fs[i][2].is = "null" => fs[i][2] = Null)
  BY ValueAssumption
<1>2. n \in Nat /\ DOMAIN fs = 1..n
  BY <1>1, LenProperties
<1>3. c.fields = fs
  BY DEF FromUaExtensionObject, Structure
<1>4. EncodeExtensionObject(c) = All(fields, whole)
  BY <1>2, <1>3 DEF EncodeExtensionObject
<1>5. whole # Raised /\ whole.is = "json" /\ whole.of = fields
  BY DEF Json, Raised
<1>6. Len(fields) = n
  BY <1>2
<1>7. Contains(fields, Raised) <=> \E i \in 1..n : fields[i] = Raised
  BY <1>6 DEF Contains
<1>8. \A i \in 1..n : fields[i] = Raised <=> Misfit(fs[i])
  BY <1>1, <1>2, FieldEncodes
<1> HIDE DEF c, n, fields, whole
<1>9. EncodeExtensionObject(c) = Raised <=> \E i \in 1..n : Misfit(fs[i])
  BY <1>4, <1>5, <1>7, <1>8 DEF All
<1>10. EncodeExtensionObject(c) # Raised => EncodeExtensionObject(c) = whole
  BY <1>4 DEF All
<1>11. QED  BY <1>2, <1>5, <1>6, <1>9, <1>10 DEF c, n

\* The items of a type that cannot be encoded, outside a matrix.
Barred(t, x) ==
  /\ x # Null
  /\ \/ t \in Nested \cup {"DiagnosticInfo"}
     \/ x.is = "structure" /\ \E i \in DOMAIN x.fields : Misfit(x.fields[i])

\* The conversion of one item, and its encoding.
Item(t, x) == EncodeItem(VariantType(t), ConvertScalar(VariantType(t), x))

\* An item alone or in an array is encoded unless it is barred.
LEMMA ItemEncodes ==
    ASSUME NEW t \in Types, NEW x \in Items(t), NEW v, v.type = t, ~ IsMatrix(v)
    PROVE  /\ ConvertScalar(VariantType(t), x) # Raised
           /\ Item(t, x) = Raised <=> Barred(t, x)
           /\ Item(t, x) # Raised => /\ Carries(v, x, Item(t, x))
                                     /\ Item(t, x).is \notin {"list", "variant"}
<1> DEFINE u == VariantType(t)
           c == ConvertScalar(u, x)
           e == EncodeItem(u, c)
<1>0. Item(t, x) = e
  BY DEF Item
<1>1. t \in Kinds
  BY ItemIs
<1>2. \A s, p : Json(s, p) # Raised /\ Json(s, p).is = "json" /\ Json(s, p).of = p
  BY DEF Json, Raised
<1>3. Null # Raised /\ Null.is = "null"
  BY DEF Null, Raised
<1>4. \A p : /\ Ua(p) # Raised /\ Ua(p) # Null /\ Ua(p).is = "ua" /\ Ua(p).of = p
             /\ Neutral(p) # Raised /\ Neutral(p) # Null /\ Neutral(p).is = "neutral" /\ Neutral(p).of = p
             /\ Binary(p) # Raised /\ Binary(p) # Null /\ Binary(p).is = "binary" /\ Binary(p).of = p
             /\ Json("object", p) # Null
  BY DEF Null, Raised, Ua, Neutral, Binary, Json
<1>5. \A s, p : /\ Native(s, p) # Raised /\ Native(s, p) # Null /\ Native(s, p).is = "native"
                /\ Native(s, p).of = p /\ Native(s, p).sort = s
  BY DEF Null, Raised, Native
<1>6. CASE x = Null
  <2>1. t = "String" /\ u = "String"
    BY <1>6, ItemIs DEF VariantType
  <2>2. c = Null
    BY <1>6, <2>1 DEF ConvertScalar, Converted
  <2>3. e = Null
    BY <2>1, <2>2 DEF EncodeItem, EncodeScalar
  <2>4. Carries(v, x, e)
    BY <1>6, <2>3 DEF Carries
  <2>5. QED  BY <1>0, <1>3, <1>6, <2>2, <2>3, <2>4 DEF Barred
<1>7. CASE x # Null /\ t = "ExtensionObject"
  <2>1. u = "ExtensionObject" /\ t \notin Nested \cup {"DiagnosticInfo", "Unknown", "StatusCode"}
    BY <1>7 DEF VariantType, Nested
  <2>2. c = FromUaExtensionObject(x)
    BY <2>1 DEF ConvertScalar, Converted
  <2>3. CASE \E fs \in Fields : x = Structure(fs)
    <3>1. PICK fs \in Fields : x = Structure(fs)
      BY <2>3
    <3>2. x.is = "structure" /\ x.fields = fs
      BY <3>1 DEF Structure
    <3>3. c.is = "extension"
      BY <2>2, <3>1 DEF FromUaExtensionObject, Structure
    <3>4. c # Raised /\ c # Null
      BY <3>3 DEF Raised, Null
    <3>5. e = EncodeExtensionObject(c)
      BY <2>1, <3>3, <3>4 DEF EncodeItem
    <3>6. /\ e = Raised <=> \E i \in DOMAIN fs : Misfit(fs[i])
          /\ e # Raised => e.is = "json" /\ Len(e.of) = Len(fs)
      BY <2>2, <3>1, <3>5, StructureEncodes
    <3>7. e = Raised <=> Barred(t, x)
      BY <1>7, <2>1, <3>2, <3>6 DEF Barred
    <3>8. e # Raised => Carries(v, x, e)
      BY <1>7, <3>2, <3>6 DEF Carries, Opaque
    <3>9. QED  BY <1>0, <3>4, <3>6, <3>7, <3>8
  <2>4. CASE \E p : x = Binary(p)
    <3>1. PICK p : x = Binary(p)
      BY <2>4
    <3>2. c = Json("object", p)
      BY <1>4, <2>2, <3>1 DEF FromUaExtensionObject
    <3>3. e = c
      BY <1>2, <1>4, <2>1, <3>2 DEF EncodeItem
    <3>4. Carries(v, x, e)
      BY <1>2, <1>4, <1>7, <3>1, <3>2, <3>3 DEF Carries, Opaque
    <3>5. ~ Barred(t, x)
      BY <1>4, <2>1, <3>1 DEF Barred
    <3>6. QED  BY <1>0, <1>2, <3>2, <3>3, <3>4, <3>5
  <2>5. CASE \E p : x = Ua(p)
    <3>1. PICK p : x = Ua(p)
      BY <2>5
    <3>2. c = x
      BY <1>4, <2>2, <3>1 DEF FromUaExtensionObject
    <3>3. e = x
      BY <1>4, <2>1, <3>1, <3>2 DEF EncodeItem
    <3>4. Carries(v, x, e)
      BY <1>4, <1>7, <3>1, <3>3 DEF Carries, Opaque
    <3>5. ~ Barred(t, x)
      BY <1>4, <2>1, <3>1 DEF Barred
    <3>6. QED  BY <1>0, <1>4, <3>1, <3>2, <3>3, <3>4, <3>5
  <2>6. QED  BY <1>7, <2>3, <2>4, <2>5, ItemIs
<1>8. CASE x # Null /\ t \in Converted \cup Nested \cup {"DiagnosticInfo"}
  <2>1. u = t /\ t \notin {"ExtensionObject", "Unknown", "Null"}
    BY <1>8 DEF VariantType, Converted, Nested
  <2>2. PICK p : x = Ua(p)
    BY <1>8, ItemIs
  <2>3. CASE t \in Converted
    <3>1. c = Neutral(p)
      BY <1>4, <2>1, <2>2, <2>3 DEF ConvertScalar, FromUa
    <3>2. e = IF t = "StatusCode" THEN EncodeStatusCode(c) ELSE EncodeStructured(c)
      BY <1>4, <2>1, <2>3, <3>1 DEF EncodeItem, EncodeScalar, Converted, Nested, Moments
    <3>3. e = IF t = "StatusCode" THEN Json("text", Quality(p)) ELSE Json("object", p)
      BY <1>4, <3>1, <3>2 DEF EncodeStatusCode, EncodeStructured
    <3>4. t \notin Nested \cup {"DiagnosticInfo"} /\ x.is = "ua" /\ x.of = p
      BY <1>4, <2>2, <2>3 DEF Converted, Nested
    <3>5. Carries(v, x, e)
      BY <1>2, <1>8, <2>1, <3>3, <3>4 DEF Carries, Opaque
    <3>6. ~ Barred(t, x)
      BY <3>4 DEF Barred
    <3>7. QED  BY <1>0, <1>2, <1>4, <3>1, <3>3, <3>5, <3>6
  <2>4. CASE t \in Nested \cup {"DiagnosticInfo"}
    <3>1. t \notin Converted
      BY <2>4 DEF Converted, Nested
    <3>2. c = x
      BY <2>1, <3>1 DEF ConvertScalar
    <3>3. e = Raised
      BY <1>4, <2>1, <2>2, <2>4, <3>2 DEF EncodeItem, EncodeScalar, EncodeStructured, Converted, Nested, Moments
    <3>4. Barred(t, x)
      BY <1>8, <2>4 DEF Barred
    <3>5. QED  BY <1>0, <1>4, <2>2, <3>2, <3>3, <3>4
  <2>5. QED  BY <1>8, <2>3, <2>4
<1>9. CASE x # Null /\ t \notin Converted \cup Nested \cup {"DiagnosticInfo", "ExtensionObject"}
  <2>1. PICK p : x = Native(Sort(t), p)
    BY <1>9, ItemIs
  <2>2. u \notin Converted /\ u # "ExtensionObject"
    BY <1>9 DEF VariantType, Converted
  <2>3. c = x
    BY <2>2 DEF ConvertScalar
  <2>4. e = EncodeScalar(u, x)
    BY <2>2, <2>3 DEF EncodeItem
  <2>5. ~ Barred(t, x)
    BY <1>5, <1>9, <2>1 DEF Barred
  <2>6. x.is = "native" /\ x.of = p /\ x # Raised
    BY <1>5, <2>1
  <2>7. CASE t = "Unknown"
    <3>1. e = Null
      BY <2>4, <2>7 DEF EncodeScalar, VariantType
    <3>2. QED  BY <1>0, <1>3, <2>3, <2>5, <2>6, <2>7, <3>1 DEF Carries
  <2>8. CASE t # "Unknown"
    <3>1. u = t /\ t \in {"Boolean", "Int32", "Int64", "Double", "String"} \cup Moments
      BY <1>1, <1>9, <2>8 DEF VariantType, Kinds, Builtin
    <3>2. \E s : e = Json(s, p)
      <4>1. CASE t = "ByteString"
        <5>1. x # List(<<>>)
          BY <2>6 DEF List
        <5>2. QED  BY <1>9, <2>4, <2>6, <3>1, <4>1, <5>1 DEF EncodeScalar, EncodeBytes, EncodeAsText, Moments, Converted, Nested
      <4>2. CASE t # "ByteString"
        BY <1>9, <2>4, <2>6, <3>1, <4>2 DEF EncodeScalar, EncodeAsText, Moments, Converted, Nested
      <4>3. QED  BY <4>1, <4>2
    <3>3. e.is = "json" /\ e.of = p /\ e # Raised
      BY <1>2, <3>2
    <3>4. t # "StatusCode" /\ t # "ExtensionObject"
      BY <1>9 DEF Converted
    <3>5. Carries(v, x, e)
      BY <1>9, <2>6, <2>8, <3>3, <3>4 DEF Carries, Opaque
    <3>6. QED  BY <1>0, <2>3, <2>5, <2>6, <3>3, <3>5
  <2>9. QED  BY <2>7, <2>8
<1>10. QED  BY <1>6, <1>7, <1>8, <1>9

\* An item of a matrix, which the conversion has passed by.
LEMMA MatrixItemEncodes ==
    ASSUME NEW t \in Types \ Converted, NEW x \in Items(t), NEW v, v.type = t, IsMatrix(v)
    PROVE  LET e == EncodeItem(VariantType(t), x)
           IN /\ e = Raised <=> x # Null /\ t \in Nested \cup {"DiagnosticInfo"}
              /\ e # Raised => Carries(v, x, e) /\ e.is \notin {"list", "variant"}
<1> DEFINE e == EncodeItem(VariantType(t), x)
<1>1. CASE t = "ExtensionObject"
  <2>1. VariantType(t) = t /\ t \notin Nested \cup {"DiagnosticInfo", "Unknown"} /\ t # "String"
    BY <1>1 DEF VariantType, Nested
  <2>2. x # Null /\ x # Raised /\ x.is \in {"structure", "binary", "ua", "native"}
    BY <2>1, ItemIs
  <2>3. e = x
    BY <1>1, <2>1, <2>2 DEF EncodeItem
  <2>4. Carries(v, x, e)
    BY <1>1, <2>1, <2>2, <2>3 DEF Carries, Opaque
  <2>5. QED  BY <2>1, <2>2, <2>3, <2>4
<1>2. CASE t # "ExtensionObject"
  <2> DEFINE w == Variant(t, Null, <<>>)
  <2>1. w.type = t /\ ~ IsMatrix(w)
    BY DEF Variant, IsMatrix
  <2>2. ConvertScalar(VariantType(t), x) = x
    <3>1. VariantType(t) \notin Converted \cup {"ExtensionObject"}
      BY <1>2 DEF VariantType, Converted
    <3>2. QED  BY <3>1 DEF ConvertScalar
  <2>3. e = Item(t, x)
    BY <2>2 DEF Item
  <2> HIDE DEF w, e
  <2>4. /\ e = Raised <=> Barred(t, x)
        /\ e # Raised => Carries(w, x, e) /\ e.is \notin {"list", "variant"}
    BY <2>1, <2>3, ItemEncodes
  <2>5. x # Null => x.is # "structure"
    <3>1. CASE t \in Nested \cup {"DiagnosticInfo"}
      <4>1. PICK p : x = Ua(p)
        BY <3>1, ItemIs
      <4>2. QED  BY <4>1 DEF Ua
    <3>2. CASE t \notin Nested \cup {"DiagnosticInfo"}
      <4>1. x = Null \/ \E p : x = Native(Sort(t), p)
        BY <1>2, <3>2, ItemIs
      <4>2. QED  BY <4>1 DEF Native
    <3>3. QED  BY <3>1, <3>2
  <2>6. Barred(t, x) <=> x # Null /\ t \in Nested \cup {"DiagnosticInfo"}
    BY <2>5 DEF Barred
  <2>7. Carries(w, x, e) => Carries(v, x, e)
    BY <1>2, <2>1 DEF Carries, Opaque
  <2>8. QED  BY <2>4, <2>6, <2>7 DEF e
<1>3. QED  BY <1>1, <1>2

--------------------------------------------------------------------------
(* A whole value.                                                          *)

\* Item by item, what was made of a value carries it.
Arrives(v) == Holding(v, StripVariant(Encoded(v)))

LEMMA PartsOfList ==
    ASSUME NEW S, NEW s \in Seq(S), \A i \in DOMAIN s : s[i].is # "list"
    PROVE  Parts(List(s)) = s
<1>1. List(s).is = "list" /\ List(s).items = s
  BY DEF List
<1>2. [i \in DOMAIN s |-> IF s[i].is = "list" THEN s[i].items ELSE <<s[i]>>] = [i \in DOMAIN s |-> <<s[i]>>]
  OBVIOUS
<1>3. QED  BY <1>1, <1>2, FlatSingles DEF Parts, FlattenMatrix

\* Taking off the envelope of a list leaves its items.
LEMMA StrippedList ==
    ASSUME NEW n \in Nat, NEW outs, outs = [i \in 1..n |-> outs[i]], NEW t, NEW dims,
           \A i \in 1..n : outs[i].is \notin {"list", "variant"}
    PROVE  Parts(StripVariant(Variant(t, List(outs), dims))) = outs
<1> DEFINE w == Variant(t, List(outs), dims)
           S == {outs[i] : i \in 1..n}
<1>1. StripOnce(w) = List(outs)
  BY DEF StripOnce, Variant
<1>2. DOMAIN outs = 1..n
  OBVIOUS
<1>3. \A i \in 1..n : StripOnce(outs[i]) = outs[i]
  BY DEF StripOnce
<1>4. [i \in DOMAIN outs |-> StripOnce(outs[i])] = outs
  BY <1>2, <1>3
<1>5. StripVariant(w) = List(outs)
  <2>1. List(outs).is = "list" /\ List(outs).items = outs
    BY DEF List
  <2> HIDE DEF w
  <2>2. StripVariant(w) = List([i \in DOMAIN outs |-> StripOnce(outs[i])])
    BY <1>1, <2>1 DEF StripVariant
  <2>3. QED  BY <1>4, <2>2
<1>6. outs \in Seq(S)
  BY <1>2
<1> HIDE DEF w, S
<1>7. QED  BY <1>2, <1>5, <1>6, PartsOfList DEF w

\* Arrays.
LEMMA ArrayMade ==
    ASSUME NEW t \in Types, NEW s \in Seq(Items(t)), NEW dims, ~ (Len(dims) > 1),
           NEW v, v = Variant(t, List(s), dims)
    PROVE  (Encoded(v) = Raised <=> Unencodable(v)) /\ (Encoded(v) # Raised => Arrives(v))
<1> DEFINE n == Len(s)
           u == VariantType(t)
           converted == [i \in 1..n |-> ConvertScalar(u, s[i])]
           outs == [i \in 1..n |-> Item(t, s[i])]
           c == Variant(u, List(converted), dims)
<1>1. n \in Nat /\ DOMAIN s = 1..n /\ \A i \in 1..n : s[i] \in Items(t)
  BY LenProperties
<1>2. v.type = t /\ v.body = List(s) /\ v.dims = dims /\ v.is = "variant" /\ ~ IsMatrix(v) /\ ~ (Len(dims) > 1)
  <2>1. v.type = t /\ v.body = List(s) /\ v.dims = dims /\ v.is = "variant"
    BY DEF Variant
  <2>2. ~ (Len(dims) > 1)
    OBVIOUS
  <2>3. QED  BY <2>1, <2>2 DEF IsMatrix
<1>3. \A i \in 1..n : /\ converted[i] # Raised
                      /\ outs[i] = Raised <=> Barred(t, s[i])
                      /\ outs[i] # Raised => /\ Carries(v, s[i], outs[i])
                                             /\ outs[i].is \notin {"list", "variant"}
  BY <1>1, <1>2, ItemEncodes
<1>4. List(s) # Null /\ List(s).is = "list" /\ List(s).items = s
  BY DEF List, Null
<1>5. FromUaVariant(v) = c /\ c # Raised
  <2>1. ConvertValue(u, List(s)) = All(converted, List(converted))
    BY <1>1, <1>4 DEF ConvertValue, Each
  <2>2. ConvertValue(u, List(s)) = List(converted) /\ List(converted) # Raised
    <3>1. converted = [i \in 1..n |-> converted[i]]
      OBVIOUS
    <3> HIDE DEF converted
    <3>2. QED  BY <1>1, <1>3, <2>1, <3>1, AllOrRaised
  <2> HIDE DEF converted
  <2>3. QED  BY <1>2, <2>2 DEF FromUaVariant, Variant, Raised
<1>6. EncodeVariant(c) = IF \E i \in 1..n : outs[i] = Raised THEN Raised ELSE Variant(u, List(outs), dims)
  <2>1. c.type = u /\ c.body = List(converted) /\ c.dims = dims /\ DOMAIN converted = 1..n
    BY DEF Variant
  <2>2. List(converted).is = "list" /\ List(converted).items = converted
    BY DEF List
  <2>3. [i \in DOMAIN converted |-> EncodeItem(u, converted[i])] = outs
    BY <2>1 DEF Item
  <2>4. outs = [i \in 1..n |-> outs[i]]
    OBVIOUS
  <2> HIDE DEF converted, outs, c, u
  <2>5. EncodeVariant(c) = LET body == All(outs, List(outs))
                           IN IF body = Raised THEN Raised ELSE Variant(u, body, dims)
    BY <1>2, <2>1, <2>2, <2>3 DEF EncodeVariant, Each
  <2>6. QED  BY <1>1, <2>4, <2>5, AllOrRaised
<1> DEFINE w == Variant(u, List(outs), dims)
<1>7. w # Raised
  BY DEF Variant, Raised
<1>8. Parts(v.body) = s
  <2>1. \A i \in DOMAIN s : s[i].is # "list"
    BY <1>1, ItemIs DEF Null
  <2>2. QED  BY <1>2, <2>1, PartsOfList
<1>9. Unencodable(v) <=> \E i \in 1..n : Barred(t, s[i])
  <2>1. \A x : x \in Holds(v) <=> x # Null /\ \E i \in 1..n : x = s[i]
    BY <1>1, <1>8 DEF Holds, ToSet
  <2>2. Unencodable(v) <=> \/ Holds(v) # {} /\ t \in Nested \cup {"DiagnosticInfo"}
                           \/ \E x \in Holds(v) : x.is = "structure" /\ \E i \in DOMAIN x.fields : Misfit(x.fields[i])
    BY <1>2 DEF Unencodable
  <2>3. Unencodable(v) <=> \E x \in Holds(v) : Barred(t, x)
    BY <2>1, <2>2 DEF Barred
  <2>4. QED  BY <2>1, <2>3 DEF Barred
<1>10. outs = [i \in 1..n |-> outs[i]] /\ Len(outs) = n
  BY <1>1
<1> HIDE DEF outs, converted, c, u
<1>11. Encoded(v) = IF \E i \in 1..n : outs[i] = Raised THEN Raised ELSE w
  BY <1>5, <1>6 DEF Encoded
<1> HIDE DEF w
<1>12. Encoded(v) = Raised <=> Unencodable(v)
  BY <1>3, <1>7, <1>9, <1>11
<1>13. ASSUME Encoded(v) # Raised PROVE Arrives(v)
  <2>1. \A i \in 1..n : outs[i] # Raised
    BY <1>11, <1>13
  <2>2. Encoded(v) = w
    BY <1>11, <1>13
  <2>3. Parts(StripVariant(w)) = outs
    BY <1>1, <1>3, <1>10, <2>1, StrippedList DEF w
  <2>4. QED  BY <1>1, <1>3, <1>8, <1>10, <2>1, <2>2, <2>3 DEF Arrives, Holding
<1>14. QED  BY <1>12, <1>13

Retype(v, u, made) == [v EXCEPT !.type = u, !.body = made]

\* A conversion keeps the dimensions.
LEMMA Retyped ==
    ASSUME NEW t, NEW body, NEW dims, NEW u, NEW made,
           NEW v, v = Variant(t, body, dims)
    PROVE  Retype(v, u, made) = Variant(u, made, dims)
<1> DEFINE w == [v EXCEPT !.type = u, !.body = made]
<1>1. DOMAIN v = {"is", "type", "body", "dims"} /\ v.is = "variant" /\ v.dims = dims
  BY DEF Variant
<1>2. w = [k \in DOMAIN v |-> IF k = "type" THEN u ELSE IF k = "body" THEN made ELSE v[k]]
  BY <1>1
<1>3. w = [k \in {"is", "type", "body", "dims"} |->
             IF k = "type" THEN u ELSE IF k = "body" THEN made ELSE IF k = "is" THEN "variant" ELSE dims]
  BY <1>1, <1>2
<1>4. QED  BY <1>3 DEF Variant, Retype

\* A value alone, or none.
LEMMA ScalarMade ==
    ASSUME NEW t \in Types, NEW v \in Scalars(t)
    PROVE  (Encoded(v) = Raised <=> Unencodable(v)) /\ (Encoded(v) # Raised => Arrives(v))
<1> DEFINE u == VariantType(t)
<1>1. PICK x \in Some(t) \cup {Null} : v = Variant(t, x, <<>>)
  BY DEF Scalars
<1>2. v.type = t /\ v.body = x /\ v.dims = <<>> /\ ~ IsMatrix(v) /\ Len(v.dims) = 0
  BY <1>1 DEF Variant, IsMatrix
<1>3. x = Null \/ (x \in Items(t) /\ x.is # "list")
  BY <1>1, ItemIs DEF Items, Null
<1> DEFINE body == IF x = Null THEN Null ELSE ConvertScalar(u, x)
           e == IF x = Null THEN Null ELSE Item(t, x)
           c == Variant(u, body, <<>>)
<1>4. ConvertValue(u, x) = body /\ body # Raised
  BY <1>2, <1>3, ItemEncodes DEF ConvertValue, Null, Raised
<1>5. FromUaVariant(v) = c /\ c # Raised
  <2>1. c # Raised
    BY DEF Variant, Raised
  <2>2. VariantType(v.type) = u /\ ConvertValue(VariantType(v.type), v.body) = body /\ body # Raised
    BY <1>2, <1>4
  <2>3. v = Variant(t, x, <<>>)
    BY <1>1
  <2> HIDE DEF u, body
  <2>4. FromUaVariant(v) = Retype(v, u, body)
    BY <2>2 DEF FromUaVariant, Retype
  <2>5. Retype(v, u, body) = Variant(u, body, <<>>)
    BY <2>3, Retyped
  <2>6. QED  BY <2>1, <2>4, <2>5
<1>6. body.is # "list"
  <2>1. Null.is # "list"
    BY DEF Null
  <2>2. ASSUME x # Null PROVE ConvertScalar(u, x).is # "list"
    <3>1. x \in Items(t) /\ x.is # "list"
      BY <1>3, <2>2
    <3>2. ConvertScalar(u, x) = x \/ ConvertScalar(u, x) = FromUa(x) \/ ConvertScalar(u, x) = FromUaExtensionObject(x)
      BY DEF ConvertScalar
    <3>3. FromUa(x).is # "list"
      BY DEF FromUa, Neutral, Raised
    <3>4. FromUaExtensionObject(x).is # "list"
      <4>1. CASE x.is = "structure" /\ \E fs : x = Structure(fs)
        BY <4>1 DEF FromUaExtensionObject, Structure
      <4>2. CASE x.is # "structure"
        BY <3>1, <4>2 DEF FromUaExtensionObject, Json
      <4>3. x.is = "structure" => \E fs : x = Structure(fs)
        <5>1. \A p : Ua(p).is # "structure"
          BY DEF Ua
        <5>2. \A s, p : Native(s, p).is # "structure"
          BY DEF Native
        <5>3. \A p : Binary(p).is # "structure"
          BY DEF Binary
        <5>4. QED  BY <2>2, <3>1, <5>1, <5>2, <5>3, ItemIs
      <4>4. QED  BY <4>1, <4>2, <4>3
    <3>5. QED  BY <3>1, <3>2, <3>3, <3>4
  <2>3. QED  BY <2>1, <2>2
<1>7. EncodeItem(u, body) = e
  <2>1. EncodeItem(u, Null) = Null
    BY DEF EncodeItem, EncodeScalar
  <2>2. QED  BY <2>1 DEF Item
<1>8. c.type = u /\ c.body = body /\ c.dims = <<>> /\ Len(c.dims) = 0
  BY DEF Variant
<1> DEFINE w == Variant(u, e, <<>>)
<1>9. EncodeVariant(c) = IF e = Raised THEN Raised ELSE w
  <2> HIDE DEF c, body, e, u
  <2>1. QED  BY <1>6, <1>7, <1>8 DEF EncodeVariant, w
<1>10. w # Raised /\ StripOnce(w) = e
  BY DEF Variant, Raised, StripOnce
<1>11. Encoded(v) = IF e = Raised THEN Raised ELSE w
  <2> HIDE DEF c, w, e
  <2>1. QED  BY <1>5, <1>9 DEF Encoded
<1>12. Parts(v.body) = <<x>>
  <2>1. x.is # "list"
    BY <1>3 DEF Null
  <2>2. QED  BY <1>2, <2>1 DEF Parts
<1>13. \A y : y \in Holds(v) <=> y = x /\ x # Null
  BY <1>12 DEF Holds, ToSet
<1>14. Unencodable(v) <=> Barred(t, x)
  <2>1. Unencodable(v) <=> \/ Holds(v) # {} /\ t \in Nested \cup {"DiagnosticInfo"}
                           \/ \E y \in Holds(v) : y.is = "structure" /\ \E i \in DOMAIN y.fields : Misfit(y.fields[i])
    BY <1>2 DEF Unencodable
  <2>2. QED  BY <1>13, <2>1 DEF Barred
<1>15. /\ e = Raised <=> Barred(t, x)
       /\ e # Raised => Carries(v, x, e) /\ e.is \notin {"list", "variant"}
  <2>1. CASE x = Null
    <3>1. Null.is = "null" /\ Null # Raised
      BY DEF Null, Raised
    <3>2. e = Null
      BY <2>1
    <3>3. QED  BY <2>1, <3>1, <3>2 DEF Barred, Carries
  <2>2. CASE x # Null
    BY <1>2, <1>3, <2>2, ItemEncodes
  <2>3. QED  BY <2>1, <2>2
<1> HIDE DEF u, body, e, c, w
<1>16. Encoded(v) = Raised <=> Unencodable(v)
  BY <1>10, <1>11, <1>14, <1>15
<1>17. ASSUME Encoded(v) # Raised PROVE Arrives(v)
  <2>1. Encoded(v) = w /\ e # Raised
    BY <1>10, <1>11, <1>17
  <2>2. StripVariant(w) = e
    BY <1>10, <1>15, <2>1 DEF StripVariant
  <2>3. Parts(StripVariant(w)) = <<e>>
    BY <1>15, <2>1, <2>2 DEF Parts
  <2>4. Len(<<e>>) = Len(<<x>>) /\ DOMAIN <<x>> = {1} /\ <<x>>[1] = x /\ <<e>>[1] = e
    OBVIOUS
  <2>5. QED  BY <1>12, <1>15, <2>1, <2>3, <2>4 DEF Arrives, Holding
<1>18. QED  BY <1>16, <1>17

\* A matrix, row by row.
LEMMA MatrixMade ==
    ASSUME NEW t \in Types, NEW rows \in Seq(Seq(Items(t))), Len(rows) # 0,
           NEW dims, Len(dims) > 1,
           NEW v, v = Variant(t, List([i \in DOMAIN rows |-> List(rows[i])]), dims)
    PROVE  (Encoded(v) = Raised <=> Unencodable(v)) /\ (Encoded(v) # Raised => Arrives(v))
<1> DEFINE m == Len(rows)
           lists == [i \in 1..m |-> List(rows[i])]
           u == VariantType(t)
           s == FlattenSeq(rows)
           n == Len(s)
           outs == [i \in 1..n |-> EncodeItem(u, s[i])]
           w == Variant(u, List(outs), dims)
<1>1. m \in Nat /\ DOMAIN rows = 1..m /\ 1 \in 1..m
  BY LenProperties
<1>2. s \in Seq(Items(t)) /\ n \in Nat /\ DOMAIN s = 1..n /\ \A i \in 1..n : s[i] \in Items(t)
  BY FlatRows, LenProperties
<1>3. v = Variant(t, List(lists), dims)
  BY <1>1
<1>4. v.type = t /\ v.body = List(lists) /\ v.dims = dims /\ IsMatrix(v)
  BY <1>3 DEF Variant, IsMatrix
<1>5. \A i \in 1..m : /\ lists[i] = List(rows[i]) /\ lists[i].is = "list" /\ lists[i].items = rows[i]
                      /\ lists[i] # Raised
  BY DEF List, Raised
<1>6. lists = [i \in 1..m |-> lists[i]] /\ DOMAIN lists = 1..m
  OBVIOUS
<1>7. List(lists) # Null /\ List(lists) # Raised /\ List(lists).is = "list" /\ List(lists).items = lists
  BY DEF List, Null, Raised
<1>8. FlattenMatrix(List(lists)) = s
  <2> HIDE DEF lists
  <2>1. [i \in DOMAIN lists |-> IF lists[i].is = "list" THEN lists[i].items ELSE <<lists[i]>>] = rows
    <3>1. \A i \in 1..m : (IF lists[i].is = "list" THEN lists[i].items ELSE <<lists[i]>>) = rows[i]
      BY <1>5
    <3>2. rows = [i \in 1..m |-> rows[i]]
      BY <1>1
    <3> HIDE DEF m
    <3>3. QED  BY <1>6, <3>1, <3>2
  <2>2. QED  BY <1>7, <2>1 DEF FlattenMatrix
<1>9. Parts(v.body) = s
  BY <1>4, <1>7, <1>8 DEF Parts
<1> HIDE DEF lists, s, n, outs, w, u
<1>10. CASE t \in Converted
  <2>1. u = t
    BY <1>10 DEF VariantType, Converted, u
  <2>2. ConvertScalar(u, lists[1]) = Raised
    BY <1>1, <1>5, <1>10, <2>1 DEF ConvertScalar, FromUa
  <2> DEFINE parts == [i \in 1..m |-> ConvertScalar(u, lists[i])]
  <2>3. parts[1] = Raised /\ parts = [i \in 1..m |-> parts[i]]
    BY <1>1, <2>2
  <2>4. ConvertValue(u, v.body) = All(parts, List(parts))
    BY <1>4, <1>6, <1>7 DEF ConvertValue, Each
  <2> HIDE DEF parts, m
  <2>5. ConvertValue(u, v.body) = Raised
    BY <1>1, <2>3, <2>4, AllOrRaised
  <2>6. Encoded(v) = Raised
    BY <1>4, <2>5 DEF Encoded, FromUaVariant, u
  <2>7. QED  BY <1>4, <1>10, <2>6 DEF Unencodable
<1>11. CASE t \notin Converted
  <2>1. u \notin Converted
    BY <1>11 DEF VariantType, Converted, u
  <2>2. \A i \in 1..m : ConvertScalar(u, lists[i]) = lists[i]
    BY <1>5, <2>1 DEF ConvertScalar, FromUaExtensionObject
  <2>3. [i \in DOMAIN lists |-> ConvertScalar(u, lists[i])] = lists
    BY <1>6, <2>2
  <2>4. ConvertValue(u, List(lists)) = All(lists, List(lists))
    BY <1>7, <2>3 DEF ConvertValue, Each
  <2>5. All(lists, List(lists)) = List(lists)
    <3>1. ~ \E i \in 1..m : lists[i] = Raised
      BY <1>5
    <3> HIDE DEF m
    <3>2. QED  BY <1>1, <1>6, <3>1, AllOrRaised
  <2> DEFINE c == Variant(u, List(lists), dims)
  <2>6. c # Raised /\ c.type = u /\ c.body = List(lists) /\ c.dims = dims
    BY DEF Variant, Raised
  <2>7. Retype(v, u, List(lists)) = c
    <3> DEFINE made == List(lists)
    <3>1. v = Variant(t, made, dims)
      BY <1>3
    <3> HIDE DEF made
    <3>2. Retype(v, u, made) = Variant(u, made, dims)
      BY <3>1, Retyped
    <3>3. QED  BY <3>2 DEF made
  <2> HIDE DEF c
  <2>8. FromUaVariant(v) = c
    BY <1>4, <1>7, <2>4, <2>5, <2>7 DEF FromUaVariant, Retype, u
  <2>9. outs = [i \in 1..n |-> outs[i]]
    BY DEF outs
  <2>10. EncodeVariant(c) = LET body == All(outs, List(outs))
                            IN IF body = Raised THEN Raised ELSE Variant(u, body, dims)
    <3>1. [i \in DOMAIN s |-> EncodeItem(u, s[i])] = outs
      BY <1>2 DEF outs
    <3>2. QED  BY <1>8, <2>6, <3>1 DEF EncodeVariant, Each
  <2>11. EncodeVariant(c) = IF \E i \in 1..n : outs[i] = Raised THEN Raised ELSE w
    BY <1>2, <2>9, <2>10, AllOrRaised DEF w
  <2>12. Encoded(v) = IF \E i \in 1..n : outs[i] = Raised THEN Raised ELSE w
    BY <2>6, <2>8, <2>11 DEF Encoded
  <2>13. w # Raised
    BY DEF w, Variant, Raised
  <2>14. \A i \in 1..n : /\ outs[i] = Raised <=> s[i] # Null /\ t \in Nested \cup {"DiagnosticInfo"}
                         /\ outs[i] # Raised => /\ Carries(v, s[i], outs[i])
                                                /\ outs[i].is \notin {"list", "variant"}
    BY <1>2, <1>4, <1>11, MatrixItemEncodes DEF outs, u
  <2>15. \A x : x \in Holds(v) <=> x # Null /\ \E i \in 1..n : x = s[i]
    BY <1>2, <1>9 DEF Holds, ToSet
  <2>16. Unencodable(v) <=> Holds(v) # {} /\ t \in Nested \cup {"DiagnosticInfo"}
    BY <1>4, <1>11 DEF Unencodable
  <2>17. Encoded(v) = Raised <=> Unencodable(v)
    BY <2>12, <2>13, <2>14, <2>15, <2>16
  <2>18. ASSUME Encoded(v) # Raised PROVE Arrives(v)
    <3>1. Encoded(v) = w /\ \A i \in 1..n : outs[i] # Raised
      BY <2>12, <2>18
    <3>2. Parts(StripVariant(w)) = outs
      BY <1>2, <2>9, <2>14, <3>1, StrippedList DEF w
    <3>3. Len(outs) = n
      BY <1>2 DEF outs
    <3>4. QED  BY <1>2, <1>9, <2>14, <3>1, <3>2, <3>3 DEF Arrives, Holding, n
  <2>19. QED  BY <2>17, <2>18
<1>12. QED  BY <1>10, <1>11

\* Exactly the values that can be encoded are, and arrive item by item.
LEMMA ValueMade ==
    ASSUME NEW v \in UaVariants
    PROVE  (Encoded(v) = Raised <=> Unencodable(v)) /\ (Encoded(v) # Raised => Arrives(v))
<1>1. PICK t \in Types : v \in Scalars(t) \cup Arrays(t) \cup RowsOfRows(t)
  BY DEF UaVariants
<1>2. ASSUME NEW row \in Seq(Slots), NEW items \in [Slots -> Items(t)]
      PROVE  [i \in DOMAIN row |-> items[row[i]]] \in Seq(Items(t))
  <2>1. Len(row) \in Nat /\ DOMAIN row = 1..Len(row) /\ \A i \in 1..Len(row) : row[i] \in Slots
    BY LenProperties
  <2>2. QED  BY <2>1
<1>3. CASE v \in Scalars(t)
  BY <1>3, ScalarMade
<1>4. CASE v \in Arrays(t)
  <2>0. PICK row \in Lists, items \in [Slots -> Items(t)] :
          v \in {Variant(t, Filled(row, items), dims) : dims \in {<<>>, <<Len(row)>>}}
    BY <1>4 DEF Arrays
  <2>1. PICK dims \in {<<>>, <<Len(row)>>} : v = Variant(t, Filled(row, items), dims)
    BY <2>0
  <2> DEFINE s == [i \in DOMAIN row |-> items[row[i]]]
  <2>2. s \in Seq(Items(t))
    BY <1>2, ValueAssumption
  <2>3. ~ (Len(dims) > 1)
    <3>1. CASE dims = <<>>
      BY <3>1
    <3>2. CASE dims = <<Len(row)>>
      BY <3>2
    <3>3. QED  BY <3>1, <3>2
  <2>4. v = Variant(t, List(s), dims)
    BY <2>1 DEF Filled
  <2> HIDE DEF s
  <2>5. QED  BY <2>2, <2>3, <2>4, ArrayMade
<1>5. CASE v \in RowsOfRows(t)
  <2>1. PICK m \in Matrices, items \in [Slots -> Items(t)] :
          v = Variant(t, FilledRows(m, items), <<Len(m), Len(m[1])>>)
    BY <1>5 DEF RowsOfRows
  <2> DEFINE rows == [i \in DOMAIN m |-> [j \in DOMAIN m[i] |-> items[m[i][j]]]]
             dims == <<Len(m), Len(m[1])>>
  <2>2. m \in Seq(Seq(Slots)) /\ m # <<>>
    BY ValueAssumption
  <2>3. Len(m) \in Nat /\ Len(m) # 0 /\ DOMAIN m = 1..Len(m) /\ \A i \in 1..Len(m) : m[i] \in Seq(Slots)
    BY <2>2, LenProperties, EmptySeq
  <2>4. \A i \in 1..Len(m) : [j \in DOMAIN m[i] |-> items[m[i][j]]] \in Seq(Items(t))
    BY <1>2, <2>3
  <2>5. rows \in Seq(Seq(Items(t))) /\ Len(rows) # 0 /\ DOMAIN rows = DOMAIN m
    BY <2>3, <2>4
  <2>6. Len(dims) > 1
    OBVIOUS
  <2>7. v = Variant(t, List([i \in DOMAIN rows |-> List(rows[i])]), dims)
    BY <2>1, <2>5 DEF FilledRows, Filled
  <2> HIDE DEF rows, dims
  <2>8. QED  BY <2>5, <2>6, <2>7, MatrixMade
<1>6. QED  BY <1>1, <1>3, <1>4, <1>5

--------------------------------------------------------------------------
(* The behaviour.                                                          *)

\* The sample of a value that is encoded.
SampleOf(v) ==
  [value |-> Encoded(v.value), quality |-> Quality(v.status),
   timestamp |-> IF v.source # "" THEN v.source ELSE v.server]

\* A value that makes no sample of its own.
Failed == Refused \/ Encoded(value.value) = Raised

\* What has become of the value in each stage.
Inv ==
  /\ value.value \in UaVariants
  /\ known = None \/ (known \in UaVariants /\ Encoded(known) # Raised)
  /\ stage \in {"received", "converted", "sampled", "lost", "delivered"}
  /\ path \in {"read", "notification"}
  /\ stage = "received" => held = value.value
  /\ stage = "converted" => ~ Refused /\ held = FromUaVariant(value.value) /\ held # Raised
  /\ stage = "lost" => path = "notification" /\ Failed
  /\ stage \in {"sampled", "delivered"} =>
       \/ path = "read" /\ (sample = None \/ (Failed /\ sample = EmptyBad))
       \/ ~ Failed /\ sample = SampleOf(value)
  /\ stage = "delivered" =>
       wire = LET s == IF path = "read" /\ IsEmptyFailure THEN StaleLkv ELSE sample
              IN [s EXCEPT !.value = StripVariant(s.value)]

LEMMA InvInit == Init => Inv
<1> SUFFICES ASSUME Init PROVE Inv
  OBVIOUS
<1>1. value.value \in UaVariants /\ path \in {"read", "notification"} /\ stage = "received" /\ held = value.value
  BY DEF Init
<1>2. known = None \/ (known \in UaVariants /\ Encoded(known) # Raised)
  BY ValueAssumption DEF Init
<1>3. QED  BY <1>1, <1>2 DEF Inv

\* A conversion or an encoding that throws ends a notification and fails a read.
LEMMA FailsKeeps ==
    ASSUME Inv, Fails, Failed
    PROVE  Inv'
<1>1. /\ UNCHANGED <<path, value, known, wire>>
      /\ stage' = IF path = "read" THEN "sampled" ELSE "lost"
      /\ path = "read" => sample' = EmptyBad
      /\ Failed'
  BY DEF Fails, Failed, Refused
<1>2. CASE path = "read"
  BY <1>1, <1>2 DEF Inv
<1>3. CASE path # "read"
  BY <1>1, <1>3 DEF Inv
<1>4. QED  BY <1>2, <1>3

LEMMA InvStep == Inv /\ [Next]_vars => Inv'
<1> SUFFICES ASSUME Inv, [Next]_vars PROVE Inv'
  OBVIOUS
<1>1. CASE Convert
  <2>1. stage = "received" /\ held = value.value
    BY <1>1 DEF Convert, Inv
  <2>2. CASE Refused \/ FromUaVariant(held) = Raised
    <3>1. Fails
      BY <1>1, <2>2 DEF Convert
    <3>2. Failed
      BY <2>1, <2>2 DEF Encoded, Failed
    <3>3. QED  BY <3>1, <3>2, FailsKeeps
  <2>3. CASE ~ Refused /\ FromUaVariant(held) # Raised
    <3>1. /\ stage' = "converted" /\ held' = FromUaVariant(value.value)
          /\ UNCHANGED <<path, value, known, sample, wire>>
      BY <1>1, <2>1, <2>3 DEF Convert
    <3>2. ~ Refused'
      BY <2>3, <3>1 DEF Refused
    <3>3. QED  BY <2>1, <2>3, <3>1, <3>2 DEF Inv
  <2>4. QED  BY <2>2, <2>3
<1>2. CASE MakeSample
  <2>1. stage = "converted" /\ ~ Refused /\ held = FromUaVariant(value.value) /\ held # Raised
    BY <1>2 DEF MakeSample, Inv
  <2>2. Encoded(value.value) = EncodeVariant(held)
    BY <2>1 DEF Encoded
  <2>3. CASE EncodeVariant(held) = Raised
    <3>1. Fails
      BY <1>2, <2>3 DEF MakeSample
    <3>2. QED  BY <2>2, <2>3, <3>1, FailsKeeps DEF Failed
  <2>4. CASE EncodeVariant(held) # Raised
    <3>1. stage' = "sampled" /\ sample' = SampleOf(value) /\ UNCHANGED <<path, value, known, wire>>
      BY <1>2, <2>2, <2>4 DEF MakeSample, SampleOf
    <3>2. ~ Failed' /\ SampleOf(value)' = SampleOf(value)
      BY <2>1, <2>2, <2>4, <3>1 DEF Failed, Refused, SampleOf
    <3>3. QED  BY <3>1, <3>2 DEF Inv
  <2>5. QED  BY <2>3, <2>4
<1>3. CASE CallFails
  BY <1>3 DEF CallFails, Inv
<1>4. CASE Deliver
  <2>1. /\ stage = "sampled" /\ stage' = "delivered" /\ UNCHANGED <<path, value, known, held, sample>>
        /\ wire' = LET s == IF path = "read" /\ IsEmptyFailure THEN StaleLkv ELSE sample
                   IN [s EXCEPT !.value = StripVariant(s.value)]
    BY <1>4 DEF Deliver
  <2>2. /\ Failed' = Failed /\ SampleOf(value)' = SampleOf(value)
        /\ IsEmptyFailure' = IsEmptyFailure /\ StaleLkv' = StaleLkv
    BY <2>1 DEF Failed, Refused, SampleOf, IsEmptyFailure, StaleLkv
  <2>3. QED  BY <2>1, <2>2 DEF Inv
<1>5. CASE UNCHANGED vars
  <2>1. /\ UNCHANGED <<path, value, known, stage, held, sample, wire>>
        /\ Failed' = Failed /\ Refused' = Refused
        /\ IsEmptyFailure' = IsEmptyFailure /\ StaleLkv' = StaleLkv
    BY <1>5 DEF vars, Failed, Refused, IsEmptyFailure, StaleLkv
  <2>2. QED  BY <2>1 DEF Inv
<1>6. QED  BY <1>1, <1>2, <1>3, <1>4, <1>5 DEF Next

\* What is encoded is a Variant.
LEMMA EncodedIs ==
    ASSUME NEW v, Encoded(v) # Raised
    PROVE  Encoded(v) # Null
<1>1. \A t, b, d : Variant(t, b, d) # Null
  BY DEF Variant, Null
<1>2. \E t, b, d : Encoded(v) = Variant(t, b, d)
  BY DEF Encoded, EncodeVariant
<1>3. QED  BY <1>1, <1>2

\* A sample is delivered with its value taken out of the Variant.
LEMMA Delivers ==
    ASSUME NEW s, NEW x, NEW q, NEW t, s = [value |-> x, quality |-> q, timestamp |-> t],
           NEW w, w = [s EXCEPT !.value = StripVariant(s.value)]
    PROVE  w.value = StripVariant(x) /\ w.quality = q /\ w.timestamp = t
<1> DEFINE y == StripVariant(x)
<1>1. s.value = x /\ s.quality = q /\ s.timestamp = t /\ DOMAIN s = {"value", "quality", "timestamp"}
  OBVIOUS
<1> HIDE DEF y
<1>2. w = [s EXCEPT !.value = y]
  BY <1>1 DEF y
<1>3. w.value = y /\ w.quality = q /\ w.timestamp = t
  BY <1>1, <1>2
<1>4. QED  BY <1>3 DEF y

\* A value that can be encoded arrives item by item and with nothing of the
\* Variant around it; the others are lost when reported, and a read that fails is
\* answered as Bad, with the newest value of the history as it had arrived.
THEOREM ValuesArriveNaked == Spec => []ArrivesNaked
<1>1. Inv => ArrivesNaked
  <2> SUFFICES ASSUME Inv PROVE ArrivesNaked
    OBVIOUS
  <2>1. value.value \in UaVariants
    BY DEF Inv
  <2>2. /\ Encoded(value.value) = Raised <=> Unencodable(value.value)
        /\ Encoded(value.value) # Raised => Arrives(value.value)
    BY <2>1, ValueMade
  <2>3. stage = "lost" => path = "notification" /\ Unencodable(value.value)
    BY <2>2 DEF Inv, Failed, Refused
  <2>4. known # None => Arrives(known)
    BY ValueMade DEF Inv
  <2> DEFINE fails == path = "read" /\ (sample = None \/ value.status # "Good" \/ Unencodable(value.value))
  <2>5. ASSUME stage = "delivered", fails
        PROVE  /\ wire.quality = "Bad" /\ wire.timestamp = "now"
               /\ IF known = None THEN wire.value = Null ELSE Holding(known, wire.value)
    <3>1. Unencodable(value.value) \/ value.status # "Good" => Failed
      BY <2>2, <2>5 DEF Failed, Refused
    <3>2. sample = None \/ sample = EmptyBad
      BY <2>5, <3>1 DEF Inv
    <3>3. IsEmptyFailure
      <4>1. EmptyBad.quality = "Bad" /\ EmptyBad.value = Null /\ EmptyBad.timestamp = ""
        BY DEF EmptyBad
      <4>2. QED  BY <3>2, <4>1 DEF IsEmptyFailure
    <3>4. wire = [StaleLkv EXCEPT !.value = StripVariant(StaleLkv.value)]
      BY <2>5, <3>3 DEF Inv
    <3> DEFINE last == IF known = None THEN Null ELSE Encoded(known)
    <3>5. StaleLkv = [value |-> last, quality |-> "Bad", timestamp |-> "now"]
      BY DEF StaleLkv
    <3> HIDE DEF last
    <3>6. wire.value = StripVariant(last) /\ wire.quality = "Bad" /\ wire.timestamp = "now"
      BY <3>4, <3>5, Delivers
    <3>7. StripVariant(Null) = Null
      BY DEF StripVariant, StripOnce, Null
    <3>8. QED  BY <2>4, <3>6, <3>7 DEF last, Arrives
  <2>6. ASSUME stage = "delivered", ~ fails
        PROVE  /\ ~ Unencodable(value.value) /\ Holding(value.value, wire.value)
               /\ wire.quality = Quality(value.status)
               /\ (wire.timestamp = "") = (value.source = "" /\ value.server = "")
    <3>1. ~ Failed /\ sample = SampleOf(value)
      <4>1. path # "read" \/ ~ Failed
        BY <2>2, <2>6 DEF Failed, Refused
      <4>2. QED  BY <2>6, <4>1 DEF Inv
    <3>2. Encoded(value.value) # Raised /\ ~ Unencodable(value.value)
      BY <2>2, <3>1 DEF Failed
    <3> DEFINE t == IF value.source # "" THEN value.source ELSE value.server
    <3>3. sample = [value |-> Encoded(value.value), quality |-> Quality(value.status), timestamp |-> t]
      BY <3>1 DEF SampleOf
    <3>4. ~ (path = "read" /\ IsEmptyFailure)
      <4>1. sample.value = Encoded(value.value)
        BY <3>3
      <4>2. path = "read" => sample # None
        BY <2>6
      <4>3. QED  BY <3>2, <4>1, <4>2, EncodedIs DEF IsEmptyFailure
    <3>5. wire = [sample EXCEPT !.value = StripVariant(sample.value)]
      BY <2>6, <3>4 DEF Inv
    <3> HIDE DEF t
    <3>6. /\ wire.value = StripVariant(Encoded(value.value))
          /\ wire.quality = Quality(value.status) /\ wire.timestamp = t
      BY <3>3, <3>5, Delivers
    <3>7. (t = "") = (value.source = "" /\ value.server = "")
      BY DEF t
    <3>8. QED  BY <2>2, <3>2, <3>6, <3>7 DEF Arrives
  <2>7. QED  BY <2>3, <2>5, <2>6 DEF ArrivesNaked
<1>2. QED  BY <1>1, InvInit, InvStep, PTL DEF Spec

====
