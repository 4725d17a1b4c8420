---- MODULE MCValues ----
(***************************************************************************)
(* Values of one type of every kind, alone, in arrays and in matrices, and *)
(* structures whose fields are what their types say, lists or objects.     *)
(***************************************************************************)
EXTENDS Values

MCFields ==
  {<<>>, <<<<"Int32", Native("number", "x")>>, <<"Custom", Native("moment", "y")>>>>,
   <<<<"Double", List(<<Native("number", "x")>>)>>>>, <<<<"NodeId", Ua("x")>>>>,
   <<<<"String", List(<<Native("text", "x")>>)>>, <<"Custom", Ua("y")>>>>, <<<<"DateTime", Null>>>>,
   <<<<"ByteString", List(<<>>)>>>>}

MCLists == {<<>>, <<1, 2>>}
MCMatrices == {<<<<1, 1>>, <<2, 1>>>>, <<<<2>>, <<1>>, <<2>>>>}

(* An array of ids, a matrix of numbers and a pair of structures.          *)
Filling(t) == CHOOSE items \in [Slots -> Some(t)] : items[1] # items[2]
MCReported ==
  {Variant("NodeId", Filled(<<1, 2>>, Filling("NodeId")), <<2>>),
   Variant("Int64", FilledRows(<<<<1, 1>>, <<2, 1>>>>, Filling("Int64")), <<2, 2>>),
   Variant("ExtensionObject", Filled(<<1, 2>>, Filling("ExtensionObject")), <<>>)}

====
