----------------------------- MODULE MCDatabase -----------------------------
(* Instances of Database for TLC: configs, up to three processes, short    *)
(* values.                                                                 *)
EXTENDS Database, TLC

Text(s) == [type |-> "string", value |-> s]
Number(n) == [type |-> "uint64", value |-> n]
Signed(n) == [type |-> "int64", value |-> n]
Object(o) == [type |-> "object", value |-> o]

OnPath == "path" :> Text("p")
Sized == OnPath @@ "size" :> Number(2)
IfMissing == "create_if_missing" :> Number(1)
OrError == "create_or_error_if_exists" :> Signed(1)
Reversed == "comparator" :> Object("reversed")

\* Configs that are refused before anything is done.
Refused == {
  NullConfig,
  Sized @@ IfMissing @@ OrError,
  Sized @@ "create_if_missing" :> Signed(-1),
  OnPath @@ "oid" :> Object("o") }

FewConfigs == Refused \cup {
  OnPath,
  Sized @@ IfMissing,
  Sized @@ OrError,
  "oid" :> Object("o") }

MCConfigs == FewConfigs \cup {
  OnPath @@ Reversed,
  Sized @@ IfMissing @@ Reversed,
  Sized @@ IfMissing @@ "comparator" :> Object(""),
  Sized @@ IfMissing @@ "comparator" :> Text("reversed"),
  OnPath @@ IfMissing,
  OnPath @@ "force_create" :> Number(1) @@ "size" :> Number(1) }

MCValues == {<<0>>, <<0, 1>>}

OneValue == {<<0>>}

ProcessSymmetry == Permutations(Process)
=============================================================================
