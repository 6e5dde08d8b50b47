----------------------------- MODULE MCMetadata -----------------------------
(* A small instance of Records for TLC that looks at tables and fields: of *)
(* three tables named "abc" the second is "a-2", cut to fit, and no table  *)
(* can get the slug "abc-2"; two fields of the first have the same key and *)
(* not the same type, a third has another key.                             *)
EXTENDS Records, TLC

CONSTANTS t1, t2, t3, long, title, total, note, x1

MCWorkspaceOf == [t \in Tables |-> "w1"]
MCSlugOf ==
  [t \in Tables |-> CASE t = t1 -> <<"a", "b", "c">>
                      [] t = long -> <<"a", "b", "c", "-", "2">>
                      [] OTHER -> <<"a", "-", "2">>]
MCTableOf == [i \in Fields \cup Records |-> t1]

Key   == <<"k">>
Other == <<"other">>

MCKeys   == {Key, Other}
MCKeyOf  == [f \in Fields |-> IF f = note THEN Other ELSE Key]
MCTypeOf == [f \in Fields |-> IF f = total THEN "number" ELSE "text"]
MCLabels == {<<"a", "b", "c">>, <<"a", "-", "2">>, Key}

(* The numbers that are tried have one digit.                              *)
MCNumeral == [n \in 1 .. MaxIndex |-> <<ToString(n)>>]

MCConfigs == [type \in SupportedFieldTypes |-> {NoConfig}]

Doc(k, v) == [NoData EXCEPT ![k] = v]

(* A word, a cleared field, nothing at all.                                *)
MCPayloads == {Doc(Key, Text("word")), Doc(Key, Null), NoData}

(* t2 and t3 differ in nothing.                                            *)
Symmetry == Permutations(Slots) \cup Permutations({t2, t3})
=============================================================================
