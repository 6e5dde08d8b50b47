----------------------------- MODULE MCRecords -----------------------------
(* A small instance of Records for TLC that looks at relations: people and *)
(* tasks in one workspace, a table in another; a task has a name and a     *)
(* relation to a person.                                                   *)
EXTENDS Records, TLC

CONSTANTS people, tasks, away, name, assignee, ada, task, Plain

MCWorkspaceOf == [t \in Tables |-> IF t = away THEN "w2" ELSE "w1"]
MCSlugOf == [t \in Tables |-> IF t = tasks THEN <<"t">> ELSE <<"p">>]
MCTableOf ==
  [i \in Fields \cup Records |-> IF i = ada THEN people ELSE tasks]

Name     == <<"n">>
Assignee == <<"a">>
MCKeys   == {Name, Assignee}

MCKeyOf  == [f \in Fields |-> IF f = name THEN Name ELSE Assignee]
MCTypeOf == [f \in Fields |-> IF f = name THEN "text" ELSE "relation"]

MCLabels == {}

(* The numbers that are tried have one digit.                              *)
MCNumeral == [n \in 1 .. MaxIndex |-> <<ToString(n)>>]

MCConfigs ==
  [type \in SupportedFieldTypes |->
     IF type = "relation"
     THEN [options : {{}}, target : Tables, plain : Plain] ELSE {NoConfig}]

Doc(k, v) == [NoData EXCEPT ![k] = v]

(* Nothing; a name; a person's uuid in capitals.                           *)
MCPayloads ==
  {NoData, Doc(Name, Text("word")),
   Doc(Assignee, [Text(ada) EXCEPT !.canonical = FALSE])}

Symmetry == Permutations(Slots)
=============================================================================
