------------------------------- MODULE MCStore -------------------------------
(***************************************************************************)
(* The instance of module FeatureStore that TLC checks: one feature, and   *)
(* three requests: one that removes, one that posts properties, removes a  *)
(* member value or reads, one that creates, replaces or appends.  A post   *)
(* of properties may name one that exists, name one twice, or add several, *)
(* and what it adds may have another type than what was there.             *)
(***************************************************************************)
EXTENDS FeatureStore

CONSTANTS v, n1, n2, r1, r2, r3

TheFeature == {v}
TheNames == {n1, n2}
Geom == <<v, Trip>>
Prop == <<v, n1>>

Removing ==
    [kind : {"deleteCollection"}]
      \cup [kind : {"deleteItem"}, key : {Geom}]
      \cup [kind : {"deleteTProperty"}, key : {Prop}]
      \cup [kind : {"deleteValue"}, key : {Geom, Prop}, n : {1, 2}]

Posting(type) ==
    [kind : {"postTProperties"}, key : {Geom}, names : {<<n1, n2>>, <<n2, n2>>}, type : {type}, t : {1}]

Reading ==
    [kind : {"getTProperty"}, key : {Prop}]
      \cup [kind : {"tgSequence"}, key : {Geom}]
      \cup [kind : {"tgSequenceQuery"}, key : {Geom}, n : {2}]

Creating ==
    [kind : {"postCollection", "putCollection"}]
      \cup [kind : {"postItem"}, key : {Geom}, t : {1}]
      \cup [kind : {"putItem"}, key : {Geom}, t : {2}]
      \cup [kind : {"append"}, key : {Geom, Prop}, t : {1}]

Requests ==
    (r1 :> Removing)
      @@ (r2 :> Posting("integer") \cup Reading \cup [kind : {"postCollection"}]
                \cup {o \in Removing : o.kind = "deleteValue" /\ o.n = 2})
      @@ (r3 :> Creating \cup Posting("real"))

\* One request posts properties, the two others read the first of them.
ColumnRequests ==
    (r1 :> Posting("bigint")) @@ [r \in {r2, r3} |-> [kind : {"getTProperty"}, key : {Prop}]]
=============================================================================
