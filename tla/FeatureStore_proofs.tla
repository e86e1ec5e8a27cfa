------------------------- MODULE FeatureStore_proofs -------------------------
(***************************************************************************)
(* Proofs about the handlers of the feature store, for any number of       *)
(* requests, features, names and times.  A request that has read a row and *)
(* has yet to act on it either finds the row as it was, or knows in since  *)
(* that it was removed or replaced; the table of a collection, the rows of *)
(* its features and a purge that is due are tied to one another.           *)
(***************************************************************************)
EXTENDS FeatureStore, TLAPS, FiniteSetTheorems, SequenceTheorems, WellFoundedInduction

Steps == {"idle", "first", "answered", "purge"} \cup Midway
Codes == Code \cup {None}

TypeInv ==
    /\ coll \in BOOLEAN
    /\ row \in [Key -> Row \cup {None}]
    /\ locked \in Request \cup {None}
    /\ op \in [Request -> Op \cup {None}]
    /\ pc \in [Request -> Steps]
    /\ done \in [Request -> Seq(Name)]
    /\ column \in [Request -> ScalarTemporalTypes \cup {None}]
    /\ answer \in [Request -> Codes]
    /\ since \in [Request -> SUBSET {"remove", "append", "failure"}]
    /\ unpurged \in BOOLEAN

\* Where a request is, what it is for.
Control(r) ==
    /\ pc[r] # "idle" => op[r] \in Op
    /\ pc[r] # "answered" => answer[r] = None
    /\ pc[r] \in {"ensure", "insert"} => Kind(r) = "postTProperties"
    /\ pc[r] = "update" => Kind(r) \in {"append", "deleteValue"}
    /\ pc[r] = "update" /\ Kind(r) = "append" => KeyOf(r) \in Property
    /\ pc[r] \in {"count", "update"} /\ Kind(r) \in {"append", "deleteValue"} =>
          ColumnOf(r) \in Column
    /\ pc[r] = "purge" => Kind(r) \in {"deleteCollection", "deleteItem"}
    /\ locked = r <=> pc[r] = "insert"

\* What a transaction of postTProperties has inserted: the names of its request so far, none
\* of which anyone has stored.
Drafted(r) ==
    /\ pc[r] \notin {"insert", "answered"} => done[r] = <<>>
    /\ pc[r] = "insert" =>
          /\ Len(done[r]) <= Len(op[r].names)
          /\ \A i \in 1..Len(done[r]) :
                done[r][i] = op[r].names[i] /\ ~Stored(<<KeyOf(r)[1], done[r][i]>>)

\* What a request has read still holds, or it was overtaken.
Current(r) ==
    /\ pc[r] \in {"ensure", "insert"} => coll /\ (Stored(KeyOf(r)) \/ "remove" \in since[r])
    /\ pc[r] = "update" /\ Kind(r) = "append" /\ "remove" \notin since[r] =>
          Stored(KeyOf(r)) /\ OgcToken(column[r]) = row[KeyOf(r)].type
    /\ pc[r] = "update" /\ Kind(r) = "deleteValue" /\ "remove" \notin since[r] =>
          Stored(KeyOf(r)) /\ op[r].n <= Cardinality(Members(r)) /\ 2 <= Cardinality(Members(r))

RequestInv(r) == Control(r) /\ Drafted(r) /\ Current(r)

\* A feature is in the table of its collection; a property's type is a token; who posted it
\* is done.
RowInv ==
    /\ \A k \in Geometry : Stored(k) => coll
    /\ \A k \in Property : Stored(k) => row[k].type \in OgcTokens
    /\ \A k \in Property : Stored(k) /\ row[k].by \in Request => pc[row[k].by] = "answered"

StoreInv ==
    /\ TypeInv /\ RowInv
    /\ \A r \in Request : RequestInv(r)
    /\ OrphansComeFromRaces /\ DroppedLeavesNothing /\ StraysComeFromRaces

-----------------------------------------------------------------------------
(* The types of properties                                                 *)

\* The types a property may have, and the tokens of their rows.
LEMMA ScalarTypes ==
  /\ ScalarTemporalTypes = {"tbool", "tint", "tbigint", "tfloat", "ttext"}
  /\ OgcToken("tbool") = "tboolean" /\ OgcToken("tint") = "tinteger" /\ OgcToken("tbigint") = "tinteger"
  /\ OgcToken("tfloat") = "treal" /\ OgcToken("ttext") = "ttext"
<1>1. DOMAIN TemporalTypes =
        {"tbool", "tint", "tbigint", "tfloat", "ttext", "tgeompoint", "tdouble2", "tjsonb"}
  BY DEF TemporalTypes
<1>2. /\ TemporalTypes["tbool"].base = "bool" /\ TemporalTypes["tint"].base = "int4"
      /\ TemporalTypes["tbigint"].base = "int8" /\ TemporalTypes["tfloat"].base = "float8"
      /\ TemporalTypes["ttext"].base = "text" /\ TemporalTypes["tjsonb"].base = "jsonb"
  BY DEF TemporalTypes, Type
<1>3. \A n \in {"tbool", "tint", "tbigint", "tfloat", "ttext"} :
        ~TemporalTypes[n].spatial /\ TemporalTypes[n].mfjson
  BY DEF TemporalTypes, Type
<1>4. TemporalTypes["tgeompoint"].spatial /\ ~TemporalTypes["tdouble2"].mfjson
  BY DEF TemporalTypes, Type
<1>5. /\ DOMAIN OgcScalar = {"bool", "int4", "int8", "float8", "text"}
      /\ OgcScalar["bool"] = "tboolean" /\ OgcScalar["int4"] = "tinteger" /\ OgcScalar["int8"] = "tinteger"
      /\ OgcScalar["float8"] = "treal" /\ OgcScalar["text"] = "ttext"
  BY DEF OgcScalar
<1>6. \A n \in {"tbool", "tint", "tbigint", "tfloat", "ttext"} : n \in ScalarTemporalTypes
  BY <1>1, <1>2, <1>3, <1>5 DEF ScalarTemporalTypes
<1>7. \A n \in {"tgeompoint", "tdouble2", "tjsonb"} : n \notin ScalarTemporalTypes
  BY <1>2, <1>4, <1>5 DEF ScalarTemporalTypes
<1>8. ScalarTemporalTypes \subseteq DOMAIN TemporalTypes
  BY DEF ScalarTemporalTypes
<1>9. ScalarTemporalTypes = {"tbool", "tint", "tbigint", "tfloat", "ttext"}
  BY <1>1, <1>6, <1>7, <1>8
<1>. QED  BY <1>2, <1>5, <1>9 DEF OgcToken

\* Every token names a type a property may have, and the token a row keeps names one that
\* carries it.
LEMMA TokensNameTypes ==
  /\ \A token \in DOMAIN TPropTokens : TPropType(token) \in ScalarTemporalTypes
  /\ \A token \in OgcTokens : token \in DOMAIN TPropTokens /\ OgcToken(TPropType(token)) = token
<1>. DEFINE D == DOMAIN TPropAlias
<1>1. OgcTokens = {"tboolean", "tinteger", "treal", "ttext"}
  BY ScalarTypes DEF OgcTokens
<1>2. DOMAIN Aliases = {"tfloat", "tint", "tbigint", "ttext", "tbool"}
  BY DEF Aliases
<1>3. /\ Aliases["tfloat"] = {"", "measure", "real", "float", "double", "number"}
      /\ Aliases["tint"] = {"integer", "int"}
      /\ Aliases["tbigint"] = {"bigint", "long"}
      /\ Aliases["ttext"] = {"tstring", "text", "string"}
      /\ Aliases["tbool"] = {"boolean", "bool"}
  BY DEF Aliases
<1>4. D = UNION {Aliases[n] : n \in DOMAIN Aliases}
      /\ \A a \in D : TPropAlias[a] \in DOMAIN Aliases
  BY DEF TPropAlias
<1>5. D \cap OgcTokens = {}
  <2>1. \A n \in DOMAIN Aliases : \A token \in OgcTokens : token \notin Aliases[n]
    BY <1>1, <1>2, <1>3
  <2>. QED  BY <1>4, <2>1
<1>6. \A token \in OgcTokens : Owner(token) \in Carriers(token)
  <2>1. /\ Carriers("tboolean") = {"tbool"} /\ Carriers("tinteger") = {"tint", "tbigint"}
        /\ Carriers("treal") = {"tfloat"} /\ Carriers("ttext") = {"ttext"}
    BY ScalarTypes DEF Carriers
  <2>2. \A x : Cardinality({x}) = 1
    BY FS_Singleton
  <2>3. OgcCanonical["tinteger"] = "tint"
    BY DEF OgcCanonical
  <2>. QED  BY <1>1, <2>1, <2>2, <2>3 DEF Owner
<1>7. /\ DOMAIN TPropTokens = D \cup OgcTokens \cup ScalarTemporalTypes
      /\ \A token \in D : TPropTokens[token] = TPropAlias[token]
      /\ \A token \in OgcTokens \ D : TPropTokens[token] = Owner(token)
      /\ \A token \in ScalarTemporalTypes \ (D \cup OgcTokens) : TPropTokens[token] = token
  BY DEF TPropTokens
<1>8. \A token \in OgcTokens : Owner(token) \in ScalarTemporalTypes /\ OgcToken(Owner(token)) = token
  BY <1>6 DEF Carriers
<1>9. DOMAIN Aliases = ScalarTemporalTypes
  BY <1>2, ScalarTypes
<1>. QED  BY <1>4, <1>5, <1>7, <1>8, <1>9 DEF TPropType
-----------------------------------------------------------------------------
(* The n-th member                                                         *)

UpTo(times, t) == {u \in times : u <= t}

\* A set of times that is not empty has one to which a number belongs that is no larger than
\* that of any other.
LEMMA LeastMeasure ==
  ASSUME NEW S, S # {}, NEW m \in [S -> Nat]
  PROVE  \E x \in S : \A y \in S : m[x] <= m[y]
<1>. DEFINE T == {m[x] : x \in S}
<1>1. T \subseteq Nat /\ T # {}
  OBVIOUS
<1>. HIDE DEF T
<1>2. PICK a \in T : \A b \in T : ~(<<b, a>> \in OpToRel(<, Nat))
  BY <1>1, WFMin, NatLessThanWellFounded
<1>3. \A b \in T : ~(b < a)
  BY <1>1, <1>2 DEF OpToRel
<1>4. PICK x \in S : a = m[x]
  BY DEF T
<1>5. \A y \in S : m[y] \in T /\ m[y] \in Nat
  BY DEF T
<1>. QED  BY <1>3, <1>4, <1>5

LEMMA UpToGrows ==
  ASSUME NEW times \in SUBSET Nat, IsFiniteSet(times), NEW t \in times, NEW u \in times, t < u
  PROVE  Cardinality(UpTo(times, t)) < Cardinality(UpTo(times, u))
<1>0. t \in Nat /\ u \in Nat /\ \A x \in times : x \in Nat
  OBVIOUS
<1>1. UpTo(times, t) \subseteq UpTo(times, u) /\ UpTo(times, u) \subseteq times
  <2>1. \A x \in times : x <= t => x <= u
    BY <1>0
  <2>. QED  BY <2>1 DEF UpTo
<1>2. u \in UpTo(times, u) /\ u \notin UpTo(times, t)
  BY <1>0 DEF UpTo
<1>3. IsFiniteSet(UpTo(times, u)) /\ IsFiniteSet(UpTo(times, t))
  BY <1>1, FS_Subset
<1>4. Cardinality(UpTo(times, u)) \in Nat /\ Cardinality(UpTo(times, t)) \in Nat
  BY <1>3, FS_CardinalityType
<1>5. /\ Cardinality(UpTo(times, t)) <= Cardinality(UpTo(times, u))
      /\ Cardinality(UpTo(times, t)) # Cardinality(UpTo(times, u))
  BY <1>1, <1>2, <1>3, FS_Subset
<1>. QED  BY <1>4, <1>5

\* Every index up to the number of members addresses one of them.
LEMMA OneMember ==
  ASSUME NEW times \in SUBSET Time, NEW n \in Nat \ {0}, n <= Cardinality(times)
  PROVE  SequenceN(times, n) \in times /\ Cardinality(UpTo(times, SequenceN(times, n))) = n
<1>. DEFINE C(t) == Cardinality(UpTo(times, t))
<1>1. times \in SUBSET Nat /\ IsFiniteSet(times)
  BY StoreAssumption, FS_Subset DEF StoreAssumption
<1>2. \A t \in times : IsFiniteSet(UpTo(times, t)) /\ UpTo(times, t) \subseteq times
  BY <1>1, FS_Subset DEF UpTo
<1>3. Cardinality(times) \in Nat /\ \A t \in times : C(t) \in Nat /\ C(t) <= Cardinality(times)
  BY <1>1, <1>2, FS_CardinalityType, FS_Subset
<1>4. \A t, u \in times : t < u => C(t) < C(u)
  BY <1>1, UpToGrows
<1>5. times # {}
  BY <1>3, FS_EmptySet
<1>6. PICK last \in times : \A t \in times : t <= last
  <2>. DEFINE m == [t \in times |-> Cardinality(times) - C(t)]
  <2>1. m \in [times -> Nat]
    BY <1>3
  <2>. HIDE DEF m
  <2>2. PICK x \in times : \A y \in times : m[x] <= m[y]
    BY <1>5, <2>1, LeastMeasure
  <2>3. \A y \in times : C(y) <= C(x)
    BY <1>3, <2>2 DEF m
  <2>4. \A y \in times : ~(x < y)
    BY <1>3, <1>4, <2>3
  <2>. QED  BY <1>1, <2>4
<1>7. UpTo(times, last) = times
  BY <1>6 DEF UpTo
<1>. DEFINE A == {t \in times : n <= C(t)}
<1>8. A # {} /\ A \subseteq Nat
  BY <1>1, <1>6, <1>7
<1>9. PICK t \in A : \A u \in A : t <= u
  <2>. DEFINE m == [u \in A |-> u]
  <2>1. m \in [A -> Nat]
    BY <1>8
  <2>. HIDE DEF m
  <2>2. PICK x \in A : \A y \in A : m[x] <= m[y]
    BY <1>8, <2>1, LeastMeasure
  <2>. QED  BY <2>2 DEF m
<1>10. C(t) = n
  <2>. DEFINE B == UpTo(times, t) \ {t}
  <2>1. t \in UpTo(times, t) /\ t \in times /\ n <= C(t)
    BY <1>1, <1>9 DEF UpTo
  <2>2. IsFiniteSet(B) /\ Cardinality(B) = C(t) - 1
    BY <1>2, <2>1, FS_RemoveElement
  <2>3. SUFFICES ASSUME n < C(t) PROVE FALSE
    BY <1>3, <2>1
  <2>4. B # {}
    BY <1>3, <2>1, <2>2, <2>3, FS_EmptySet
  <2>5. /\ B \subseteq times /\ t \in Nat
        /\ \A u \in B : u \in Nat /\ u < t
        /\ \A u \in times : u <= t /\ u # t => u \in B
    BY <1>1, <2>1 DEF UpTo
  <2>. HIDE DEF B
  <2>6. PICK p \in B : \A u \in B : u <= p
    <3>. DEFINE m == [u \in B |-> t - u]
    <3>1. m \in [B -> Nat]
      BY <2>5
    <3>. HIDE DEF m
    <3>2. PICK x \in B : \A y \in B : m[x] <= m[y]
      BY <2>4, <3>1, LeastMeasure
    <3>3. \A y \in B : t - x <= t - y
      BY <3>2 DEF m
    <3>. QED  BY <2>5, <3>3
  <2>7. UpTo(times, p) = B
    <3>1. \A u \in times : u \in Nat
      BY <1>1
    <3>2. \A u \in times : u <= p => u \in B
      BY <2>5, <2>6, <3>1
    <3>. QED  BY <2>5, <2>6, <3>2 DEF UpTo
  <2>8. p \in A /\ p < t
    BY <1>3, <2>1, <2>2, <2>3, <2>5, <2>7
  <2>. QED  BY <1>1, <1>9, <2>1, <2>8
<1>. HIDE DEF C
<1>11. SequenceN(times, n) = CHOOSE u \in times : C(u) = n
  BY DEF SequenceN, UpTo, C
<1>12. SequenceN(times, n) \in times /\ C(SequenceN(times, n)) = n
  <2>1. \E u \in times : C(u) = n
    BY <1>9, <1>10
  <2>. QED  BY <1>11, <2>1
<1>. QED  BY <1>12 DEF C

\* So a value in order has every member, each once, the earlier first.
LEMMA InOrderIsWhole ==
  ASSUME NEW times \in SUBSET Time
  PROVE  /\ InOrder(times) \in Seq(Time) /\ Len(InOrder(times)) = Cardinality(times)
         /\ \A n \in 1..Cardinality(times) : InOrder(times)[n] = SequenceN(times, n)
         /\ Range(InOrder(times)) = times
         /\ \A i, j \in 1..Cardinality(times) : i < j => InOrder(times)[i] < InOrder(times)[j]
<1>. DEFINE s == InOrder(times)  m == Cardinality(times)
            C(t) == Cardinality(UpTo(times, t))
<1>1. times \in SUBSET Nat /\ IsFiniteSet(times) /\ m \in Nat
  BY StoreAssumption, FS_Subset, FS_CardinalityType DEF StoreAssumption
<1>2. s = [n \in 1..m |-> SequenceN(times, n)]
  BY DEF InOrder
<1>3. \A n \in 1..m : SequenceN(times, n) \in times /\ C(SequenceN(times, n)) = n
  <2>1. \A n \in 1..m : n \in Nat \ {0} /\ n <= m
    BY <1>1
  <2>. QED  BY <2>1, OneMember
<1>4. \A t, u \in times : t < u => C(t) < C(u)
  BY <1>1, UpToGrows
<1>5. \A t \in times : C(t) \in 1..m
  <2>1. SUFFICES ASSUME NEW t \in times PROVE C(t) \in 1..m
    OBVIOUS
  <2>2. UpTo(times, t) \subseteq times /\ t \in UpTo(times, t)
    BY <1>1 DEF UpTo
  <2>3. IsFiniteSet(UpTo(times, t)) /\ C(t) <= m /\ C(t) \in Nat
    BY <1>1, <2>2, FS_Subset, FS_CardinalityType
  <2>4. C(t) # 0
    BY <2>2, <2>3, FS_EmptySet
  <2>. QED  BY <1>1, <2>3, <2>4
<1>. HIDE DEF C, s, m
<1>6. DOMAIN s = 1..m /\ \A n \in 1..m : s[n] = SequenceN(times, n) /\ s[n] \in times /\ C(s[n]) = n
  BY <1>2, <1>3
<1>7. s \in Seq(Time) /\ Len(s) = m
  <2>1. s \in [1..m -> Time]
    BY <1>2, <1>3
  <2>. QED  BY <1>1, <2>1
<1>8. \A t \in times : t = s[C(t)]
  <2>1. SUFFICES ASSUME NEW t \in times PROVE t = s[C(t)]
    OBVIOUS
  <2>. DEFINE u == s[C(t)]
  <2>2. u \in times /\ C(u) = C(t) /\ C(t) \in Nat
    BY <1>1, <1>5, <1>6
  <2>. HIDE DEF u
  <2>3. ~(t < u) /\ ~(u < t)
    BY <1>4, <2>2
  <2>4. t \in Nat /\ u \in Nat
    BY <1>1, <2>2
  <2>. QED  BY <2>3, <2>4 DEF u
<1>9. Range(s) = times
  BY <1>5, <1>6, <1>8 DEF Range
<1>10. ASSUME NEW i \in 1..m, NEW j \in 1..m, i < j PROVE s[i] < s[j]
  <2>. DEFINE t == s[i]  u == s[j]
  <2>1. t \in times /\ u \in times /\ C(t) = i /\ C(u) = j /\ i \in Nat /\ j \in Nat
    BY <1>1, <1>6, <1>10
  <2>. HIDE DEF t, u
  <2>2. t # u /\ ~(u < t)
    BY <1>4, <1>10, <2>1
  <2>3. t \in Nat /\ u \in Nat
    BY <1>1, <2>1
  <2>. QED  BY <2>2, <2>3 DEF t, u
<1>. QED  BY <1>6, <1>7, <1>9, <1>10 DEF s, m

-----------------------------------------------------------------------------
(* What a request asks for                                                 *)

LEMMA OpTypes ==
  ASSUME NEW o \in Op
  PROVE  /\ o.kind \in {"postItem", "putItem", "deleteItem", "tgSequence", "tgSequenceQuery"} =>
              o.key \in Geometry
         /\ o.kind \in {"postItem", "putItem", "append"} => o.t \in Time
         /\ o.kind = "postTProperties" => /\ o.key \in Geometry /\ o.names \in Seq(Name)
                                          /\ o.type \in DOMAIN TPropTokens /\ o.t \in Time
         /\ o.kind \in {"append", "deleteValue"} => o.key \in Key
         /\ o.kind \in {"deleteTProperty", "getTProperty"} => o.key \in Property
         /\ o.kind \in {"deleteValue", "tgSequenceQuery"} => o.n \in Nat \ {0}
BY DEF Op, Key

\* Geometries and properties are different rows.
LEMMA Keys ==
  /\ Key = Geometry \cup Property /\ Geometry \cap Property = {}
  /\ \A k \in Key : k[1] \in Feature
  /\ \A k \in Geometry : k = <<k[1], Trip>>
  /\ \A f \in Feature : <<f, Trip>> \in Geometry
  /\ \A f \in Feature, n \in Name : <<f, n>> \in Property
  /\ \A k \in Property : k[2] \in Name /\ k = <<k[1], k[2]>>
BY StoreAssumption DEF Key, Geometry, Property, StoreAssumption

-----------------------------------------------------------------------------
(* What the statements of a request do to others                           *)

\* A step of request r: the others keep what is theirs, and history grows.
Acts(r) ==
    /\ pc[r] # "answered"
    /\ \A q \in Request \ {r} :
          /\ op'[q] = op[q] /\ pc'[q] = pc[q] /\ answer'[q] = answer[q]
          /\ done'[q] = done[q] /\ column'[q] = column[q]
          /\ locked' = q <=> locked = q
    /\ \A q \in Request : since[q] \subseteq since'[q]
    /\ unpurged => unpurged'

\* What may happen to row k.
Same(k) == row'[k] = row[k]
Created(r, k) == ~Stored(k) /\ (k \in Property => locked = r)
Overtaken(k) ==
    /\ Stored(k)' => Stored(k)
    /\ \A q \in Request : pc[q] \in Midway /\ KeyOf(q) = k => "remove" \in since'[q]
Extended(k) ==
    /\ Stored(k) /\ Stored(k)'
    /\ row'[k].type = row[k].type /\ row[k].vals \subseteq row'[k].vals
    /\ \A q \in Request : pc[q] \in Midway /\ Kind(q) \in Reads /\ KeyOf(q) = k => "append" \in since'[q]

Reshapes(r) ==
    /\ \A k \in Key : Same(k) \/ Created(r, k) \/ Overtaken(k) \/ Extended(k)
    /\ coll => coll' \/ \A q \in Request : ~ReadsTable(q)

\* What a request has read still holds after a step of another, or it is overtaken.
LEMMA OthersKeep ==
  ASSUME StoreInv, TypeInv', NEW r \in Request, Acts(r), Reshapes(r), NEW q \in Request, q # r
  PROVE  RequestInv(q)'
<1>1. /\ op'[q] = op[q] /\ pc'[q] = pc[q] /\ answer'[q] = answer[q]
      /\ done'[q] = done[q] /\ column'[q] = column[q]
      /\ locked' = q <=> locked = q
      /\ since[q] \subseteq since'[q]
  BY DEF Acts
<1>2. RequestInv(q)
  BY DEF StoreInv
<1>3. Kind(q)' = Kind(q) /\ KeyOf(q)' = KeyOf(q) /\ ColumnOf(q)' = ColumnOf(q)
  BY <1>1 DEF Kind, KeyOf, ColumnOf
<1>4. Control(q)'
  BY <1>1, <1>2, <1>3 DEF RequestInv, Control
<1>5. pc[q] # "idle" => op[q] \in Op
  BY <1>2 DEF RequestInv, Control
<1>6. \A k \in Key : Same(k) \/ Created(r, k) \/ Overtaken(k) \/ Extended(k)
  BY DEF Reshapes
<1>7. Drafted(q)'
  <2>1. CASE pc[q] # "insert"
    BY <1>1, <1>2, <2>1 DEF RequestInv, Drafted
  <2>2. CASE pc[q] = "insert"
    <3>1. locked = q /\ Kind(q) = "postTProperties" /\ op[q] \in Op
      BY <1>2, <1>5, <2>2 DEF RequestInv, Control
    <3>2. KeyOf(q)[1] \in Feature
      BY <3>1, OpTypes, Keys DEF Kind, KeyOf
    <3>3. \A i \in 1..Len(done[q]) : done[q][i] \in Name
      BY ElementOfSeq DEF StoreInv, TypeInv
    <3>4. \A k \in Property : ~Stored(k) => ~Stored(k)'
      <4>1. SUFFICES ASSUME NEW k \in Property, ~Stored(k) PROVE ~Stored(k)'
        OBVIOUS
      <4>2. k \in Key /\ ~Created(r, k)
        BY <3>1, Keys DEF Created
      <4>. QED  BY <1>6, <4>1, <4>2 DEF Same, Overtaken, Extended, Stored
    <3>5. \A i \in 1..Len(done[q]) : <<KeyOf(q)[1], done[q][i]>> \in Property
      BY <3>2, <3>3, Keys
    <3>. QED  BY <1>1, <1>2, <1>3, <2>2, <3>4, <3>5 DEF RequestInv, Drafted
  <2>. QED  BY <2>1, <2>2
<1>8. Current(q)'
  <2>1. CASE pc[q] \in {"ensure", "insert"}
    <3>1. /\ coll' /\ KeyOf(q) \in Key
          /\ Stored(KeyOf(q)) \/ "remove" \in since[q]
      <4>1. coll /\ (Stored(KeyOf(q)) \/ "remove" \in since[q])
        BY <1>2, <2>1 DEF RequestInv, Current
      <4>2. ReadsTable(q)
        BY <2>1 DEF ReadsTable
      <4>3. op[q] \in Op /\ Kind(q) = "postTProperties"
        BY <1>2, <1>5, <2>1 DEF RequestInv, Control
      <4>4. KeyOf(q) \in Key
        BY <4>3, OpTypes, Keys DEF Kind, KeyOf
      <4>. QED  BY <4>1, <4>2, <4>4 DEF Reshapes
    <3>2. pc[q] \in Midway
      BY <2>1 DEF Midway
    <3>3. Stored(KeyOf(q))' \/ "remove" \in since'[q]
      BY <1>1, <1>3, <1>6, <3>1, <3>2 DEF Same, Created, Overtaken, Extended, Stored
    <3>. QED  BY <1>1, <1>3, <2>1, <3>1, <3>3 DEF Current, Stored
  <2>2. CASE pc[q] = "update"
    <3>. SUFFICES ASSUME "remove" \notin since'[q]
                  PROVE  /\ Kind(q) = "append" =>
                              Stored(KeyOf(q))' /\ OgcToken(column[q]) = row'[KeyOf(q)].type
                         /\ Kind(q) = "deleteValue" =>
                              /\ Stored(KeyOf(q))' /\ op[q].n <= Cardinality(Members(q)')
                              /\ 2 <= Cardinality(Members(q)')
      BY <1>1, <1>3, <2>2 DEF Current, Stored
    <3>1. "remove" \notin since[q] /\ pc[q] \in Midway
      BY <1>1, <2>2 DEF Midway
    <3>2. op[q] \in Op /\ Kind(q) \in {"append", "deleteValue"}
      BY <1>2, <1>5, <2>2 DEF RequestInv, Control
    <3>3. KeyOf(q) \in Key /\ (Kind(q) = "deleteValue" => op[q].n \in Nat)
      BY <3>2, OpTypes DEF Kind, KeyOf
    <3>4. Stored(KeyOf(q))
      BY <1>2, <2>2, <3>1, <3>2 DEF RequestInv, Current
    <3>5. Same(KeyOf(q)) \/ Extended(KeyOf(q))
      BY <1>6, <3>1, <3>3, <3>4 DEF Created, Overtaken
    <3>6. /\ Stored(KeyOf(q))' /\ row'[KeyOf(q)].type = row[KeyOf(q)].type
          /\ row[KeyOf(q)].vals \subseteq row'[KeyOf(q)].vals
      BY <1>3, <3>4, <3>5 DEF Same, Extended, Stored
    <3>7. Members(q) \subseteq Members(q)' /\ Members(q)' \subseteq Time
      BY <1>3, <3>6 DEF Members, In
    <3>8. /\ Cardinality(Members(q)) <= Cardinality(Members(q)')
          /\ Cardinality(Members(q)) \in Nat /\ Cardinality(Members(q)') \in Nat
      BY <3>7, FS_Subset, FS_CardinalityType, StoreAssumption DEF StoreAssumption
    <3>. QED  BY <1>2, <2>2, <3>1, <3>3, <3>6, <3>8 DEF RequestInv, Current
  <2>3. CASE pc[q] \notin {"ensure", "insert", "update"}
    BY <1>1, <2>3 DEF Current
  <2>. QED  BY <2>1, <2>2, <2>3
<1>. QED  BY <1>4, <1>7, <1>8 DEF RequestInv

\* What a step that posts no property leaves of the rows: a feature that goes leaves a purge
\* of its properties to be done, and a purge that is done leaves none of them.
OldProperties ==
    \A k \in Property : Stored(k)' =>
        Stored(k) /\ row'[k].by = row[k].by /\ row'[k].type = row[k].type

StraysAre(r) ==
    \A k \in Property : Stray(k)' =>
        \/ Stray(k)
        \/ /\ answer'[r] = "201" /\ "remove" \in since'[r]
           /\ Kind(r)' = "append" /\ KeyOf(r)' = k

Settles(r) ==
    /\ \A k \in Geometry : Stored(k)' => coll'
    /\ \A k \in Geometry : Stored(k) /\ ~Stored(k)' =>
          pc'[r] = "purge" /\ PropertiesOf(k[1]) \subseteq Purged(r)'
    /\ coll /\ ~coll' => pc'[r] = "purge" /\ Purged(r)' = Property
    /\ pc[r] = "purge" => unpurged' \/ \A k \in Purged(r) : ~Stored(k)'

\* A purge that is due stays due until it is done.
LEMMA PurgeStaysPending ==
  ASSUME StoreInv, NEW r \in Request, Acts(r), Settles(r), ~unpurged',
         NEW k \in Property, Stored(k)', PurgePending(k)
  PROVE  PurgePending(k)'
<1>1. PICK q \in Request : pc[q] = "purge" /\ k \in Purged(q)
  BY DEF PurgePending
<1>2. q # r
  BY <1>1 DEF Settles
<1>3. pc'[q] = "purge" /\ op'[q] = op[q]
  BY <1>1, <1>2 DEF Acts
<1>4. Purged(q)' = Purged(q)
  BY <1>3 DEF Purged, Kind, KeyOf
<1>. QED  BY <1>1, <1>3, <1>4 DEF PurgePending

\* So an orphan is due to be purged, or of a race, and a dropped collection's properties are
\* due to be purged.
LEMMA RowsKeep ==
  ASSUME StoreInv, TypeInv', NEW r \in Request, Acts(r), Settles(r), OldProperties, StraysAre(r)
  PROVE  RowInv' /\ OrphansComeFromRaces' /\ DroppedLeavesNothing' /\ StraysComeFromRaces'
<1>1. RowInv'
  <2>1. \A k \in Property : Stored(k)' => row'[k].type \in OgcTokens
    BY DEF OldProperties, StoreInv, RowInv
  <2>2. ASSUME NEW k \in Property, Stored(k)', row'[k].by \in Request
        PROVE  pc'[row'[k].by] = "answered"
    <3>1. pc[row'[k].by] = "answered"
      BY <2>2 DEF OldProperties, StoreInv, RowInv
    <3>. QED  BY <2>2, <3>1 DEF Acts
  <2>. QED  BY <2>1, <2>2 DEF RowInv, Settles, Stored
<1>2. OrphansComeFromRaces'
  <2>1. SUFFICES ASSUME ~unpurged', NEW k \in Property, Orphan(k)'
                 PROVE  \/ PurgePending(k)'
                        \/ row'[k].by \in Request /\ "remove" \in since'[row'[k].by]
    BY DEF OrphansComeFromRaces
  <2>. DEFINE g == <<k[1], Trip>>
  <2>2. Stored(k)' /\ ~Stored(g)' /\ g \in Geometry /\ g[1] = k[1] /\ k \in PropertiesOf(g[1])
    BY <2>1, Keys DEF Orphan, Stored, PropertiesOf, Key
  <2>3. Stored(k) /\ row'[k].by = row[k].by
    BY <2>2 DEF OldProperties
  <2>4. CASE Stored(g)
    <3>1. pc'[r] = "purge" /\ k \in Purged(r)'
      BY <2>2, <2>4 DEF Settles
    <3>. QED  BY <3>1 DEF PurgePending
  <2>5. CASE ~Stored(g)
    <3>1. ~unpurged /\ Orphan(k)
      BY <2>1, <2>3, <2>5 DEF Acts, Orphan
    <3>2. \/ PurgePending(k)
          \/ row[k].by \in Request /\ "remove" \in since[row[k].by]
      BY <3>1 DEF StoreInv, OrphansComeFromRaces
    <3>. QED  BY <2>1, <2>2, <2>3, <3>2, PurgeStaysPending DEF Acts
  <2>. QED  BY <2>4, <2>5
<1>3. DroppedLeavesNothing'
  <2>1. SUFFICES ASSUME ~coll', ~unpurged', NEW k \in Property, Stored(k)'
                 PROVE  PurgePending(k)'
    BY DEF DroppedLeavesNothing
  <2>2. CASE coll
    BY <2>1, <2>2 DEF Settles, PurgePending
  <2>3. CASE ~coll
    <3>1. ~unpurged /\ Stored(k)
      BY <2>1 DEF Acts, OldProperties
    <3>2. PurgePending(k)
      BY <2>3, <3>1 DEF StoreInv, DroppedLeavesNothing
    <3>. QED  BY <2>1, <3>2, PurgeStaysPending
  <2>. QED  BY <2>2, <2>3
<1>4. StraysComeFromRaces'
  <2>1. SUFFICES ASSUME NEW k \in Property, Stray(k)'
                 PROVE  \E q \in Request : /\ answer'[q] = "201" /\ "remove" \in since'[q]
                                           /\ Kind(q)' = "append" /\ KeyOf(q)' = k
    BY DEF StraysComeFromRaces
  <2>2. CASE Stray(k)
    <3>1. PICK q \in Request : /\ answer[q] = "201" /\ "remove" \in since[q]
                               /\ Kind(q) = "append" /\ KeyOf(q) = k
      BY <2>2 DEF StoreInv, StraysComeFromRaces
    <3>2. q # r
      <4>1. RequestInv(r)
        BY DEF StoreInv
      <4>2. None # "201"
        BY StoreAssumption DEF StoreAssumption, Code
      <4>. QED  BY <3>1, <4>1, <4>2 DEF Acts, RequestInv, Control
    <3>3. /\ answer'[q] = "201" /\ "remove" \in since'[q]
          /\ Kind(q)' = "append" /\ KeyOf(q)' = k
      BY <3>1, <3>2 DEF Acts, Kind, KeyOf
    <3>. QED  BY <3>3
  <2>3. CASE ~Stray(k)
    BY <2>1, <2>3 DEF StraysAre
  <2>. QED  BY <2>2, <2>3
<1>. QED  BY <1>1, <1>2, <1>3, <1>4

\* What every step but the one that posts properties does.
Kept(r) == StoreInv' /\ OldProperties /\ Acts(r) /\ Reshapes(r)

\* A step that posts no property keeps the invariant, if its request keeps its own.
LEMMA StepKeeps ==
  ASSUME StoreInv, TypeInv', NEW r \in Request, Acts(r), Reshapes(r), Settles(r),
         OldProperties, StraysAre(r), RequestInv(r)'
  PROVE  Kept(r)
<1>1. \A q \in Request : RequestInv(q)'
  BY OthersKeep
<1>. QED  BY <1>1, RowsKeep DEF StoreInv, Kept

\* A step that changes neither the rows nor the collection.
LEMMA QuietStepKeeps ==
  ASSUME StoreInv, TypeInv', NEW r \in Request, Acts(r), UNCHANGED <<coll, row>>,
         pc[r] = "purge" => unpurged', RequestInv(r)'
  PROVE  Kept(r)
<1>1. Reshapes(r)
  BY DEF Reshapes, Same
<1>2. OldProperties
  BY DEF OldProperties, Stored
<1>3. StraysAre(r)
  BY DEF StraysAre, Stray, Stored
<1>4. Settles(r)
  BY DEF Settles, Stored, StoreInv, RowInv
<1>. QED  BY <1>1, <1>2, <1>3, <1>4, StepKeeps

-----------------------------------------------------------------------------
(* Statements that change no row                                           *)

\* A request that is answered owes nothing more.
LEMMA AnsweredInv ==
  ASSUME TypeInv', NEW r \in Request, pc'[r] = "answered", op'[r] \in Op, locked' # r
  PROVE  RequestInv(r)'
BY DEF RequestInv, Control, Drafted, Current

LEMMA AnswerTypes ==
  ASSUME StoreInv, NEW r \in Request, pc[r] # "idle", NEW code \in Codes, Answer(r, code)
  PROVE  /\ pc' \in [Request -> Steps] /\ answer' \in [Request -> Codes]
         /\ pc'[r] = "answered" /\ answer'[r] = code
         /\ \A q \in Request \ {r} : pc'[q] = pc[q] /\ answer'[q] = answer[q]
         /\ op[r] \in Op
BY DEF StoreInv, RequestInv, Control, TypeInv, Answer, Steps

LEMMA GotoTypes ==
  ASSUME StoreInv, NEW r \in Request, NEW step \in Steps, Goto(r, step)
  PROVE  /\ pc' \in [Request -> Steps] /\ answer' \in [Request -> Codes]
         /\ pc'[r] = step /\ answer'[r] = answer[r]
         /\ \A q \in Request \ {r} : pc'[q] = pc[q] /\ answer'[q] = answer[q]
BY DEF StoreInv, TypeInv, Goto

\* A request that is answered without having written; its lock, if it had one, is released.
LEMMA AnswerKeeps ==
  ASSUME StoreInv, NEW r \in Request, pc[r] \notin {"idle", "answered"},
         NEW code \in Codes, Answer(r, code),
         UNCHANGED <<coll, row, op, done, column>>,
         locked' = IF locked = r THEN None ELSE locked,
         since' \in [Request -> SUBSET {"remove", "append", "failure"}],
         \A q \in Request : since[q] \subseteq since'[q],
         unpurged' \in BOOLEAN, unpurged => unpurged', pc[r] = "purge" => unpurged'
  PROVE  Kept(r)
<1>1. TypeInv'
  BY AnswerTypes DEF StoreInv, TypeInv
<1>2. None \notin Request
  BY StoreAssumption DEF StoreAssumption
<1>3. Acts(r)
  BY <1>2, AnswerTypes DEF Acts
<1>4. RequestInv(r)'
  BY <1>1, <1>2, AnswerTypes, AnsweredInv
<1>. QED  BY <1>1, <1>3, <1>4, QuietStepKeeps

\* A request that is answered, and changes nothing else.
LEMMA RefusalKeeps ==
  ASSUME StoreInv, NEW r \in Request, pc[r] \notin {"idle", "answered", "purge", "insert"},
         NEW code \in Codes, Answer(r, code),
         UNCHANGED <<coll, row, locked, op, done, column, since, unpurged>>
  PROVE  Kept(r)
<1>1. RequestInv(r) /\ TypeInv
  BY DEF StoreInv
<1>2. locked # r
  BY <1>1 DEF RequestInv, Control
<1>3. since' \in [Request -> SUBSET {"remove", "append", "failure"}] /\ unpurged' \in BOOLEAN
  BY <1>1 DEF TypeInv
<1>. QED  BY <1>2, <1>3, AnswerKeeps

\* A request that goes on, and changes nothing else: what it must have found for that.
LEMMA GoesOnKeeps ==
  ASSUME StoreInv, NEW r \in Request, pc[r] \in {"first", "count", "member"},
         NEW step \in {"ensure", "count", "fetch", "member", "update"}, Goto(r, step),
         UNCHANGED <<coll, row, locked, op, done, since, unpurged>>,
         column' \in [Request -> ScalarTemporalTypes \cup {None}],
         \A q \in Request \ {r} : column'[q] = column[q],
         step = "ensure" => Kind(r) = "postTProperties" /\ coll /\ Stored(KeyOf(r)),
         step \in {"count", "update"} /\ Kind(r) \in {"append", "deleteValue"} =>
             ColumnOf(r)' \in Column,
         step = "update" =>
             \/ /\ Kind(r) = "append" /\ KeyOf(r) \in Property
                /\ Stored(KeyOf(r)) /\ OgcToken(column'[r]) = row[KeyOf(r)].type
             \/ /\ Kind(r) = "deleteValue" /\ Stored(KeyOf(r))
                /\ op[r].n <= Cardinality(Members(r)') /\ 2 <= Cardinality(Members(r)')
  PROVE  Kept(r)
<1>1. RequestInv(r) /\ TypeInv
  BY DEF StoreInv
<1>2. step \in Steps
  BY DEF Steps, Midway
<1>3. TypeInv'
  BY <1>1, <1>2, GotoTypes DEF TypeInv
<1>4. Acts(r)
  BY <1>2, GotoTypes DEF Acts
<1>5. Kind(r)' = Kind(r) /\ KeyOf(r)' = KeyOf(r) /\ (Stored(KeyOf(r))' <=> Stored(KeyOf(r)))
  BY DEF Kind, KeyOf, Stored
<1>6. pc'[r] = step /\ answer'[r] = answer[r]
  BY <1>2, GotoTypes
<1>7. Control(r)'
  BY <1>1, <1>5, <1>6 DEF RequestInv, Control
<1>8. Drafted(r)'
  BY <1>1, <1>6 DEF RequestInv, Drafted
<1>9. Current(r)'
  BY <1>5, <1>6 DEF Current
<1>. QED  BY <1>3, <1>4, <1>7, <1>8, <1>9, QuietStepKeeps DEF RequestInv

LEMMA StartKeeps ==
  ASSUME StoreInv, NEW r \in Request, Start(r)
  PROVE  Kept(r)
<1>1. PICK o \in Ops[r] :
         /\ op' = [op EXCEPT ![r] = o]
         /\ \/ \E code \in {"404", "409"} : Answer(r, code)
            \/ Goto(r, "first")
  BY DEF Start
<1>2. /\ pc[r] = "idle"
      /\ UNCHANGED <<coll, row, locked, done, column, since, unpurged>>
  BY DEF Start, storeRows, locals, history
<1>3. o \in Op
  BY StoreAssumption DEF StoreAssumption
<1>4. RequestInv(r) /\ TypeInv
  BY DEF StoreInv
<1>5. /\ pc' \in [Request -> Steps] /\ answer' \in [Request -> Codes]
      /\ \A q \in Request \ {r} : pc'[q] = pc[q] /\ answer'[q] = answer[q]
      /\ pc'[r] \in {"first", "answered"} /\ (pc'[r] # "answered" => answer'[r] = answer[r])
  BY <1>1, <1>4 DEF TypeInv, Answer, Goto, Steps, Codes, Code
<1>6. op' \in [Request -> Op \cup {None}] /\ op'[r] = o /\ \A q \in Request \ {r} : op'[q] = op[q]
  BY <1>1, <1>3, <1>4 DEF TypeInv
<1>7. TypeInv'
  BY <1>2, <1>4, <1>5, <1>6 DEF TypeInv
<1>8. Acts(r)
  BY <1>2, <1>5, <1>6 DEF Acts
<1>9. RequestInv(r)'
  BY <1>2, <1>3, <1>4, <1>5, <1>6 DEF RequestInv, Control, Drafted, Current
<1>. QED  BY <1>2, <1>7, <1>8, <1>9, QuietStepKeeps

\* The statements that end a request.
LEMMA EndsKeep ==
  ASSUME StoreInv, NEW r \in Request,
         Fail(r) \/ PutCollection(r) \/ PurgeFails(r) \/ RefuseDuplicate(r) \/ MemberFails(r) \/ Fetch(r)
  PROVE  Kept(r)
<1>0. RequestInv(r) /\ TypeInv
  BY DEF StoreInv
<1>1. CASE Fail(r)
  BY <1>0, <1>1, AnswerKeeps DEF Fail, locals, history, TypeInv, Codes, Code
<1>2. CASE PutCollection(r)
  <2>1. pc[r] = "first"
    BY <1>2 DEF PutCollection, At
  <2>2. \E code \in {"200", "404"} : Answer(r, code)
    BY <1>2 DEF PutCollection
  <2>. QED  BY <1>2, <2>1, <2>2, RefusalKeeps DEF PutCollection, storeRows, locals, history, Codes, Code
<1>3. CASE PurgeFails(r)
  <2>1. locked # r
    BY <1>0, <1>3 DEF PurgeFails, RequestInv, Control
  <2>. QED  BY <1>0, <1>3, <2>1, AnswerKeeps DEF PurgeFails, storeRows, locals, TypeInv, Codes, Code
<1>4. CASE RefuseDuplicate(r)
  <2>1. locked = r
    BY <1>0, <1>4 DEF RefuseDuplicate, Inserting, RequestInv, Control
  <2>. QED
    BY <1>0, <1>4, <2>1, AnswerKeeps DEF RefuseDuplicate, Inserting, locals, history, TypeInv, Codes, Code
<1>5. CASE MemberFails(r)
  <2>1. locked # r
    BY <1>0, <1>5 DEF MemberFails, RequestInv, Control
  <2>2. /\ since' \in [Request -> SUBSET {"remove", "append", "failure"}]
        /\ \A q \in Request : since[q] \subseteq since'[q]
    BY <1>0, <1>5 DEF MemberFails, TypeInv
  <2>. QED
    BY <1>0, <1>5, <2>1, <2>2, AnswerKeeps DEF MemberFails, storeRows, locals, TypeInv, Codes, Code
<1>6. CASE Fetch(r)
  <2>1. \E code \in {"200", "400", "404"} : Answer(r, code)
    BY <1>6 DEF Fetch, NotFound
  <2>. QED  BY <1>6, <2>1, RefusalKeeps DEF Fetch, storeRows, history, Codes, Code
<1>. QED  BY <1>1, <1>2, <1>3, <1>4, <1>5, <1>6

\* The statements that look something up.
LEMMA LookupKeeps ==
  ASSUME StoreInv, NEW r \in Request, Lookup(r)
  PROVE  Kept(r)
<1>1. /\ pc[r] = "first" /\ Kind(r) = "postTProperties"
      /\ UNCHANGED <<coll, row, locked, op, done, column, since, unpurged>>
  BY DEF Lookup, At, storeRows, locals, history
<1>2. TypeInv /\ RequestInv(r) /\ RowInv
  BY DEF StoreInv
<1>3. CASE ~Stored(KeyOf(r))
  BY <1>1, <1>3, RefusalKeeps DEF Lookup, Codes, Code
<1>4. CASE Stored(KeyOf(r))
  <2>1. KeyOf(r) \in Geometry
    BY <1>1, <1>2, OpTypes DEF RequestInv, Control, Kind, KeyOf
  <2>2. coll
    BY <1>2, <1>4, <2>1 DEF RowInv
  <2>. QED  BY <1>1, <1>2, <1>4, <2>2, GoesOnKeeps DEF Lookup, TypeInv
<1>. QED  BY <1>3, <1>4

LEMMA ReadTypeKeeps ==
  ASSUME StoreInv, NEW r \in Request, ReadType(r)
  PROVE  Kept(r)
<1>. DEFINE k == KeyOf(r)
<1>1. /\ pc[r] = "first" /\ Kind(r) \in TypeReaders /\ k \in Property
      /\ UNCHANGED <<coll, row, locked, op, done, since, unpurged>>
  BY DEF ReadType, At, storeRows, history
<1>2. TypeInv /\ RequestInv(r) /\ RowInv
  BY DEF StoreInv
<1>3. CASE ~Stored(k)
  BY <1>1, <1>3, RefusalKeeps DEF ReadType, Codes, Code
<1>4. CASE Stored(k)
  <2>. DEFINE c == TypeColumn(k)  step == AfterType(Kind(r))
  <2>1. k \notin Geometry
    BY <1>1, Keys
  <2>2. c \in ScalarTemporalTypes /\ OgcToken(c) = row[k].type
    <3>1. row[k].type \in OgcTokens /\ c = TPropType(row[k].type)
      BY <1>1, <1>2, <1>4, <2>1 DEF RowInv, TypeColumn
    <3>. QED  BY <3>1, TokensNameTypes
  <2>3. column' = [column EXCEPT ![r] = c] /\ Goto(r, step)
    BY <1>4 DEF ReadType
  <2>4. /\ column' \in [Request -> ScalarTemporalTypes \cup {None}] /\ column'[r] = c
        /\ \A q \in Request \ {r} : column'[q] = column[q]
    BY <1>2, <2>2, <2>3 DEF TypeInv
  <2>5. ColumnOf(r)' \in Column
    BY <1>1, <2>1, <2>2, <2>4 DEF ColumnOf, KeyOf, Column
  <2>6. step \in {"update", "count", "fetch"} /\ (step = "update" => Kind(r) = "append")
    BY <1>1 DEF AfterType, TypeReaders
  <2>. HIDE DEF c, step
  <2>. QED  BY <1>1, <1>4, <2>2, <2>3, <2>4, <2>5, <2>6, GoesOnKeeps
<1>. QED  BY <1>3, <1>4

LEMMA CountValuesKeeps ==
  ASSUME StoreInv, NEW r \in Request, CountValues(r)
  PROVE  Kept(r)
<1>. DEFINE k == KeyOf(r)  m == Cardinality(Members(r))
<1>1. /\ pc[r] \in {"first", "count"} /\ Kind(r) = "deleteValue"
      /\ pc[r] = "first" => k \in Geometry
      /\ UNCHANGED <<coll, row, locked, op, done, column, since, unpurged>>
  BY DEF CountValues, Counting, At, storeRows, locals, history
<1>2. TypeInv /\ RequestInv(r)
  BY DEF StoreInv
<1>3. CASE \E code \in {"400", "404", "409"} : Answer(r, code)
  BY <1>1, <1>3, RefusalKeeps DEF Codes, Code
<1>4. CASE /\ Stored(k) /\ ~(m < op[r].n) /\ ~(m = 1 /\ op[r].n = 1)
           /\ Goto(r, "update")
  <2>1. op[r].n \in Nat \ {0}
    BY <1>1, <1>2, OpTypes DEF RequestInv, Control, Kind
  <2>2. m \in Nat
    <3>1. Members(r) \subseteq Time
      BY DEF Members, In
    <3>. QED  BY <3>1, FS_Subset, FS_CardinalityType, StoreAssumption DEF StoreAssumption
  <2>3. op[r].n <= m /\ 2 <= m
    BY <1>4, <2>1, <2>2
  <2>4. Members(r)' = Members(r) /\ ColumnOf(r)' = ColumnOf(r)
    BY <1>1 DEF Members, In, ColumnOf, KeyOf
  <2>5. ColumnOf(r) \in Column
    <3>1. CASE pc[r] = "count"
      BY <1>1, <1>2, <3>1 DEF RequestInv, Control
    <3>2. CASE pc[r] = "first"
      BY <1>1, <3>2 DEF ColumnOf, Column
    <3>. QED  BY <1>1, <3>1, <3>2
  <2>. QED  BY <1>1, <1>2, <1>4, <2>3, <2>4, <2>5, GoesOnKeeps DEF TypeInv
<1>. QED
  <2>1. \/ \E code \in {"400", "404", "409"} : Answer(r, code)
        \/ /\ Stored(k) /\ ~(m < op[r].n) /\ ~(m = 1 /\ op[r].n = 1)
           /\ Goto(r, "update")
    BY DEF CountValues, NotFound
  <2>. QED  BY <1>3, <1>4, <2>1

LEMMA ReadersKeep ==
  ASSUME StoreInv, NEW r \in Request,
         FindFeature(r) \/ CountMembers(r) \/ ReadMember(r) \/ FindMember(r)
  PROVE  Kept(r)
<1>1. /\ pc[r] \in {"first", "count", "member"}
      /\ UNCHANGED <<coll, row, locked, op, done, column, since, unpurged>>
      /\ \/ \E code \in {"200", "400", "404", "500"} : Answer(r, code)
         \/ Goto(r, "count") /\ Kind(r) = "tgSequence"
         \/ \E step \in {"member", "fetch"} : Goto(r, step)
  BY DEF FindFeature, CountMembers, ReadMember, FindMember, At, NotFound, storeRows, locals, history
<1>2. TypeInv
  BY DEF StoreInv
<1>3. CASE \E code \in {"200", "400", "404", "500"} : Answer(r, code)
  BY <1>1, <1>3, RefusalKeeps DEF Codes, Code
<1>4. CASE Goto(r, "count") /\ Kind(r) = "tgSequence"
  BY <1>1, <1>2, <1>4, GoesOnKeeps DEF TypeInv
<1>5. CASE \E step \in {"member", "fetch"} : Goto(r, step)
  BY <1>1, <1>2, <1>5, GoesOnKeeps DEF TypeInv
<1>. QED  BY <1>1, <1>3, <1>4, <1>5

\* ALTER TABLE takes the lock; the INSERTs write in the transaction only.
LEMMA EnsureTableKeeps ==
  ASSUME StoreInv, NEW r \in Request, EnsureTable(r)
  PROVE  Kept(r)
<1>1. /\ pc[r] = "ensure" /\ locked = None /\ locked' = r
      /\ UNCHANGED <<coll, row, op, done, column, since, unpurged>>
  BY DEF EnsureTable, locals, history
<1>2. TypeInv /\ RequestInv(r)
  BY DEF StoreInv
<1>3. /\ pc' \in [Request -> Steps] /\ answer' \in [Request -> Codes]
      /\ pc'[r] = "insert" /\ answer'[r] = answer[r]
      /\ \A q \in Request \ {r} : pc'[q] = pc[q] /\ answer'[q] = answer[q]
  <2>1. "insert" \in Steps
    BY DEF Steps, Midway
  <2>. QED  BY <2>1, GotoTypes DEF EnsureTable
<1>4. TypeInv'
  BY <1>1, <1>2, <1>3 DEF TypeInv
<1>5. Acts(r)
  BY <1>1, <1>3, StoreAssumption DEF Acts, StoreAssumption
<1>6. Kind(r)' = Kind(r) /\ KeyOf(r)' = KeyOf(r) /\ (Stored(KeyOf(r))' <=> Stored(KeyOf(r)))
  BY <1>1 DEF Kind, KeyOf, Stored
<1>7. Control(r)'
  BY <1>1, <1>2, <1>3, <1>6 DEF RequestInv, Control
<1>8. Drafted(r)'
  <2>1. done'[r] = <<>> /\ Len(<<>>) = 0
    BY <1>1, <1>2 DEF RequestInv, Drafted
  <2>2. op[r].names \in Seq(Name)
    BY <1>1, <1>2, OpTypes DEF RequestInv, Control, Kind
  <2>3. Len(op[r].names) \in Nat
    BY <2>2, LenProperties
  <2>. QED  BY <1>1, <1>3, <2>1, <2>3 DEF Drafted
<1>9. Current(r)'
  BY <1>1, <1>2, <1>3, <1>6 DEF RequestInv, Current
<1>. QED  BY <1>1, <1>4, <1>5, <1>7, <1>8, <1>9, QuietStepKeeps DEF RequestInv

LEMMA InsertKeeps ==
  ASSUME StoreInv, NEW r \in Request, Insert(r)
  PROVE  Kept(r)
<1>. DEFINE n == NextName(r)  d == done[r]
<1>1. /\ pc[r] = "insert" /\ Len(d) < Len(op[r].names) /\ ~Taken(r)
      /\ done' = [done EXCEPT ![r] = Append(d, n)]
      /\ UNCHANGED <<coll, row, locked, op, pc, column, answer, since, unpurged>>
  BY DEF Insert, Inserting, storeRows, history
<1>2. TypeInv /\ RequestInv(r)
  BY DEF StoreInv
<1>3. op[r].names \in Seq(Name) /\ d \in Seq(Name)
  BY <1>1, <1>2, OpTypes DEF RequestInv, Control, Kind, TypeInv
<1>4. /\ Len(d) \in Nat /\ Len(op[r].names) \in Nat
      /\ n = op[r].names[Len(d) + 1] /\ n \in Name
  <2>1. Len(d) \in Nat /\ Len(op[r].names) \in Nat
    BY <1>3, LenProperties
  <2>. QED  BY <1>1, <1>3, <2>1, ElementOfSeq DEF NextName
<1>. HIDE DEF n
<1>5. /\ Append(d, n) \in Seq(Name) /\ Len(Append(d, n)) = Len(d) + 1
      /\ \A i \in 1..Len(d) : Append(d, n)[i] = d[i]
      /\ Append(d, n)[Len(d) + 1] = n
  BY <1>3, <1>4, AppendProperties
<1>6. done' \in [Request -> Seq(Name)] /\ done'[r] = Append(d, n)
      /\ \A q \in Request \ {r} : done'[q] = done[q]
  BY <1>1, <1>2, <1>5 DEF TypeInv
<1>7. TypeInv'
  BY <1>1, <1>2, <1>6 DEF TypeInv
<1>8. Acts(r)
  BY <1>1, <1>6 DEF Acts
<1>9. Kind(r)' = Kind(r) /\ KeyOf(r)' = KeyOf(r)
  BY <1>1 DEF Kind, KeyOf
<1>10. Control(r)'
  BY <1>1, <1>2, <1>9 DEF RequestInv, Control
<1>11. Drafted(r)'
  <2>1. ~Stored(<<KeyOf(r)[1], n>>)
    BY <1>1 DEF Taken, n
  <2>2. SUFFICES ASSUME NEW i \in 1..(Len(d) + 1)
                 PROVE  /\ Append(d, n)[i] = op[r].names[i]
                        /\ ~Stored(<<KeyOf(r)[1], Append(d, n)[i]>>)
    BY <1>1, <1>4, <1>5, <1>6, <1>9 DEF Drafted, Stored
  <2>3. CASE i \in 1..Len(d)
    BY <1>1, <1>2, <1>5, <2>3 DEF RequestInv, Drafted
  <2>4. CASE i = Len(d) + 1
    BY <1>4, <1>5, <2>1, <2>4
  <2>. QED  BY <1>4, <2>3, <2>4
<1>12. Current(r)'
  BY <1>1, <1>2, <1>9 DEF RequestInv, Current, Stored
<1>. QED  BY <1>1, <1>7, <1>8, <1>10, <1>11, <1>12, QuietStepKeeps DEF RequestInv

-----------------------------------------------------------------------------
(* Statements that change rows                                             *)

\* What a statement that is its request's last one, and writes, must be shown to do.
LEMMA WriteKeeps ==
  ASSUME StoreInv, NEW r \in Request, pc[r] \notin {"idle", "answered", "insert"},
         NEW code \in Codes, Answer(r, code),
         UNCHANGED <<locked, op, done, column>>,
         coll' \in BOOLEAN, coll => coll',
         row' \in [Key -> Row \cup {None}],
         since' \in [Request -> SUBSET {"remove", "append", "failure"}],
         \A q \in Request : since[q] \subseteq since'[q],
         UNCHANGED unpurged,
         Reshapes(r), Settles(r), OldProperties, StraysAre(r)
  PROVE  Kept(r)
<1>1. TypeInv /\ RequestInv(r)
  BY DEF StoreInv
<1>2. TypeInv'
  BY <1>1, AnswerTypes DEF TypeInv
<1>3. Acts(r)
  BY AnswerTypes DEF Acts
<1>4. locked' # r
  BY <1>1 DEF RequestInv, Control
<1>5. RequestInv(r)'
  BY <1>2, <1>4, AnswerTypes, AnsweredInv
<1>. QED  BY <1>2, <1>3, <1>5, StepKeeps

\* A statement that overtakes those that have read the rows it changes.
LEMMA OvertakeTypes ==
  ASSUME TypeInv, NEW keys, Overtake(keys)
  PROVE  /\ since' \in [Request -> SUBSET {"remove", "append", "failure"}]
         /\ \A q \in Request : since[q] \subseteq since'[q]
         /\ UNCHANGED unpurged
         /\ \A q \in Request : pc[q] \in Midway /\ KeyOf(q) \in keys => "remove" \in since'[q]
BY DEF TypeInv, Overtake

LEMMA DropTypes ==
  ASSUME TypeInv, NEW keys, Drop(keys)
  PROVE  /\ row' \in [Key -> Row \cup {None}]
         /\ \A k \in Key : IF k \in keys THEN ~Stored(k)' ELSE row'[k] = row[k]
BY DEF TypeInv, Drop, Stored

\* What a statement that only drops rows does to the invariant's other parts.
LEMMA DropKeeps ==
  ASSUME StoreInv, NEW keys, Drop(keys), Overtake(keys), NEW r \in Request
  PROVE  /\ OldProperties /\ StraysAre(r)
         /\ \A k \in Key : Same(k) \/ Overtaken(k)
<1>1. TypeInv
  BY DEF StoreInv
<1>2. \A k \in Property : k \in Key
  BY Keys
<1>3. \A k \in Key : (k \in keys /\ ~Stored(k)') \/ row'[k] = row[k]
  BY <1>1, DropTypes
<1>4. OldProperties
  BY <1>2, <1>3 DEF OldProperties, Stored
<1>5. StraysAre(r)
  BY <1>2, <1>3 DEF StraysAre, Stray, Stored
<1>6. \A k \in Key : Same(k) \/ Overtaken(k)
  BY <1>1, <1>3, OvertakeTypes DEF Same, Overtaken
<1>. QED  BY <1>4, <1>5, <1>6

LEMMA PostCollectionKeeps ==
  ASSUME StoreInv, NEW r \in Request, PostCollection(r)
  PROVE  Kept(r)
<1>1. /\ pc[r] = "first" /\ coll' \in BOOLEAN /\ (coll => coll')
      /\ UNCHANGED <<row, locked, op, done, column, since, unpurged>>
  BY DEF PostCollection, At, locals, history, StoreInv, TypeInv
<1>2. \E code \in {"400", "201"} : Answer(r, code)
  BY DEF PostCollection
<1>3. Reshapes(r) /\ OldProperties /\ StraysAre(r)
  BY <1>1 DEF Reshapes, Same, OldProperties, StraysAre, Stray, Stored
<1>4. Settles(r)
  BY <1>1 DEF Settles, Stored, StoreInv, RowInv
<1>. QED  BY <1>1, <1>2, <1>3, <1>4, WriteKeeps DEF Codes, Code, StoreInv, TypeInv

LEMMA DeleteTPropertyKeeps ==
  ASSUME StoreInv, NEW r \in Request, DeleteTProperty(r)
  PROVE  Kept(r)
<1>1. /\ pc[r] = "first" /\ Kind(r) = "deleteTProperty"
      /\ UNCHANGED <<coll, locked, op, done, column>>
  BY DEF DeleteTProperty, At, locals
<1>2. TypeInv /\ RequestInv(r) /\ RowInv
  BY DEF StoreInv
<1>3. CASE Answer(r, "404") /\ UNCHANGED <<row, since, unpurged>>
  BY <1>1, <1>3, RefusalKeeps DEF Codes, Code
<1>4. CASE Answer(r, "204") /\ Drop({KeyOf(r)}) /\ Overtake({KeyOf(r)})
  <2>1. KeyOf(r) \in Property
    BY <1>1, <1>2, OpTypes DEF RequestInv, Control, Kind, KeyOf
  <2>2. OldProperties /\ StraysAre(r) /\ Reshapes(r)
    BY <1>1, <1>4, DropKeeps DEF Reshapes
  <2>3. \A k \in Geometry : row'[k] = row[k]
    BY <1>2, <1>4, <2>1, DropTypes, Keys
  <2>4. Settles(r)
    BY <1>1, <1>2, <2>3 DEF Settles, Stored, RowInv
  <2>. QED
    BY <1>1, <1>2, <1>4, <2>2, <2>4, WriteKeeps, DropTypes, OvertakeTypes DEF Codes, Code, TypeInv
<1>. QED  BY <1>3, <1>4 DEF DeleteTProperty, history

LEMMA PurgeKeeps ==
  ASSUME StoreInv, NEW r \in Request, Purge(r)
  PROVE  Kept(r)
<1>1. /\ pc[r] = "purge" /\ Drop(Purged(r)) /\ Overtake(Purged(r)) /\ Answer(r, "204")
      /\ UNCHANGED <<coll, locked, op, done, column>>
  BY DEF Purge, locals
<1>2. TypeInv /\ RequestInv(r) /\ RowInv
  BY DEF StoreInv
<1>3. Purged(r) \subseteq Property
  <2>1. Kind(r) = "deleteCollection" \/ KeyOf(r)[1] \in Feature
    BY <1>1, <1>2, OpTypes, Keys DEF RequestInv, Control, Kind, KeyOf
  <2>. QED  BY <2>1 DEF Purged, PropertiesOf, Property
<1>4. OldProperties /\ StraysAre(r) /\ Reshapes(r)
  BY <1>1, DropKeeps DEF Reshapes
<1>5. /\ \A k \in Geometry : row'[k] = row[k]
      /\ \A k \in Purged(r) : ~Stored(k)'
  BY <1>1, <1>2, <1>3, DropTypes, Keys
<1>6. Settles(r)
  BY <1>1, <1>2, <1>5 DEF Settles, Stored, RowInv
<1>. QED
  BY <1>1, <1>2, <1>4, <1>6, WriteKeeps, DropTypes, OvertakeTypes DEF Codes, Code, TypeInv

\* A feature, or all of them with their table, is deleted, and its properties wait to be
\* purged.
LEMMA DeletesKeep ==
  ASSUME StoreInv, NEW r \in Request, DeleteCollection(r) \/ DeleteItem(r)
  PROVE  Kept(r)
<1>1. /\ pc[r] = "first" /\ Kind(r) \in {"deleteCollection", "deleteItem"}
      /\ UNCHANGED <<locked, op, done, column>>
  BY DEF DeleteCollection, DeleteItem, At, locals
<1>2. TypeInv /\ RequestInv(r) /\ RowInv
  BY DEF StoreInv
<1>3. CASE /\ \E code \in {"404", "500"} : Answer(r, code)
           /\ UNCHANGED <<coll, row, since, unpurged>>
  BY <1>1, <1>3, RefusalKeeps DEF Codes, Code
<1>4. ASSUME NEW keys, keys \subseteq Geometry, Goto(r, "purge"), Drop(keys), Overtake(keys),
             \/ keys = Geometry /\ coll' = FALSE /\ Kind(r) = "deleteCollection"
                  /\ \A q \in Request : ~ReadsTable(q)
             \/ keys = {KeyOf(r)} /\ coll' = coll /\ Kind(r) = "deleteItem"
      PROVE  Kept(r)
  <2>1. /\ pc' \in [Request -> Steps] /\ answer' \in [Request -> Codes]
        /\ pc'[r] = "purge" /\ answer'[r] = answer[r]
        /\ \A q \in Request \ {r} : pc'[q] = pc[q] /\ answer'[q] = answer[q]
    <3>1. "purge" \in Steps
      BY DEF Steps
    <3>. QED  BY <1>4, <3>1, GotoTypes
  <2>2. TypeInv'
    BY <1>1, <1>2, <1>4, <2>1, DropTypes, OvertakeTypes DEF TypeInv
  <2>3. Acts(r)
    BY <1>1, <1>2, <1>4, <2>1, OvertakeTypes DEF Acts
  <2>4. OldProperties /\ StraysAre(r) /\ Reshapes(r)
    BY <1>4, DropKeeps DEF Reshapes
  <2>5. Kind(r)' = Kind(r) /\ KeyOf(r)' = KeyOf(r)
    BY <1>1 DEF Kind, KeyOf
  <2>6. Purged(r)' = IF Kind(r) = "deleteCollection" THEN Property ELSE PropertiesOf(KeyOf(r)[1])
    BY <2>5 DEF Purged
  <2>7. /\ \A k \in Geometry : Stored(k)' => coll' /\ Stored(k)
        /\ \A k \in Geometry : Stored(k) /\ ~Stored(k)' => k \in keys
    <3>1. \A k \in Geometry : k \in Key
      BY Keys
    <3>. QED  BY <1>2, <1>4, <3>1, DropTypes DEF RowInv, Stored
  <2>8. \A k \in Geometry : PropertiesOf(k[1]) \subseteq Property
    BY Keys DEF PropertiesOf, Property, Key
  <2>9. Settles(r)
    BY <1>1, <1>4, <2>1, <2>6, <2>7, <2>8 DEF Settles
  <2>10. RequestInv(r)'
    BY <1>1, <1>2, <2>1, <2>5 DEF RequestInv, Control, Drafted, Current
  <2>. QED  BY <2>2, <2>3, <2>4, <2>9, <2>10, StepKeeps
<1>5. CASE DeleteCollection(r)
  BY <1>4, <1>5 DEF DeleteCollection, At
<1>6. CASE DeleteItem(r)
  <2>1. KeyOf(r) \in Geometry
    BY <1>1, <1>2, <1>6, OpTypes DEF DeleteItem, At, RequestInv, Control, Kind, KeyOf
  <2>2. CASE Stored(KeyOf(r))
    BY <1>4, <1>6, <2>1, <2>2 DEF DeleteItem, At
  <2>3. CASE ~Stored(KeyOf(r))
    BY <1>3, <1>6, <2>3 DEF DeleteItem, history
  <2>. QED  BY <2>2, <2>3
<1>. QED  BY <1>5, <1>6

LEMMA PostItemKeeps ==
  ASSUME StoreInv, NEW r \in Request, PostItem(r)
  PROVE  Kept(r)
<1>. DEFINE k == KeyOf(r)  new == RowOf(r, None, Trip, {op[r].t})
<1>1. /\ pc[r] = "first" /\ Kind(r) = "postItem"
      /\ UNCHANGED <<coll, locked, op, done, column, since, unpurged>>
  BY DEF PostItem, At, locals, history
<1>2. TypeInv /\ RequestInv(r) /\ RowInv
  BY DEF StoreInv
<1>3. k \in Geometry /\ k \in Key /\ k \notin Property /\ op[r].t \in Time
  BY <1>1, <1>2, OpTypes, Keys DEF RequestInv, Control, Kind, KeyOf
<1>4. CASE Answer(r, "400") /\ UNCHANGED row
  BY <1>1, <1>4, RefusalKeeps DEF Codes, Code
<1>5. CASE coll /\ ~Stored(k) /\ Answer(r, "201") /\ Put(k, new)
  <2>1. new \in Row
    BY <1>3 DEF RowOf, Row, Column
  <2>2. row' \in [Key -> Row \cup {None}] /\ row' = [row EXCEPT ![k] = new]
    BY <1>2, <1>3, <1>5, <2>1 DEF TypeInv, Put
  <2>3. \A j \in Key : j # k => row'[j] = row[j]
    BY <1>2, <2>2 DEF TypeInv
  <2>4. \A j \in Property : j \in Key /\ row'[j] = row[j]
    BY <1>3, <2>3, Keys
  <2>5. OldProperties /\ StraysAre(r)
    BY <2>4 DEF OldProperties, StraysAre, Stray, Stored
  <2>6. Reshapes(r)
    BY <1>1, <1>3, <1>5, <2>3 DEF Reshapes, Same, Created
  <2>7. Settles(r)
    <3>1. \A j \in Geometry : j \in Key
      BY Keys
    <3>2. \A j \in Geometry : Stored(j) => Stored(j)'
      BY <1>5, <2>3, <3>1 DEF Stored
    <3>. QED  BY <1>1, <1>5, <3>2 DEF Settles
  <2>. QED  BY <1>1, <1>2, <1>5, <2>2, <2>5, <2>6, <2>7, WriteKeeps DEF Codes, Code, TypeInv
<1>. QED  BY <1>4, <1>5 DEF PostItem

\* The members of a stored row in one column are replaced.
LEMMA PutMembersTypes ==
  ASSUME StoreInv, NEW r \in Request, NEW k, k = KeyOf(r), k \in Key, Stored(k),
         ColumnOf(r) \in Column, NEW times \in SUBSET Time, PutMembers(r, times)
  PROVE  /\ row' \in [Key -> Row \cup {None}]
         /\ \A j \in Key : j # k => row'[j] = row[j]
         /\ Stored(k)' /\ row'[k].by = row[k].by /\ row'[k].type = row[k].type
         /\ row'[k].vals = {v \in row[k].vals : v[1] # ColumnOf(r)} \cup ({ColumnOf(r)} \X times)
         /\ row[k] \in Row
<1>. DEFINE new == {v \in row[k].vals : v[1] # ColumnOf(r)} \cup ({ColumnOf(r)} \X times)
            rec == [row[k] EXCEPT !.vals = new]
<1>1. row \in [Key -> Row \cup {None}] /\ row[k] \in Row
  BY DEF StoreInv, TypeInv, Stored
<1>2. row' = [row EXCEPT ![k] = rec]
  BY <1>1 DEF PutMembers
<1>3. new \in SUBSET (Column \X Time)
  BY <1>1 DEF Row
<1>. HIDE DEF new
<1>4. rec \in Row /\ rec.by = row[k].by /\ rec.type = row[k].type /\ rec.vals = new
  BY <1>1, <1>3 DEF Row
<1>. HIDE DEF rec
<1>5. /\ row' \in [Key -> Row \cup {None}] /\ row'[k] = rec
      /\ \A j \in Key : j # k => row'[j] = row[j]
  BY <1>1, <1>2, <1>4
<1>6. rec # None
  BY <1>4, StoreAssumption DEF StoreAssumption
<1>. QED  BY <1>1, <1>4, <1>5, <1>6 DEF Stored, new

\* A statement that replaces members: no row comes or goes.
LEMMA PutMembersKeeps ==
  ASSUME StoreInv, NEW r \in Request, pc[r] \in {"first", "update"}, NEW k, k = KeyOf(r),
         k \in Key, Stored(k), ColumnOf(r) \in Column, NEW times \in SUBSET Time,
         PutMembers(r, times), NEW code \in Codes, Answer(r, code),
         UNCHANGED <<coll, locked, op, done, column>>,
         since' \in [Request -> SUBSET {"remove", "append", "failure"}],
         \A q \in Request : since[q] \subseteq since'[q],
         UNCHANGED unpurged,
         Overtaken(k) \/ Extended(k), StraysAre(r)
  PROVE  Kept(r)
<1>1. /\ row' \in [Key -> Row \cup {None}]
      /\ \A j \in Key : j # k => row'[j] = row[j]
      /\ Stored(k)' /\ row'[k].by = row[k].by /\ row'[k].type = row[k].type
  BY PutMembersTypes
<1>2. \A j \in Geometry \cup Property : j \in Key
  BY Keys
<1>3. OldProperties
  BY <1>1, <1>2 DEF OldProperties, Stored
<1>4. Reshapes(r)
  BY <1>1 DEF Reshapes, Same
<1>5. \A j \in Geometry : Stored(j)' <=> Stored(j)
  BY <1>1, <1>2 DEF Stored
<1>6. Settles(r)
  BY <1>5 DEF Settles, StoreInv, RowInv
<1>. QED  BY <1>1, <1>3, <1>4, <1>6, WriteKeeps DEF StoreInv, TypeInv

LEMMA PutItemKeeps ==
  ASSUME StoreInv, NEW r \in Request, PutItem(r)
  PROVE  Kept(r)
<1>. SUFFICES ASSUME NEW k, k = KeyOf(r) PROVE Kept(r)
  OBVIOUS
<1>1. /\ pc[r] = "first" /\ Kind(r) = "putItem"
      /\ UNCHANGED <<coll, locked, op, done, column>>
  BY DEF PutItem, At, locals
<1>2. TypeInv /\ RequestInv(r)
  BY DEF StoreInv
<1>3. k \in Geometry /\ k \in Key /\ k \notin Property /\ op[r].t \in Time
  BY <1>1, <1>2, OpTypes, Keys DEF RequestInv, Control, Kind, KeyOf
<1>4. CASE ~Stored(k)
  <2>1. \E code \in {"400", "404"} : Answer(r, code)
    BY <1>4 DEF PutItem, NotFound
  <2>. QED  BY <1>1, <1>4, <2>1, RefusalKeeps DEF PutItem, history, Codes, Code
<1>5. CASE Stored(k)
  <2>1. Answer(r, "200") /\ PutMembers(r, {op[r].t}) /\ Overtake({k})
    BY <1>5 DEF PutItem
  <2>2. ColumnOf(r) \in Column
    BY <1>3 DEF ColumnOf, Column
  <2>3. /\ \A j \in Key : j # k => row'[j] = row[j]
        /\ Stored(k)'
    <3>1. {op[r].t} \in SUBSET Time
      BY <1>3
    <3>. QED  BY <1>3, <1>5, <2>1, <2>2, <3>1, PutMembersTypes
  <2>4. StraysAre(r)
    BY <1>3, <2>3, Keys DEF StraysAre, Stray, Stored
  <2>5. Overtaken(k)
    BY <1>2, <1>5, <2>1, OvertakeTypes DEF Overtaken
  <2>6. {op[r].t} \in SUBSET Time /\ "200" \in Codes
    BY <1>3 DEF Codes, Code
  <2>. QED
    BY <1>1, <1>2, <1>3, <1>5, <2>1, <2>2, <2>4, <2>5, <2>6, OvertakeTypes, PutMembersKeeps
<1>. QED  BY <1>4, <1>5

LEMMA AppendValueKeeps ==
  ASSUME StoreInv, NEW r \in Request, AppendValue(r)
  PROVE  Kept(r)
<1>. SUFFICES ASSUME NEW k, k = KeyOf(r) PROVE Kept(r)
  OBVIOUS
<1>. DEFINE c == ColumnOf(r)  times == Members(r) \cup {op[r].t}
<1>1. /\ pc[r] \in {"first", "update"} /\ Kind(r) = "append"
      /\ pc[r] = "first" => k \in Geometry
      /\ UNCHANGED <<coll, locked, op, done, column>>
  BY DEF AppendValue, At, locals
<1>2. TypeInv /\ RequestInv(r)
  BY DEF StoreInv
<1>3. k \in Key /\ op[r].t \in Time /\ (pc[r] = "update" => k \in Property)
  BY <1>1, <1>2, OpTypes DEF RequestInv, Control, Kind, KeyOf
<1>4. CASE /\ \E code \in {"400", "404", "409"} : Answer(r, code)
           /\ UNCHANGED <<row, since, unpurged>>
  BY <1>1, <1>4, RefusalKeeps DEF Codes, Code
<1>5. CASE Stored(k) /\ Answer(r, "201") /\ PutMembers(r, times) /\ Extend(k)
  <2>1. c \in Column
    BY <1>1, <1>2 DEF RequestInv, Control, ColumnOf, Column
  <2>2. times \in SUBSET Time
    BY <1>3 DEF Members, In
  <2>3. /\ \A j \in Key : j # k => row'[j] = row[j]
        /\ Stored(k)' /\ row'[k].type = row[k].type
        /\ row'[k].vals = {v \in row[k].vals : v[1] # c} \cup ({c} \X times)
        /\ row[k] \in Row
    BY <1>3, <1>5, <2>1, <2>2, PutMembersTypes
  <2>4. Extended(k)
    <3>1. \A v \in row[k].vals : v = <<v[1], v[2]>> /\ v[2] \in Time
      BY <2>3 DEF Row
    <3>2. \A v \in row[k].vals : v[1] = c => v[2] \in Members(r)
      BY <3>1 DEF Members, In
    <3>3. \A v \in row[k].vals : v \in row'[k].vals
      BY <2>3, <3>1, <3>2
    <3>4. \A q \in Request :
              pc[q] \in Midway /\ Kind(q) \in Reads /\ KeyOf(q) = k => "append" \in since'[q]
      BY <1>2, <1>5 DEF Extend, TypeInv
    <3>. QED  BY <1>5, <2>3, <3>3, <3>4 DEF Extended
  <2>5. /\ since' \in [Request -> SUBSET {"remove", "append", "failure"}]
        /\ \A q \in Request : since[q] \subseteq since'[q]
        /\ UNCHANGED unpurged
    BY <1>2, <1>5 DEF Extend, TypeInv
  <2>6. StraysAre(r)
    <3>1. SUFFICES ASSUME NEW j \in Property, Stray(j)', ~Stray(j)
                   PROVE  /\ answer'[r] = "201" /\ "remove" \in since'[r]
                          /\ Kind(r)' = "append" /\ KeyOf(r)' = j
      BY DEF StraysAre
    <3>2. j = k
      BY <2>3, <3>1, Keys DEF Stray, Stored
    <3>3. pc[r] = "update"
      BY <1>1, <3>2, Keys
    <3>4. PICK v \in row'[k].vals : OgcToken(v[1]) # row[k].type
      BY <2>3, <3>1, <3>2 DEF Stray
    <3>5. v \notin row[k].vals
      BY <1>5, <3>1, <3>2, <3>4 DEF Stray
    <3>6. v[1] = c /\ c = column[r]
      BY <2>3, <3>2, <3>4, <3>5, Keys DEF ColumnOf
    <3>7. "remove" \in since[r]
      BY <1>1, <1>2, <3>3, <3>4, <3>6 DEF RequestInv, Current
    <3>8. answer'[r] = "201"
      BY <1>2, <1>5 DEF Answer, TypeInv
    <3>. QED  BY <1>1, <2>5, <3>2, <3>7, <3>8 DEF Kind, KeyOf
  <2>7. "201" \in Codes
    BY DEF Codes, Code
  <2>. HIDE DEF times
  <2>. QED
    BY <1>1, <1>3, <1>5, <2>1, <2>2, <2>4, <2>5, <2>6, <2>7, PutMembersKeeps
<1>. QED
  <2>1. \/ /\ \E code \in {"400", "404", "409"} : Answer(r, code)
           /\ UNCHANGED <<row, since, unpurged>>
        \/ Stored(k) /\ Answer(r, "201") /\ PutMembers(r, times) /\ Extend(k)
    BY DEF AppendValue, NotFound, history
  <2>. QED  BY <1>4, <1>5, <2>1

LEMMA DeleteValueKeeps ==
  ASSUME StoreInv, NEW r \in Request, DeleteValue(r)
  PROVE  Kept(r)
<1>. SUFFICES ASSUME NEW k, k = KeyOf(r) PROVE Kept(r)
  OBVIOUS
<1>. DEFINE c == ColumnOf(r)  times == Without(Members(r), op[r].n)
<1>1. /\ pc[r] = "update" /\ Kind(r) = "deleteValue"
      /\ UNCHANGED <<coll, locked, op, done, column>>
  BY DEF DeleteValue, At, locals
<1>2. TypeInv /\ RequestInv(r)
  BY DEF StoreInv
<1>3. k \in Key
  BY <1>1, <1>2, OpTypes DEF RequestInv, Control, Kind, KeyOf
<1>4. PICK code \in {"400", "204"} : Answer(r, code)
  BY DEF DeleteValue
<1>5. code \in Codes
  BY DEF Codes, Code
<1>6. CASE ~Stored(k)
  BY <1>1, <1>4, <1>5, <1>6, RefusalKeeps DEF DeleteValue, history
<1>7. CASE Stored(k)
  <2>1. PutMembers(r, times) /\ Overtake({k})
    BY <1>7 DEF DeleteValue
  <2>2. c \in Column
    BY <1>1, <1>2 DEF RequestInv, Control
  <2>3. times \subseteq Members(r) /\ Members(r) \subseteq Time
    BY DEF Without, SequenceN, Members, In
  <2>4. /\ \A j \in Key : j # k => row'[j] = row[j]
        /\ Stored(k)' /\ row'[k].type = row[k].type
        /\ row'[k].vals = {v \in row[k].vals : v[1] # c} \cup ({c} \X times)
    <3>. HIDE DEF times
    <3>. QED  BY <1>3, <1>7, <2>1, <2>2, <2>3, PutMembersTypes
  <2>5. row'[k].vals \subseteq row[k].vals
    <3>1. \A t \in times : <<c, t>> \in row[k].vals
      BY <2>3 DEF Members, In
    <3>. HIDE DEF times
    <3>. QED  BY <2>4, <3>1
  <2>6. StraysAre(r)
    <3>1. SUFFICES ASSUME NEW j \in Property, Stray(j)' PROVE Stray(j)
      BY DEF StraysAre
    <3>2. CASE j = k
      BY <1>7, <2>4, <2>5, <3>1, <3>2 DEF Stray
    <3>3. CASE j # k
      BY <2>4, <3>1, <3>3, Keys DEF Stray, Stored
    <3>. QED  BY <3>2, <3>3
  <2>7. Overtaken(k)
    BY <1>2, <1>7, <2>1, OvertakeTypes DEF Overtaken
  <2>. HIDE DEF times
  <2>. QED
    BY <1>1, <1>2, <1>3, <1>4, <1>5, <1>7, <2>1, <2>2, <2>3, <2>6, <2>7, OvertakeTypes, PutMembersKeeps
<1>. QED  BY <1>6, <1>7

\* The properties of a POST appear, and its lock is released.
LEMMA CommitPropertiesKeeps ==
  ASSUME StoreInv, NEW r \in Request, CommitProperties(r)
  PROVE  /\ StoreInv' /\ Acts(r) /\ Reshapes(r)
         /\ Kind(r) = "postTProperties" /\ answer'[r] = "201"
         /\ done[r] = op[r].names
         /\ \A k \in Key : IF k \in {KeyOf(r)[1]} \X Range(done[r])
                           THEN k \in Property /\ ~Stored(k) /\ Stored(k)' /\ row'[k].by = r
                           ELSE row'[k] = row[k]
<1>. DEFINE f == KeyOf(r)[1]  d == done[r]  new == NewProperty(r)
<1>1. /\ pc[r] = "insert" /\ ~(Len(d) < Len(op[r].names))
      /\ locked' = None /\ Answer(r, "201")
      /\ UNCHANGED <<coll, op, done, column, since, unpurged>>
  BY DEF CommitProperties, Inserting, locals, history
<1>2. TypeInv /\ RequestInv(r) /\ RowInv
  BY DEF StoreInv
<1>3. /\ Kind(r) = "postTProperties" /\ op[r] \in Op /\ locked = r /\ None \notin Request
      /\ coll /\ (Stored(KeyOf(r)) \/ "remove" \in since[r])
  BY <1>1, <1>2, StoreAssumption DEF RequestInv, Control, Current, StoreAssumption
<1>4. /\ KeyOf(r) \in Geometry /\ op[r].names \in Seq(Name)
      /\ op[r].type \in DOMAIN TPropTokens /\ op[r].t \in Time
  BY <1>3, OpTypes DEF Kind, KeyOf
<1>5. f \in Feature /\ KeyOf(r) = <<f, Trip>>
  BY <1>4, Keys
<1>6. d = op[r].names
  <2>1. /\ d \in Seq(Name) /\ Len(d) \in Nat /\ Len(op[r].names) \in Nat
        /\ Len(d) <= Len(op[r].names)
        /\ \A i \in 1..Len(d) : d[i] = op[r].names[i]
    BY <1>1, <1>2, <1>4, LenProperties DEF RequestInv, Drafted, TypeInv
  <2>2. Len(d) = Len(op[r].names)
    BY <1>1, <2>1
  <2>. QED  BY <1>4, <2>1, <2>2, SeqEqual
<1>7. \A n \in Range(d) : n \in Name /\ <<f, n>> \in Property /\ ~Stored(<<f, n>>)
  <2>1. \A i \in 1..Len(d) : d[i] \in Name /\ ~Stored(<<f, d[i]>>)
    BY <1>1, <1>2, ElementOfSeq DEF RequestInv, Drafted, TypeInv
  <2>2. DOMAIN d = 1..Len(d)
    BY <1>4, <1>6, LenProperties
  <2>. QED  BY <1>5, <2>1, <2>2, Keys DEF Range
<1>8. new \in Row /\ new.by = r /\ new.type \in OgcTokens /\ new # None
      /\ \A v \in new.vals : OgcToken(v[1]) = new.type
  <2>. DEFINE c == TPropType(op[r].type)
  <2>1. c \in ScalarTemporalTypes
    BY <1>4, TokensNameTypes
  <2>. HIDE DEF c
  <2>2. OgcToken(c) \in OgcTokens /\ c \in Column
    BY <2>1 DEF OgcTokens, Column
  <2>3. RowOf(r, OgcToken(c), c, {op[r].t}) \in Row
    BY <1>4, <2>2 DEF RowOf, Row
  <2>4. new = RowOf(r, OgcToken(c), c, {op[r].t})
    BY DEF NewProperty, c
  <2>. HIDE DEF new
  <2>. QED  BY <2>2, <2>3, <2>4, StoreAssumption DEF RowOf, StoreAssumption
<1>. HIDE DEF new
<1>9. row' = [k \in Key |-> IF k[1] = f /\ k[2] \in Range(d) THEN new ELSE row[k]]
  BY DEF CommitProperties, new
<1>10. \A k \in Key : k[1] = f /\ k[2] \in Range(d) => k \in {f} \X Range(d) /\ k \in Property
  <2>1. SUFFICES ASSUME NEW k \in Key, k[1] = f, k[2] \in Range(d)
                 PROVE  k \in {f} \X Range(d) /\ k \in Property
    OBVIOUS
  <2>2. k \notin Geometry
    BY <1>7, <2>1, StoreAssumption DEF Geometry, StoreAssumption
  <2>3. k \in Property
    BY <2>1, <2>2, Keys
  <2>. QED  BY <2>1, <2>3, Keys
<1>. DEFINE Added == {f} \X Range(d)
<1>11. /\ row' \in [Key -> Row \cup {None}]
       /\ \A k \in Key : IF k \in Added THEN k \in Property /\ ~Stored(k) /\ row'[k] = new
                                        ELSE row'[k] = row[k]
  <2>1. row' \in [Key -> Row \cup {None}]
    BY <1>2, <1>8, <1>9 DEF TypeInv
  <2>2. \A k \in Key : k \in Added => k[1] = f /\ k[2] \in Range(d) /\ k = <<f, k[2]>>
    OBVIOUS
  <2>. QED  BY <1>7, <1>9, <1>10, <2>1, <2>2
<1>. HIDE DEF Added
<1>12. TypeInv'
  BY <1>1, <1>2, <1>11, AnswerTypes DEF TypeInv, Codes, Code
<1>13. /\ pc'[r] = "answered" /\ answer'[r] = "201"
       /\ \A q \in Request \ {r} : pc'[q] = pc[q] /\ answer'[q] = answer[q]
  BY <1>1, AnswerTypes DEF Codes, Code
<1>14. Acts(r)
  BY <1>1, <1>3, <1>13 DEF Acts
<1>15. Reshapes(r)
  BY <1>1, <1>3, <1>11 DEF Reshapes, Same, Created
<1>16. RequestInv(r)'
  BY <1>1, <1>3, <1>12, <1>13, AnsweredInv
<1>17. \A k \in Property : k \in Key
  BY Keys
<1>18. \A k \in Geometry : k \in Key /\ row'[k] = row[k]
  BY <1>11, Keys
<1>19. Kind(r)' = Kind(r) /\ KeyOf(r)' = KeyOf(r)
  BY <1>1 DEF Kind, KeyOf
<1>20. Settles(r)
  BY <1>1, <1>2, <1>18 DEF Settles, Stored, RowInv
<1>21. RowInv'
  <2>1. \A k \in Geometry : Stored(k)' => coll'
    BY <1>20 DEF Settles
  <2>2. ASSUME NEW k \in Property, Stored(k)'
        PROVE  /\ row'[k].type \in OgcTokens
               /\ row'[k].by \in Request => pc'[row'[k].by] = "answered"
    <3>1. CASE k \in Added
      BY <1>8, <1>11, <1>13, <1>17, <3>1
    <3>2. CASE k \notin Added
      <4>1. row'[k] = row[k]
        BY <1>11, <1>17, <3>2
      <4>. QED  BY <1>2, <1>13, <2>2, <4>1 DEF RowInv, Stored
    <3>. QED  BY <3>1, <3>2
  <2>. QED  BY <2>1, <2>2 DEF RowInv, Stored
<1>22. OrphansComeFromRaces'
  <2>1. SUFFICES ASSUME ~unpurged', NEW k \in Property, Orphan(k)'
                 PROVE  \/ PurgePending(k)'
                        \/ row'[k].by \in Request /\ "remove" \in since'[row'[k].by]
    BY DEF OrphansComeFromRaces
  <2>2. Stored(k)' /\ ~Stored(<<k[1], Trip>>)
    BY <1>18, <2>1, Keys DEF Orphan, Stored
  <2>3. CASE k \in Added
    <3>1. k[1] = f /\ row'[k].by = r
      BY <1>8, <1>11, <1>17, <2>3 DEF Added
    <3>. QED  BY <1>1, <1>3, <1>5, <2>2, <3>1
  <2>4. CASE k \notin Added
    <3>1. row'[k] = row[k]
      BY <1>11, <1>17, <2>4
    <3>2. Orphan(k) /\ ~unpurged
      BY <1>1, <2>1, <2>2, <3>1 DEF Orphan, Stored
    <3>3. \/ PurgePending(k)
          \/ row[k].by \in Request /\ "remove" \in since[row[k].by]
      BY <3>2 DEF StoreInv, OrphansComeFromRaces
    <3>. QED  BY <1>1, <1>14, <1>20, <2>1, <2>2, <3>1, <3>3, PurgeStaysPending
  <2>. QED  BY <2>3, <2>4
<1>23. DroppedLeavesNothing'
  BY <1>1, <1>3 DEF DroppedLeavesNothing
<1>24. StraysComeFromRaces'
  <2>1. SUFFICES ASSUME NEW k \in Property, Stray(k)'
                 PROVE  \E q \in Request : /\ answer'[q] = "201" /\ "remove" \in since'[q]
                                           /\ Kind(q)' = "append" /\ KeyOf(q)' = k
    BY DEF StraysComeFromRaces
  <2>2. k \notin Added
    BY <1>8, <1>11, <1>17, <2>1 DEF Stray
  <2>3. Stray(k)
    BY <1>11, <1>17, <2>1, <2>2 DEF Stray, Stored
  <2>4. PICK q \in Request : /\ answer[q] = "201" /\ "remove" \in since[q]
                             /\ Kind(q) = "append" /\ KeyOf(q) = k
    BY <2>3 DEF StoreInv, StraysComeFromRaces
  <2>5. q # r
    BY <1>3, <2>4
  <2>. QED  BY <1>1, <1>13, <2>4, <2>5 DEF Kind, KeyOf
<1>25. \A q \in Request : RequestInv(q)'
  BY <1>12, <1>14, <1>15, <1>16, OthersKeep
<1>. QED
  BY <1>3, <1>6, <1>8, <1>11, <1>12, <1>13, <1>14, <1>15, <1>21, <1>22, <1>23, <1>24, <1>25
     DEF StoreInv, Stored, Added

-----------------------------------------------------------------------------
(* The invariant, and what follows from it                                 *)

LEMMA StoreInitInv == StoreInit => StoreInv
<1>. SUFFICES ASSUME StoreInit PROVE StoreInv
  OBVIOUS
<1>1. PICK stored \in SUBSET Key :
         /\ \A k \in stored : <<k[1], Trip>> \in stored
         /\ row = [k \in Key |-> IF k \in stored THEN StoredRow(k) ELSE None]
  BY DEF StoreInit
<1>2. "treal" \in OgcTokens /\ "tfloat" \in ScalarTemporalTypes /\ OgcToken("tfloat") = "treal"
  BY ScalarTypes DEF OgcTokens
<1>3. RowOf(None, None, Trip, StoredTimes) \in Row /\ RowOf(None, "treal", "tfloat", StoredTimes) \in Row
  BY <1>2, StoreAssumption DEF StoreAssumption, RowOf, Row, Column
<1>4. \A k \in Key :
         /\ k \notin stored => row[k] = None
         /\ k \in stored /\ k \in Geometry => row[k] = RowOf(None, None, Trip, StoredTimes)
         /\ k \in stored /\ k \notin Geometry => row[k] = RowOf(None, "treal", "tfloat", StoredTimes)
  BY <1>1 DEF StoredRow
<1>5. row \in [Key -> Row \cup {None}]
  <2>1. \A k \in Key : row[k] \in Row \cup {None}
    BY <1>3, <1>4
  <2>. QED  BY <1>1, <2>1
<1>6. None \notin Row /\ None \notin Request
  BY StoreAssumption DEF StoreAssumption
<1>7. \A k \in Key : Stored(k) <=> k \in stored
  BY <1>3, <1>4, <1>6 DEF Stored
<1>8. TypeInv
  <2>1. <<>> \in Seq(Name)
    BY EmptySeq
  <2>2. "idle" \in Steps /\ None \in Codes
    BY DEF Steps, Codes, Code
  <2>. QED  BY <1>5, <2>1, <2>2 DEF StoreInit, TypeInv
<1>9. \A k \in Property : k \in Key /\ k \notin Geometry
  BY Keys
<1>10. \A k \in Property : Stored(k) =>
          row[k].by = None /\ row[k].type = "treal" /\ row[k].vals = {"tfloat"} \X StoredTimes
  BY <1>4, <1>7, <1>9 DEF RowOf
<1>11. RowInv
  BY <1>2, <1>6, <1>10 DEF RowInv, StoreInit
<1>12. \A r \in Request : RequestInv(r)
  BY <1>6 DEF StoreInit, RequestInv, Control, Drafted, Current
<1>13. \A k \in Property : ~Orphan(k)
  <2>1. \A k \in Property : <<k[1], Trip>> \in Key
    BY Keys
  <2>. QED  BY <1>1, <1>7, <1>9, <2>1 DEF Orphan
<1>14. \A k \in Property : ~Stray(k)
  BY <1>2, <1>10 DEF Stray
<1>. QED
  BY <1>8, <1>11, <1>12, <1>13, <1>14
     DEF StoreInv, OrphansComeFromRaces, DroppedLeavesNothing, StraysComeFromRaces, StoreInit

\* Of every statement but the last one of a POST of properties.
LEMMA StatementKeeps ==
  ASSUME StoreInv, NEW r \in Request,
         Start(r) \/ Statement(r) \/ Fail(r) \/ PurgeFails(r) \/ MemberFails(r),
         ~CommitProperties(r)
  PROVE  Kept(r)
BY PostCollectionKeeps, EndsKeep, DeletesKeep, PostItemKeeps, PutItemKeeps, PurgeKeeps, LookupKeeps,
   EnsureTableKeeps, InsertKeeps, ReadTypeKeeps, AppendValueKeeps, DeleteTPropertyKeeps,
   CountValuesKeeps, DeleteValueKeeps, ReadersKeep, StartKeeps
   DEF Statement

LEMMA StoreNextInv == StoreInv /\ [StoreNext]_storeVars => StoreInv'
<1>1. ASSUME StoreInv, UNCHANGED storeVars PROVE StoreInv'
  <2>1. UNCHANGED <<coll, row, locked, op, pc, done, column, answer, since, unpurged>>
    BY <1>1 DEF storeVars, storeRows, locals, history
  <2>2. TypeInv' /\ RowInv'
    BY <1>1, <2>1 DEF StoreInv, TypeInv, RowInv, Stored
  <2>3. ASSUME NEW r \in Request PROVE RequestInv(r)'
    <3>1. RequestInv(r)
      BY <1>1 DEF StoreInv
    <3>2. /\ Kind(r)' = Kind(r) /\ KeyOf(r)' = KeyOf(r) /\ ColumnOf(r)' = ColumnOf(r)
          /\ Members(r)' = Members(r)
      BY <2>1 DEF Kind, KeyOf, ColumnOf, Members, In
    <3>3. Control(r)'
      BY <2>1, <3>1, <3>2 DEF RequestInv, Control
    <3>4. Drafted(r)'
      BY <2>1, <3>1, <3>2 DEF RequestInv, Drafted, Stored
    <3>5. Current(r)'
      BY <2>1, <3>1, <3>2 DEF RequestInv, Current, Stored
    <3>. QED  BY <3>3, <3>4, <3>5 DEF RequestInv
  <2>4. OrphansComeFromRaces' /\ DroppedLeavesNothing' /\ StraysComeFromRaces'
    BY <1>1, <2>1
       DEF StoreInv, OrphansComeFromRaces, DroppedLeavesNothing, StraysComeFromRaces, Orphan, Stray,
           Stored, PurgePending, Purged, PropertiesOf, Kind, KeyOf
  <2>. QED  BY <2>2, <2>3, <2>4 DEF StoreInv
<1>2. ASSUME StoreInv, NEW r \in Request,
             Start(r) \/ Statement(r) \/ Fail(r) \/ PurgeFails(r) \/ MemberFails(r)
      PROVE  StoreInv'
  BY <1>2, CommitPropertiesKeeps, StatementKeeps DEF Kept
<1>. QED  BY <1>1, <1>2 DEF StoreNext, StoreDone

LEMMA StoreInvariant == StoreSafetySpec => []StoreInv
BY StoreInitInv, StoreNextInv, PTL DEF StoreSafetySpec

\* deleteCollection leaves no property behind: what is left of a dropped collection is about
\* to be purged, unless a purge failed.
THEOREM StoreDroppedLeavesNothing == StoreSafetySpec => []DroppedLeavesNothing
<1>1. StoreInv => DroppedLeavesNothing
  BY DEF StoreInv
<1>. QED  BY <1>1, StoreInvariant, PTL

\* deleteItem leaves properties behind only of a postTProperties that had looked the feature
\* up before it was deleted, or of a purge that failed.
THEOREM StoreOrphansComeFromRaces == StoreSafetySpec => []OrphansComeFromRaces
<1>1. StoreInv => OrphansComeFromRaces
  BY DEF StoreInv
<1>. QED  BY <1>1, StoreInvariant, PTL

\* postTPropertyValues puts a value in the column of another type only when the property was
\* removed after it had read its type.
THEOREM StoreStraysComeFromRaces == StoreSafetySpec => []StraysComeFromRaces
<1>1. StoreInv => StraysComeFromRaces
  BY DEF StoreInv
<1>. QED  BY <1>1, StoreInvariant, PTL

\* The properties of one postTProperties appear together, when it is answered, or not at all.
THEOREM StorePostedTogether == StoreSafetySpec => PostedTogether
<1>. DEFINE Together(r) ==
               PostedBy(r)' \subseteq PostedBy(r)
                 \/ /\ PostedBy(r) = {} /\ answer'[r] = "201"
                    /\ PostedBy(r)' = {KeyOf(r)[1]} \X Range(op[r].names)
<1>1. ASSUME OldProperties, NEW r \in Request PROVE Together(r)
  BY <1>1 DEF OldProperties, PostedBy, Stored
<1>2. ASSUME StoreInv, NEW q \in Request, CommitProperties(q), NEW r \in Request PROVE Together(r)
  <2>. DEFINE Added == {KeyOf(q)[1]} \X Range(done[q])
  <2>1. /\ answer'[q] = "201" /\ done[q] = op[q].names
        /\ \A k \in Key : IF k \in Added
                          THEN k \in Property /\ ~Stored(k) /\ Stored(k)' /\ row'[k].by = q
                          ELSE row'[k] = row[k]
    BY <1>2, CommitPropertiesKeeps
  <2>2. \A k \in Property : k \in Key
    BY Keys
  <2>3. CASE r # q
    <3>1. \A k \in Property : Stored(k)' /\ row'[k].by = r => row'[k] = row[k]
      BY <2>1, <2>2, <2>3
    <3>. QED  BY <3>1 DEF PostedBy, Stored
  <2>4. CASE r = q
    <3>1. PostedBy(r) = {}
      <4>1. pc[r] = "insert"
        BY <1>2, <2>4 DEF CommitProperties
      <4>. QED  BY <1>2, <4>1 DEF StoreInv, RowInv, PostedBy
    <3>2. Added \subseteq Key
      <4>1. KeyOf(q)[1] \in Feature /\ op[q].names \in Seq(Name)
        <5>1. op[q] \in Op /\ Kind(q) = "postTProperties"
          BY <1>2 DEF StoreInv, RequestInv, Control, CommitProperties
        <5>. QED  BY <5>1, OpTypes, Keys DEF Kind, KeyOf
      <4>2. \A n \in Range(done[q]) : n \in Name
        BY <2>1, <4>1, LenProperties, ElementOfSeq DEF Range
      <4>. QED  BY <2>2, <4>1, <4>2, Keys
    <3>3. \A k \in Property : Stored(k)' /\ row'[k].by = r <=> k \in Added
      <4>1. SUFFICES ASSUME NEW k \in Property, k \notin Added PROVE ~(Stored(k)' /\ row'[k].by = r)
        BY <2>1, <2>2, <2>4
      <4>2. row'[k] = row[k]
        BY <2>1, <2>2, <4>1
      <4>. QED  BY <3>1, <4>2 DEF PostedBy, Stored
    <3>4. Added \subseteq Property
      BY <2>1, <3>2
    <3>. QED  BY <2>1, <2>4, <3>1, <3>3, <3>4 DEF PostedBy, Stored
  <2>. QED  BY <2>3, <2>4
<1>3. StoreInv /\ [StoreNext]_storeVars => [\A r \in Request : Together(r)]_storeVars
  <2>. SUFFICES ASSUME StoreInv, StoreNext, NEW r \in Request PROVE Together(r) \/ UNCHANGED storeVars
    OBVIOUS
  <2>1. CASE StoreDone
    BY <2>1 DEF StoreDone
  <2>2. ASSUME NEW q \in Request,
               Start(q) \/ Statement(q) \/ Fail(q) \/ PurgeFails(q) \/ MemberFails(q)
        PROVE  Together(r)
    BY <1>1, <1>2, <2>2, StatementKeeps DEF Kept
  <2>. QED  BY <2>1, <2>2 DEF StoreNext
<1>. QED  BY <1>3, StoreInvariant, PTL DEF StoreSafetySpec, PostedTogether

\* A DELETE of a member value that is about to send its UPDATE does that, or fails.
LEMMA OnlyDeleteTakes ==
  ASSUME NEW r \in Request, TypeInv, pc[r] = "update", Kind(r) = "deleteValue", answer'[r] = "204",
         Start(r) \/ Statement(r) \/ Fail(r) \/ PurgeFails(r) \/ MemberFails(r)
  PROVE  DeleteValue(r)
<1>1. ~Fail(r)
  BY DEF Fail, Answer, TypeInv
<1>2. ~(Start(r) \/ PostCollection(r) \/ PutCollection(r) \/ DeleteCollection(r) \/ PostItem(r)
          \/ PutItem(r) \/ DeleteItem(r) \/ Purge(r) \/ PurgeFails(r))
  BY DEF Start, PostCollection, PutCollection, DeleteCollection, PostItem, PutItem, DeleteItem, Purge,
         PurgeFails, At
<1>3. ~(Lookup(r) \/ EnsureTable(r) \/ Insert(r) \/ RefuseDuplicate(r) \/ CommitProperties(r)
          \/ ReadType(r) \/ DeleteTProperty(r))
  BY DEF Lookup, EnsureTable, Insert, RefuseDuplicate, CommitProperties, Inserting, ReadType,
         DeleteTProperty, At
<1>4. ~(AppendValue(r) \/ CountValues(r) \/ FindFeature(r) \/ CountMembers(r) \/ ReadMember(r)
          \/ MemberFails(r) \/ FindMember(r) \/ Fetch(r))
  BY DEF AppendValue, CountValues, Counting, FindFeature, CountMembers, ReadMember, MemberFails,
         FindMember, Fetch, At
<1>. QED  BY <1>1, <1>2, <1>3, <1>4 DEF Statement

\* deleteTgSequence and deleteTPropertyValue take one value and leave the row with another,
\* when nothing was removed between their counting and their UPDATE.
THEOREM StoreUnracedDeleteRemovesOne == StoreSafetySpec => UnracedDeleteRemovesOne
<1>. DEFINE Takes(r) == Deletes(r) /\ "remove" \notin since[r] => LosesOne(KeyOf(r))
<1>1. ASSUME StoreInv, NEW r \in Request, Deletes(r), "remove" \notin since[r], DeleteValue(r)
      PROVE  LosesOne(KeyOf(r))
  <2>. SUFFICES ASSUME NEW k, k = KeyOf(r) PROVE LosesOne(k)
    OBVIOUS
  <2>. DEFINE m == Members(r)  n == op[r].n  c == ColumnOf(r)
  <2>1. pc[r] = "update" /\ Kind(r) = "deleteValue" /\ Stored(k) /\ RequestInv(r)
    BY <1>1 DEF Deletes, At, StoreInv
  <2>2. k \in Key /\ n \in Nat \ {0} /\ c \in Column
    BY <2>1, OpTypes DEF RequestInv, Control, Kind, KeyOf
  <2>3. n <= Cardinality(m) /\ 2 <= Cardinality(m)
    BY <1>1, <2>1 DEF RequestInv, Current
  <2>4. m \in SUBSET Time /\ IsFiniteSet(m) /\ Cardinality(m) \in Nat
    <3>1. m \in SUBSET Time
      BY DEF Members, In
    <3>. QED  BY <3>1, FS_Subset, FS_CardinalityType, StoreAssumption DEF StoreAssumption
  <2>5. PICK t \in m : SequenceN(m, n) = t
    BY <2>2, <2>3, <2>4, OneMember
  <2>6. Without(m, n) = m \ {t}
    BY <2>2, <2>3, <2>4, <2>5 DEF Without
  <2>7. m \ {t} \in SUBSET Time /\ PutMembers(r, m \ {t})
    BY <1>1, <2>1, <2>4, <2>6 DEF DeleteValue
  <2>8. /\ row'[k].vals = {v \in row[k].vals : v[1] # c} \cup ({c} \X (m \ {t}))
        /\ row[k] \in Row
    BY <1>1, <2>1, <2>2, <2>7, PutMembersTypes
  <2>9. /\ \A v \in row[k].vals : v = <<v[1], v[2]>> /\ v[2] \in Time
        /\ \A u \in Time : u \in m <=> <<c, u>> \in row[k].vals
    BY <2>8 DEF Row, Members, In
  <2>10. <<c, t>> \in row[k].vals
    BY <2>4, <2>9
  <2>11. row'[k].vals = row[k].vals \ {<<c, t>>}
    <3>. HIDE DEF m, c
    <3>1. ASSUME NEW v \in row[k].vals, v # <<c, t>> PROVE v \in row'[k].vals
      <4>1. CASE v[1] # c
        BY <2>8, <3>1, <4>1
      <4>2. CASE v[1] = c
        <5>1. v[2] \in m /\ v[2] # t
          BY <2>9, <3>1, <4>2
        <5>. QED  BY <2>8, <2>9, <3>1, <4>2, <5>1
      <4>. QED  BY <4>1, <4>2
    <3>2. ASSUME NEW v \in row'[k].vals PROVE v \in row[k].vals /\ v # <<c, t>>
      <4>1. CASE v \in {w \in row[k].vals : w[1] # c}
        BY <4>1
      <4>2. CASE v \in {c} \X (m \ {t})
        BY <2>4, <2>9, <4>2
      <4>. QED  BY <2>8, <3>2, <4>1, <4>2
    <3>. QED  BY <3>1, <3>2
  <2>12. row'[k].vals # {}
    <3>. HIDE DEF m, c
    <3>1. Cardinality(m \ {t}) = Cardinality(m) - 1
      BY <2>4, <2>5, FS_RemoveElement
    <3>2. m \ {t} # {}
      <4>1. Cardinality({}) = 0
        BY FS_EmptySet
      <4>2. Cardinality(m \ {t}) # 0
        BY <2>3, <2>4, <3>1
      <4>. QED  BY <4>1, <4>2
    <3>3. PICK u \in m \ {t} : TRUE
      BY <3>2
    <3>4. <<c, u>> \in row'[k].vals
      BY <2>8
    <3>. QED  BY <3>4
  <2>. QED  BY <2>10, <2>11, <2>12 DEF LosesOne
<1>2. ASSUME StoreInv, NEW r \in Request, Deletes(r), NEW q \in Request,
             Start(q) \/ Statement(q) \/ Fail(q) \/ PurgeFails(q) \/ MemberFails(q)
      PROVE  DeleteValue(r)
  <2>1. pc[r] = "update" /\ Kind(r) = "deleteValue" /\ answer[r] = None /\ answer'[r] = "204"
    BY <1>2 DEF Deletes, At, StoreInv, RequestInv, Control
  <2>2. None # "204"
    BY StoreAssumption DEF StoreAssumption, Code
  <2>3. Acts(q)
    BY <1>2, CommitPropertiesKeeps, StatementKeeps DEF Kept
  <2>4. q = r
    BY <2>1, <2>2, <2>3 DEF Acts
  <2>. QED  BY <1>2, <2>1, <2>4, OnlyDeleteTakes DEF StoreInv
<1>3. StoreInv /\ [StoreNext]_storeVars => [\A r \in Request : Takes(r)]_storeVars
  <2>. SUFFICES ASSUME StoreInv, StoreNext, NEW r \in Request, Deletes(r), "remove" \notin since[r]
                PROVE  LosesOne(KeyOf(r)) \/ UNCHANGED storeVars
    OBVIOUS
  <2>. QED  BY <1>1, <1>2 DEF StoreNext, StoreDone
<1>. QED  BY <1>3, StoreInvariant, PTL DEF StoreSafetySpec, UnracedDeleteRemovesOne

-----------------------------------------------------------------------------
(* What a request reads and serves                                         *)

\* A row has its values where its kind has them.
Typed(k) ==
    Stored(k) => IF k \in Geometry THEN row[k].type = None /\ row[k].vals \subseteq {Trip} \X Time
                                   ELSE row[k].vals \subseteq ScalarTemporalTypes \X Time

\* What a request keeps of what it was asked and has read.
Asked(r) ==
    /\ op[r] \in Ops[r] \cup {None}
    /\ done[r] # <<>> =>
          /\ Kind(r) = "postTProperties" /\ Len(done[r]) <= Len(op[r].names)
          /\ \A i \in 1..Len(done[r]) : done[r][i] = op[r].names[i]
    /\ pc[r] \in {"count", "update"} /\ KeyOf(r) \in Property => column[r] \in ScalarTemporalTypes

\* Where a request that reads for a client is, and what it has so far.
Reading(r) ==
    /\ pc[r] \notin {"member", "answered"} => seen[r] = <<>>
    /\ pc[r] = "count" => Kind(r) \in {"tgSequence", "deleteValue"}
    /\ pc[r] = "member" => Kind(r) = "tgSequence" /\ Len(seen[r]) < count[r]
    /\ pc[r] = "fetch" => Kind(r) \in {"getTProperty", "tgSequenceQuery"}

\* With no writer in between, it has the first of the members, or the column and the index
\* that are still right.
Unraced(r) ==
    since[r] = {} =>
      /\ pc[r] = "member" =>
            /\ Stored(KeyOf(r)) /\ count[r] = Cardinality(Members(r))
            /\ \A i \in 1..Len(seen[r]) : seen[r][i] = SequenceN(Members(r), i)
      /\ pc[r] = "fetch" =>
            /\ Stored(KeyOf(r))
            /\ Kind(r) = "getTProperty" => column[r] = TypeColumn(KeyOf(r))
            /\ Kind(r) = "tgSequenceQuery" => op[r].n <= Cardinality(Members(r))

Serving(r) == Asked(r) /\ Reading(r) /\ Unraced(r)

Locals == count \in [Request -> 0 .. Cardinality(Time)] /\ seen \in [Request -> Seq(Time)]

ServeInv ==
    /\ StoreInv /\ Locals
    /\ \A k \in Key : Typed(k)
    /\ \A r \in Request : Serving(r)

LEMMA AllKeep ==
  ASSUME StoreInv, NEW r \in Request,
         Start(r) \/ Statement(r) \/ Fail(r) \/ PurgeFails(r) \/ MemberFails(r)
  PROVE  StoreInv' /\ Acts(r) /\ Reshapes(r)
BY CommitPropertiesKeeps, StatementKeeps DEF Kept

\* A request that reads: its row, its column, and the number of its members.
LEMMA ReaderTypes ==
  ASSUME StoreInv, NEW r \in Request, pc[r] # "idle"
  PROVE  /\ op[r] \in Op
         /\ Kind(r) \in Reads => KeyOf(r) \in Key
         /\ Kind(r) \in {"tgSequence", "tgSequenceQuery"} =>
                KeyOf(r) \in Geometry /\ KeyOf(r) \notin Property
                  /\ ColumnOf(r) = Trip /\ TypeColumn(KeyOf(r)) = Trip
         /\ Kind(r) = "getTProperty" =>
                KeyOf(r) \in Property /\ KeyOf(r) \notin Geometry /\ ColumnOf(r) = column[r]
         /\ Kind(r) = "tgSequenceQuery" => op[r].n \in Nat \ {0}
         /\ Members(r) \in SUBSET Time /\ Cardinality(Members(r)) \in 0 .. Cardinality(Time)
<1>1. op[r] \in Op
  BY DEF StoreInv, RequestInv, Control
<1>2. Members(r) \in SUBSET Time
  BY DEF Members, In
<1>3. Cardinality(Members(r)) \in 0 .. Cardinality(Time)
  BY <1>2, FS_Subset, FS_CardinalityType, StoreAssumption DEF StoreAssumption
<1>. QED
  BY <1>1, <1>2, <1>3, OpTypes, Keys DEF Reads, Kind, KeyOf, ColumnOf, TypeColumn

\* What a request has found for a client still holds after a step of another, or since knows.
LEMMA OthersServe ==
  ASSUME ServeInv, NEW r \in Request, Acts(r), Reshapes(r), NEW q \in Request, q # r,
         seen'[q] = seen[q], count'[q] = count[q]
  PROVE  Serving(q)'
<1>1. /\ op'[q] = op[q] /\ pc'[q] = pc[q] /\ done'[q] = done[q] /\ column'[q] = column[q]
      /\ since[q] \subseteq since'[q]
  BY DEF Acts
<1>2. Serving(q)
  BY DEF ServeInv
<1>3. Kind(q)' = Kind(q) /\ KeyOf(q)' = KeyOf(q) /\ ColumnOf(q)' = ColumnOf(q)
  BY <1>1 DEF Kind, KeyOf, ColumnOf
<1>4. Asked(q)' /\ Reading(q)'
  BY <1>1, <1>2, <1>3 DEF Serving, Asked, Reading
<1>5. Unraced(q)'
  <2>1. SUFFICES ASSUME since'[q] = {}, pc[q] \in {"member", "fetch"} PROVE Unraced(q)'
    BY <1>1 DEF Unraced
  <2>2. since[q] = {} /\ pc[q] \in Midway
    BY <1>1, <2>1 DEF Midway
  <2>3. Kind(q) \in Reads /\ Stored(KeyOf(q))
    BY <1>2, <2>1, <2>2 DEF Serving, Reading, Unraced, Reads
  <2>4. KeyOf(q) \in Key
    BY <2>1, <2>3, ReaderTypes DEF ServeInv
  <2>5. row'[KeyOf(q)] = row[KeyOf(q)]
    <3>1. \/ Same(KeyOf(q)) \/ Created(r, KeyOf(q)) \/ Overtaken(KeyOf(q)) \/ Extended(KeyOf(q))
      BY <2>4 DEF Reshapes
    <3>. QED  BY <2>1, <2>2, <2>3, <3>1 DEF Same, Created, Overtaken, Extended
  <2>6. /\ Stored(KeyOf(q))' /\ Members(q)' = Members(q)
        /\ TypeColumn(KeyOf(q))' = TypeColumn(KeyOf(q))
    BY <1>3, <2>3, <2>5 DEF Stored, Members, In, TypeColumn
  <2>. QED  BY <1>1, <1>2, <1>3, <2>1, <2>2, <2>6 DEF Serving, Unraced
<1>. QED  BY <1>4, <1>5 DEF Serving

-----------------------------------------------------------------------------
(* The rows keep their types                                               *)

LEMMA PutMembersTyped ==
  ASSUME ServeInv, NEW r \in Request, NEW k, k = KeyOf(r), k \in Key, Stored(k),
         ColumnOf(r) \in Column, k \in Property => column[r] \in ScalarTemporalTypes,
         NEW times \in SUBSET Time, PutMembers(r, times)
  PROVE  \A j \in Key : Typed(j)'
<1>1. /\ \A j \in Key : j # k => row'[j] = row[j]
      /\ row'[k].type = row[k].type
      /\ row'[k].vals = {v \in row[k].vals : v[1] # ColumnOf(r)} \cup ({ColumnOf(r)} \X times)
  BY PutMembersTypes DEF ServeInv
<1>2. Typed(k)
  BY DEF ServeInv
<1>3. Typed(k)'
  <2>1. CASE k \in Geometry
    BY <1>1, <1>2, <2>1 DEF Typed, ColumnOf
  <2>2. CASE k \notin Geometry
    <3>1. ColumnOf(r) \in ScalarTemporalTypes
      BY <2>2, Keys DEF ColumnOf
    <3>. QED  BY <1>1, <1>2, <2>2, <3>1 DEF Typed
  <2>. QED  BY <2>1, <2>2
<1>4. \A j \in Key : j # k => Typed(j)'
  BY <1>1 DEF ServeInv, Typed, Stored
<1>. QED  BY <1>3, <1>4

LEMMA DropTyped ==
  ASSUME ServeInv, NEW keys, Drop(keys)
  PROVE  \A k \in Key : Typed(k)'
BY DropTypes DEF ServeInv, StoreInv, Typed, Stored

LEMMA RowsStayTyped ==
  ASSUME ServeInv, NEW r \in Request,
         Start(r) \/ Statement(r) \/ Fail(r) \/ PurgeFails(r) \/ MemberFails(r)
  PROVE  \A k \in Key : Typed(k)'
<1>0. StoreInv /\ TypeInv /\ RequestInv(r) /\ Serving(r)
  BY DEF ServeInv, StoreInv
<1>1. CASE UNCHANGED row
  BY <1>1 DEF ServeInv, Typed, Stored
<1>2. CASE \E keys : Drop(keys)
  BY <1>2, DropTyped
<1>3. CASE PutItem(r)
  <2>1. KeyOf(r) \in Geometry /\ KeyOf(r) \in Key /\ KeyOf(r) \notin Property /\ op[r].t \in Time
    BY <1>0, <1>3, OpTypes, Keys DEF PutItem, At, RequestInv, Control, Kind, KeyOf
  <2>2. ColumnOf(r) \in Column /\ {op[r].t} \in SUBSET Time
    BY <2>1 DEF ColumnOf, Column
  <2>. QED  BY <1>1, <1>3, <2>1, <2>2, PutMembersTyped DEF PutItem
<1>4. CASE AppendValue(r)
  <2>1. pc[r] \in {"first", "update"} /\ Kind(r) = "append" /\ (pc[r] = "first" => KeyOf(r) \in Geometry)
    BY <1>4 DEF AppendValue, At
  <2>2. KeyOf(r) \in Key /\ op[r].t \in Time
    BY <1>0, <2>1, OpTypes DEF RequestInv, Control, Kind, KeyOf
  <2>3. ColumnOf(r) \in Column /\ (KeyOf(r) \in Property => column[r] \in ScalarTemporalTypes)
    BY <1>0, <2>1, Keys DEF RequestInv, Control, ColumnOf, Column, Serving, Asked
  <2>4. Members(r) \cup {op[r].t} \in SUBSET Time
    BY <2>2 DEF Members, In
  <2>5. UNCHANGED row \/ (Stored(KeyOf(r)) /\ PutMembers(r, Members(r) \cup {op[r].t}))
    BY <1>4 DEF AppendValue
  <2>. QED  BY <1>1, <2>2, <2>3, <2>4, <2>5, PutMembersTyped
<1>5. CASE DeleteValue(r)
  <2>1. pc[r] = "update" /\ Kind(r) = "deleteValue"
    BY <1>5 DEF DeleteValue, At
  <2>2. KeyOf(r) \in Key
    BY <1>0, <2>1, OpTypes DEF RequestInv, Control, Kind, KeyOf
  <2>3. ColumnOf(r) \in Column /\ (KeyOf(r) \in Property => column[r] \in ScalarTemporalTypes)
    BY <1>0, <2>1 DEF RequestInv, Control, Serving, Asked
  <2>4. Without(Members(r), op[r].n) \in SUBSET Time
    BY DEF Without, Members, In
  <2>5. UNCHANGED row \/ (Stored(KeyOf(r)) /\ PutMembers(r, Without(Members(r), op[r].n)))
    BY <1>5 DEF DeleteValue
  <2>. QED  BY <1>1, <2>2, <2>3, <2>4, <2>5, PutMembersTyped
<1>6. CASE PostItem(r)
  <2>. SUFFICES ASSUME NEW k, k = KeyOf(r), Put(k, RowOf(r, None, Trip, {op[r].t}))
                PROVE  \A j \in Key : Typed(j)'
    BY <1>1, <1>6 DEF PostItem
  <2>1. k \in Geometry /\ k \in Key /\ op[r].t \in Time
    BY <1>0, <1>6, OpTypes, Keys DEF PostItem, At, RequestInv, Control, Kind, KeyOf
  <2>2. row'[k] = RowOf(r, None, Trip, {op[r].t}) /\ \A j \in Key : j # k => row'[j] = row[j]
    BY <1>0, <2>1 DEF Put, TypeInv
  <2>3. Typed(k)'
    BY <2>1, <2>2 DEF Typed, RowOf
  <2>. QED  BY <2>2, <2>3 DEF ServeInv, Typed, Stored
<1>7. CASE CommitProperties(r)
  <2>. DEFINE new == NewProperty(r)
  <2>1. Kind(r) = "postTProperties" /\ pc[r] = "insert"
    BY <1>0, <1>7, CommitPropertiesKeeps DEF CommitProperties
  <2>2. op[r].type \in DOMAIN TPropTokens /\ op[r].t \in Time
    BY <1>0, <2>1, OpTypes DEF RequestInv, Control, Kind
  <2>3. new.vals \subseteq ScalarTemporalTypes \X Time
    <3>1. TPropType(op[r].type) \in ScalarTemporalTypes
      BY <2>2, TokensNameTypes
    <3>. QED  BY <2>2, <3>1 DEF NewProperty, RowOf
  <2>. HIDE DEF new
  <2>4. \A k \in Key : row'[k] = row[k] \/ (row'[k] = new /\ k \in Property)
    <3>1. row' = [k \in Key |-> IF k[1] = KeyOf(r)[1] /\ k[2] \in Range(done[r]) THEN new ELSE row[k]]
      BY <1>7 DEF CommitProperties, new
    <3>2. ASSUME NEW k \in Key, row'[k] # row[k] PROVE row'[k] = new /\ k \in Property
      BY <1>0, <1>7, <3>1, <3>2, CommitPropertiesKeeps
    <3>. QED  BY <3>2
  <2>5. \A k \in Property : k \notin Geometry
    BY Keys
  <2>. QED  BY <2>3, <2>4, <2>5 DEF ServeInv, Typed, Stored
<1>8. CASE DeleteCollection(r) \/ DeleteItem(r) \/ Purge(r) \/ DeleteTProperty(r)
  BY <1>1, <1>2, <1>8 DEF DeleteCollection, DeleteItem, Purge, DeleteTProperty
<1>9. CASE Start(r) \/ Fail(r) \/ PostCollection(r) \/ PutCollection(r) \/ PurgeFails(r) \/ Lookup(r)
             \/ EnsureTable(r) \/ Insert(r) \/ RefuseDuplicate(r)
  BY <1>1, <1>9
     DEF Start, Fail, PostCollection, PutCollection, PurgeFails, Lookup, EnsureTable, Insert,
         RefuseDuplicate, storeRows
<1>10. CASE ReadType(r) \/ CountValues(r) \/ FindFeature(r) \/ CountMembers(r) \/ ReadMember(r)
              \/ MemberFails(r) \/ FindMember(r) \/ Fetch(r)
  BY <1>1, <1>10
     DEF ReadType, CountValues, FindFeature, CountMembers, ReadMember, MemberFails, FindMember, Fetch,
         storeRows
<1>. QED  BY <1>3, <1>4, <1>5, <1>6, <1>7, <1>8, <1>9, <1>10 DEF Statement

-----------------------------------------------------------------------------
(* What the statements of a request do to what it serves                   *)

\* The step r's request has come to, when a statement sends it on or answers it.
LEMMA Moves ==
  ASSUME StoreInv, NEW r \in Request
  PROVE  /\ \A step \in Steps : Goto(r, step) => pc'[r] = step /\ answer'[r] = answer[r]
         /\ \A code \in Codes : Answer(r, code) => pc'[r] = "answered" /\ answer'[r] = code
BY DEF StoreInv, TypeInv, Goto, Answer

\* Only the reads for a client change what is read, each its own.
LEMMA LocalsKeep ==
  ASSUME ServeInv, NEW r \in Request,
         Start(r) \/ Statement(r) \/ Fail(r) \/ PurgeFails(r) \/ MemberFails(r)
  PROVE  /\ Locals'
         /\ \A q \in Request : q # r => seen'[q] = seen[q] /\ count'[q] = count[q]
<1>0. Locals /\ StoreInv
  BY DEF ServeInv
<1>1. CASE UNCHANGED <<count, seen>>
  BY <1>0, <1>1 DEF Locals
<1>2. CASE CountMembers(r)
  <2>1. Cardinality(Members(r)) \in 0 .. Cardinality(Time)
    BY <1>0, <1>2, ReaderTypes DEF CountMembers, At
  <2>2. /\ seen' = seen
        /\ count' = count \/ count' = [count EXCEPT ![r] = Cardinality(Members(r))]
    BY <1>2 DEF CountMembers
  <2>. QED  BY <1>0, <2>1, <2>2 DEF Locals
<1>3. CASE ReadMember(r)
  <2>. DEFINE n == Len(seen[r]) + 1  t == SequenceN(Members(r), n)
  <2>1. CASE UNCHANGED seen
    BY <1>1, <1>3, <2>1 DEF ReadMember
  <2>2. CASE n <= Cardinality(Members(r)) /\ seen' = [seen EXCEPT ![r] = Append(@, t)]
    <3>1. seen[r] \in Seq(Time) /\ n \in Nat \ {0}
      BY <1>0, LenProperties DEF Locals
    <3>2. t \in Time
      <4>1. Members(r) \in SUBSET Time
        BY <1>0, <1>3, ReaderTypes DEF ReadMember
      <4>. QED  BY <2>2, <3>1, <4>1, OneMember
    <3>. HIDE DEF t
    <3>3. Append(seen[r], t) \in Seq(Time)
      BY <3>1, <3>2, AppendProperties
    <3>4. seen' = [seen EXCEPT ![r] = Append(seen[r], t)] /\ count' = count
      BY <1>3, <2>2 DEF ReadMember
    <3>. QED  BY <1>0, <3>3, <3>4 DEF Locals
  <2>. QED  BY <1>3, <2>1, <2>2 DEF ReadMember
<1>4. CASE Fetch(r)
  <2>1. CASE UNCHANGED seen
    BY <1>1, <1>4, <2>1 DEF Fetch
  <2>2. CASE seen' = [seen EXCEPT ![r] = Found(r)]
    <3>1. pc[r] = "fetch" /\ count' = count
      BY <1>4 DEF Fetch
    <3>2. Kind(r) \in {"getTProperty", "tgSequenceQuery"}
      BY <3>1 DEF ServeInv, Serving, Reading
    <3>3. Members(r) \in SUBSET Time
      BY <1>0, <3>1, ReaderTypes
    <3>4. Found(r) \in Seq(Time)
      <4>1. CASE Kind(r) = "getTProperty"
        BY <1>0, <3>1, <3>3, <4>1, ReaderTypes, InOrderIsWhole DEF Found
      <4>2. CASE Kind(r) = "tgSequenceQuery"
        <5>1. op[r].n \in Nat \ {0} /\ KeyOf(r) \in Geometry /\ KeyOf(r) \notin Property
          BY <1>0, <3>1, <4>2, ReaderTypes
        <5>2. op[r].n <= Cardinality(Members(r)) => SequenceN(Members(r), op[r].n) \in Time
          BY <3>3, <5>1, OneMember
        <5>3. \A t \in Time : <<t>> \in Seq(Time)
          OBVIOUS
        <5>4. <<>> \in Seq(Time)
          BY EmptySeq
        <5>. QED  BY <5>1, <5>2, <5>3, <5>4 DEF Found
      <4>. QED  BY <3>2, <4>1, <4>2
    <3>. QED  BY <1>0, <2>2, <3>1, <3>4 DEF Locals
  <2>. QED  BY <1>4, <2>1, <2>2 DEF Fetch
<1>5. CASE Start(r) \/ Fail(r) \/ PostCollection(r) \/ PutCollection(r) \/ DeleteCollection(r)
             \/ PostItem(r) \/ PutItem(r) \/ DeleteItem(r) \/ Purge(r) \/ PurgeFails(r)
  BY <1>1, <1>5
     DEF Start, Fail, PostCollection, PutCollection, DeleteCollection, PostItem, PutItem, DeleteItem,
         Purge, PurgeFails, locals
<1>6. CASE Lookup(r) \/ EnsureTable(r) \/ Insert(r) \/ RefuseDuplicate(r) \/ CommitProperties(r)
             \/ ReadType(r) \/ AppendValue(r) \/ DeleteTProperty(r) \/ CountValues(r)
             \/ DeleteValue(r) \/ FindFeature(r) \/ MemberFails(r) \/ FindMember(r)
  BY <1>1, <1>6
     DEF Lookup, EnsureTable, Insert, RefuseDuplicate, CommitProperties, ReadType, AppendValue,
         DeleteTProperty, CountValues, DeleteValue, FindFeature, MemberFails, FindMember, locals
<1>. QED  BY <1>2, <1>3, <1>4, <1>5, <1>6 DEF Statement

\* A statement that does not read for a client, nor changes what its request keeps.
LEMMA PlainServes ==
  ASSUME ServeInv, NEW r \in Request, UNCHANGED <<op, done, seen>>,
         pc'[r] \in {"answered", "purge", "ensure", "insert", "update"},
         pc'[r] = "answered" \/ pc[r] \notin {"member", "answered"},
         pc'[r] = "update" /\ KeyOf(r) \in Property => column'[r] \in ScalarTemporalTypes
  PROVE  Serving(r)'
<1>1. Kind(r)' = Kind(r) /\ KeyOf(r)' = KeyOf(r) /\ Serving(r)
  BY DEF Kind, KeyOf, ServeInv
<1>2. Asked(r)'
  BY <1>1 DEF Serving, Asked
<1>3. Reading(r)'
  BY <1>1 DEF Serving, Reading
<1>4. Unraced(r)'
  BY DEF Unraced
<1>. QED  BY <1>2, <1>3, <1>4 DEF Serving

LEMMA AnswersServe ==
  ASSUME ServeInv, NEW r \in Request, UNCHANGED <<op, done>>, pc'[r] = "answered"
  PROVE  Serving(r)'
<1>1. Kind(r)' = Kind(r) /\ KeyOf(r)' = KeyOf(r) /\ Serving(r)
  BY DEF Kind, KeyOf, ServeInv
<1>. QED  BY <1>1 DEF Serving, Asked, Reading, Unraced

LEMMA StartServes ==
  ASSUME ServeInv, NEW r \in Request, Start(r)
  PROVE  Serving(r)'
<1>1. StoreInv /\ Serving(r) /\ RequestInv(r) /\ TypeInv
  BY DEF ServeInv, StoreInv
<1>2. pc[r] = "idle" /\ UNCHANGED <<done, column, count, seen>>
  BY DEF Start, locals
<1>3. pc'[r] \in {"first", "answered"}
  <2>1. "first" \in Steps /\ {"404", "409"} \subseteq Codes
    BY DEF Steps, Codes, Code
  <2>2. Goto(r, "first") \/ \E code \in {"404", "409"} : Answer(r, code)
    BY DEF Start
  <2>. QED  BY <1>1, <2>1, <2>2, Moves
<1>4. op'[r] \in Ops[r]
  BY <1>1 DEF Start, TypeInv
<1>5. done'[r] = <<>> /\ seen'[r] = <<>>
  BY <1>1, <1>2 DEF RequestInv, Drafted, Serving, Reading
<1>. QED  BY <1>3, <1>4, <1>5 DEF Serving, Asked, Reading, Unraced

\* The writers, and what answers a request without reading for it.
LEMMA WritersServe ==
  ASSUME ServeInv, NEW r \in Request, StoreInv',
         \/ Fail(r) \/ PostCollection(r) \/ PutCollection(r) \/ DeleteCollection(r) \/ PostItem(r)
         \/ PutItem(r) \/ DeleteItem(r) \/ Purge(r) \/ PurgeFails(r) \/ Lookup(r) \/ EnsureTable(r)
         \/ Insert(r) \/ RefuseDuplicate(r) \/ CommitProperties(r) \/ AppendValue(r)
         \/ DeleteTProperty(r) \/ CountValues(r) \/ DeleteValue(r) \/ MemberFails(r)
  PROVE  Serving(r)'
<1>1. StoreInv /\ Serving(r) /\ RequestInv(r) /\ TypeInv
  BY DEF ServeInv, StoreInv
<1>2. /\ Code \subseteq Codes /\ Code = {"200", "201", "204", "400", "404", "409", "500"}
      /\ {"purge", "ensure", "insert", "update"} \subseteq Steps
  BY DEF Codes, Code, Steps, Midway
<1>3. CASE UNCHANGED <<op, done>> /\ \E code \in Code : Answer(r, code)
  BY <1>1, <1>2, <1>3, Moves, AnswersServe
<1>4. CASE /\ UNCHANGED <<op, done, seen>> /\ pc[r] \notin {"member", "answered"}
           /\ \E step \in {"purge", "ensure", "insert"} : Goto(r, step)
  <2>1. pc'[r] \in {"purge", "ensure", "insert"}
    BY <1>1, <1>2, <1>4, Moves
  <2>. QED  BY <1>4, <2>1, PlainServes
<1>5. CASE /\ Fail(r) \/ PostCollection(r) \/ PutCollection(r) \/ PostItem(r) \/ Purge(r) \/ PurgeFails(r)
                \/ PutItem(r) \/ RefuseDuplicate(r) \/ CommitProperties(r) \/ MemberFails(r)
  BY <1>2, <1>3, <1>5
     DEF Fail, PostCollection, PutCollection, PostItem, PutItem, Purge, PurgeFails, RefuseDuplicate,
         CommitProperties, MemberFails, NotFound, locals
<1>6. CASE AppendValue(r) \/ DeleteTProperty(r) \/ DeleteValue(r)
  BY <1>2, <1>3, <1>6 DEF AppendValue, DeleteTProperty, DeleteValue, NotFound, locals
<1>7. CASE DeleteCollection(r) \/ DeleteItem(r) \/ Lookup(r) \/ EnsureTable(r)
  BY <1>2, <1>3, <1>4, <1>7 DEF DeleteCollection, DeleteItem, Lookup, EnsureTable, At, locals
<1>8. CASE Insert(r)
  <2>1. pc[r] = "insert" /\ UNCHANGED <<op, pc, column, seen>>
    BY <1>8 DEF Insert, Inserting
  <2>2. Drafted(r)' /\ Kind(r)' = Kind(r) /\ Control(r)
    BY <1>1, <2>1 DEF StoreInv, RequestInv, Kind
  <2>3. Asked(r)'
    BY <1>1, <2>1, <2>2 DEF Serving, Asked, Drafted, Control
  <2>. QED  BY <1>1, <2>1, <2>2, <2>3 DEF Serving, Reading, Unraced
<1>9. CASE CountValues(r)
  <2>1. /\ UNCHANGED <<op, done, column, seen>> /\ pc[r] \in {"first", "count"}
        /\ pc[r] = "first" => KeyOf(r) \in Geometry
    BY <1>9 DEF CountValues, Counting, At, locals
  <2>2. Goto(r, "update") \/ \E code \in {"400", "404", "409"} : Answer(r, code)
    BY <1>9 DEF CountValues, NotFound
  <2>3. CASE Goto(r, "update")
    <3>1. pc'[r] = "update"
      BY <1>1, <1>2, <2>3, Moves
    <3>2. KeyOf(r) \in Property => column'[r] \in ScalarTemporalTypes
      BY <1>1, <2>1, Keys DEF Serving, Asked
    <3>. QED  BY <2>1, <3>1, <3>2, PlainServes
  <2>. QED  BY <1>2, <1>3, <2>1, <2>2, <2>3
<1>. QED  BY <1>5, <1>6, <1>7, <1>8, <1>9

\* The statements that begin a read for a client, and SELECT ptype.
LEMMA ReadTypeServes ==
  ASSUME ServeInv, NEW r \in Request, ReadType(r)
  PROVE  Serving(r)'
<1>. DEFINE k == KeyOf(r)  step == AfterType(Kind(r))
<1>1. StoreInv /\ Serving(r) /\ RequestInv(r) /\ TypeInv /\ RowInv
  BY DEF ServeInv, StoreInv
<1>2. /\ pc[r] = "first" /\ Kind(r) \in TypeReaders /\ k \in Property
      /\ UNCHANGED <<row, op, done, seen, since>>
  BY DEF ReadType, At, storeRows, history
<1>3. CASE Answer(r, IF store THEN "404" ELSE "500")
  <2>1. (IF store THEN "404" ELSE "500") \in Codes
    BY DEF Codes, Code
  <2>. QED  BY <1>1, <1>2, <1>3, <2>1, Moves, AnswersServe
<1>4. CASE Stored(k) /\ column' = [column EXCEPT ![r] = TypeColumn(k)] /\ Goto(r, step)
  <2>1. /\ step \in {"update", "count", "fetch"}
        /\ step = "update" <=> Kind(r) = "append"
        /\ step = "count" <=> Kind(r) = "deleteValue"
        /\ step = "fetch" <=> Kind(r) = "getTProperty"
    BY <1>2 DEF AfterType, TypeReaders
  <2>2. pc'[r] = step
    <3>1. step \in Steps
      BY <2>1 DEF Steps, Midway
    <3>. HIDE DEF step
    <3>. QED  BY <1>1, <1>4, <3>1, Moves
  <2>. HIDE DEF step
  <2>3. TypeColumn(k) \in ScalarTemporalTypes
    <3>1. k \notin Geometry /\ row[k].type \in OgcTokens
      BY <1>1, <1>2, <1>4, Keys DEF RowInv
    <3>. QED  BY <3>1, TokensNameTypes DEF TypeColumn
  <2>4. column'[r] = TypeColumn(k)
    BY <1>1, <1>4 DEF TypeInv
  <2>5. /\ Kind(r)' = Kind(r) /\ KeyOf(r)' = KeyOf(r) /\ Stored(KeyOf(r))'
        /\ TypeColumn(KeyOf(r))' = TypeColumn(k)
    BY <1>2, <1>4 DEF Kind, KeyOf, Stored, TypeColumn
  <2>6. Asked(r)'
    BY <1>1, <1>2, <2>3, <2>4, <2>5 DEF Serving, Asked
  <2>7. Reading(r)'
    BY <1>1, <1>2, <2>1, <2>2, <2>5 DEF Serving, Reading
  <2>8. Unraced(r)'
    BY <1>2, <2>1, <2>2, <2>4, <2>5 DEF Unraced
  <2>. QED  BY <2>6, <2>7, <2>8 DEF Serving
<1>. QED  BY <1>3, <1>4 DEF ReadType

LEMMA FindsServe ==
  ASSUME ServeInv, NEW r \in Request, FindFeature(r) \/ FindMember(r)
  PROVE  Serving(r)'
<1>1. StoreInv /\ Serving(r) /\ TypeInv
  BY DEF ServeInv, StoreInv
<1>2. /\ pc[r] = "first" /\ Kind(r) \in {"tgSequence", "tgSequenceQuery"}
      /\ UNCHANGED <<row, op, done, column, seen, since>>
  BY DEF FindFeature, FindMember, At, storeRows, locals, history
<1>3. /\ {"400", "404", "500"} \subseteq Codes /\ "count" \in Steps /\ "fetch" \in Steps
  BY DEF Codes, Code, Steps, Midway
<1>4. CASE \E code \in {"400", "404", "500"} : Answer(r, code)
  BY <1>1, <1>2, <1>3, <1>4, Moves, AnswersServe
<1>5. /\ Kind(r)' = Kind(r) /\ KeyOf(r)' = KeyOf(r) /\ (Stored(KeyOf(r))' <=> Stored(KeyOf(r)))
      /\ Members(r)' = Members(r)
  BY <1>2 DEF Kind, KeyOf, Stored, Members, In, ColumnOf
<1>6. KeyOf(r) \notin Property
  BY <1>1, <1>2, ReaderTypes
<1>7. CASE Goto(r, "count") /\ Kind(r) = "tgSequence"
  <2>1. pc'[r] = "count"
    BY <1>1, <1>3, <1>7, Moves
  <2>. QED  BY <1>1, <1>2, <1>5, <1>6, <1>7, <2>1 DEF Serving, Asked, Reading, Unraced
<1>8. CASE /\ Goto(r, "fetch") /\ Kind(r) = "tgSequenceQuery" /\ Stored(KeyOf(r))
           /\ ~(op[r].n > Cardinality(Members(r)))
  <2>1. pc'[r] = "fetch"
    BY <1>1, <1>3, <1>8, Moves
  <2>2. op[r].n <= Cardinality(Members(r))
    BY <1>1, <1>2, <1>8, ReaderTypes
  <2>. QED  BY <1>1, <1>2, <1>5, <1>6, <1>8, <2>1, <2>2 DEF Serving, Asked, Reading, Unraced
<1>. QED  BY <1>4, <1>7, <1>8 DEF FindFeature, FindMember, At, NotFound

LEMMA CountMembersServes ==
  ASSUME ServeInv, NEW r \in Request, CountMembers(r)
  PROVE  Serving(r)'
<1>. DEFINE n == Cardinality(Members(r))
<1>1. StoreInv /\ Serving(r) /\ TypeInv /\ Locals
  BY DEF ServeInv, StoreInv
<1>2. /\ pc[r] = "count" /\ Kind(r) = "tgSequence"
      /\ UNCHANGED <<row, op, done, column, seen, since>>
  BY DEF CountMembers, At, storeRows, history
<1>3. CASE \E code \in {"200", "400"} : Answer(r, code)
  <2>1. {"200", "400"} \subseteq Codes
    BY DEF Codes, Code
  <2>. QED  BY <1>1, <1>2, <1>3, <2>1, Moves, AnswersServe
<1>4. CASE Stored(KeyOf(r)) /\ n # 0 /\ count' = [count EXCEPT ![r] = n] /\ Goto(r, "member")
  <2>1. pc'[r] = "member"
    <3>1. "member" \in Steps
      BY DEF Steps, Midway
    <3>. QED  BY <1>1, <1>4, <3>1, Moves
  <2>2. /\ Kind(r)' = Kind(r) /\ KeyOf(r)' = KeyOf(r) /\ Stored(KeyOf(r))'
        /\ Members(r)' = Members(r)
    BY <1>2, <1>4 DEF Kind, KeyOf, Stored, Members, In, ColumnOf
  <2>3. KeyOf(r) \notin Property /\ n \in 0 .. Cardinality(Time)
    BY <1>1, <1>2, ReaderTypes
  <2>4. count'[r] = n /\ seen'[r] = <<>> /\ Len(<<>>) = 0 /\ 0 < n
    <3>1. Cardinality(Time) \in Nat
      BY FS_CardinalityType, StoreAssumption DEF StoreAssumption
    <3>2. count'[r] = n /\ seen'[r] = <<>>
      BY <1>1, <1>2, <1>4 DEF Locals, Serving, Reading
    <3>3. Len(<<>>) = 0
      BY EmptySeq
    <3>. QED  BY <1>4, <2>3, <3>1, <3>2, <3>3
  <2>. HIDE DEF n
  <2>5. Asked(r)' /\ Reading(r)'
    BY <1>1, <1>2, <2>1, <2>2, <2>3, <2>4 DEF Serving, Asked, Reading
  <2>6. Unraced(r)'
    BY <2>1, <2>2, <2>4 DEF Unraced, n
  <2>. QED  BY <2>5, <2>6 DEF Serving
<1>. QED  BY <1>3, <1>4 DEF CountMembers

LEMMA ReadMemberServes ==
  ASSUME ServeInv, NEW r \in Request, ReadMember(r)
  PROVE  Serving(r)'
<1>. DEFINE n == Len(seen[r]) + 1  t == SequenceN(Members(r), n)
<1>1. StoreInv /\ Serving(r) /\ TypeInv /\ Locals
  BY DEF ServeInv, StoreInv
<1>2. /\ pc[r] = "member" /\ Kind(r) = "tgSequence" /\ Len(seen[r]) < count[r]
      /\ UNCHANGED <<row, op, done, column, count, since>>
  BY <1>1 DEF ReadMember, storeRows, history, Serving, Reading
<1>3. CASE Answer(r, "200")
  <2>1. "200" \in Codes
    BY DEF Codes, Code
  <2>. QED  BY <1>1, <1>2, <1>3, <2>1, Moves, AnswersServe
<1>4. CASE /\ Stored(KeyOf(r)) /\ n <= Cardinality(Members(r)) /\ n # count[r] /\ Goto(r, "member")
           /\ seen' = [seen EXCEPT ![r] = Append(@, t)]
  <2>1. pc'[r] = "member"
    <3>1. "member" \in Steps
      BY DEF Steps, Midway
    <3>. QED  BY <1>1, <1>4, <3>1, Moves
  <2>2. /\ Kind(r)' = Kind(r) /\ KeyOf(r)' = KeyOf(r) /\ Stored(KeyOf(r))'
        /\ Members(r)' = Members(r)
    BY <1>2, <1>4 DEF Kind, KeyOf, Stored, Members, In, ColumnOf
  <2>. DEFINE s == seen[r]
  <2>3. s \in Seq(Time) /\ Len(s) \in Nat /\ count[r] \in Nat
    <3>1. Cardinality(Time) \in Nat
      BY FS_CardinalityType, StoreAssumption DEF StoreAssumption
    <3>2. s \in Seq(Time) /\ count[r] \in 0 .. Cardinality(Time)
      BY <1>1 DEF Locals
    <3>. QED  BY <3>1, <3>2, LenProperties
  <2>4. n = Len(s) + 1 /\ Len(s) + 1 < count[r]
    BY <1>2, <1>4, <2>3
  <2>5. t \in Time
    <3>1. Members(r) \in SUBSET Time
      BY <1>1, <1>2, ReaderTypes
    <3>. QED  BY <1>4, <2>3, <3>1, OneMember
  <2>6. seen'[r] = Append(s, t)
    BY <1>1, <1>4 DEF Locals
  <2>. HIDE DEF s, t
  <2>7. /\ Len(Append(s, t)) = Len(s) + 1
        /\ \A i \in 1..Len(s) : Append(s, t)[i] = s[i]
        /\ Append(s, t)[Len(s) + 1] = t
    BY <2>3, <2>5, AppendProperties
  <2>8. Asked(r)' /\ Reading(r)'
    BY <1>1, <1>2, <2>1, <2>2, <2>4, <2>6, <2>7 DEF Serving, Asked, Reading
  <2>9. Unraced(r)'
    <3>1. SUFFICES ASSUME since[r] = {}
                   PROVE  /\ count[r] = Cardinality(Members(r))
                          /\ \A i \in 1..(Len(s) + 1) : Append(s, t)[i] = SequenceN(Members(r), i)
      BY <1>2, <2>1, <2>2, <2>6, <2>7 DEF Unraced
    <3>2. /\ count[r] = Cardinality(Members(r))
          /\ \A i \in 1..Len(s) : s[i] = SequenceN(Members(r), i)
      BY <1>1, <1>2, <3>1 DEF Serving, Unraced, s
    <3>3. t = SequenceN(Members(r), Len(s) + 1)
      BY DEF t, s
    <3>. HIDE DEF n
    <3>. QED  BY <2>3, <2>7, <3>2, <3>3
  <2>. QED  BY <2>8, <2>9 DEF Serving
<1>. QED  BY <1>3, <1>4 DEF ReadMember

LEMMA FetchServes ==
  ASSUME ServeInv, NEW r \in Request, Fetch(r)
  PROVE  Serving(r)'
<1>1. StoreInv /\ UNCHANGED <<op, done>>
  BY DEF ServeInv, Fetch
<1>2. \E code \in {"200", "400", "404"} : Answer(r, code)
  BY DEF Fetch, NotFound
<1>3. {"200", "400", "404"} \subseteq Codes
  BY DEF Codes, Code
<1>. QED  BY <1>1, <1>2, <1>3, Moves, AnswersServe

LEMMA ActingServes ==
  ASSUME ServeInv, NEW r \in Request,
         Start(r) \/ Statement(r) \/ Fail(r) \/ PurgeFails(r) \/ MemberFails(r),
         StoreInv'
  PROVE  Serving(r)'
BY StartServes, WritersServe, ReadTypeServes, FindsServe, CountMembersServes, ReadMemberServes, FetchServes
   DEF Statement

LEMMA ServeInitInv == StoreInit => ServeInv
<1>. SUFFICES ASSUME StoreInit PROVE ServeInv
  OBVIOUS
<1>1. StoreInv
  BY StoreInitInv
<1>2. Locals
  <2>1. <<>> \in Seq(Time)
    BY EmptySeq
  <2>2. 0 \in 0 .. Cardinality(Time)
    BY FS_CardinalityType, StoreAssumption DEF StoreAssumption
  <2>. QED  BY <2>1, <2>2 DEF StoreInit, Locals
<1>3. ASSUME NEW k \in Key PROVE Typed(k)
  <2>1. row[k] = None \/ row[k] = StoredRow(k)
    BY DEF StoreInit
  <2>2. "tfloat" \in ScalarTemporalTypes /\ StoredTimes \subseteq Time
    BY ScalarTypes, StoreAssumption DEF StoreAssumption
  <2>. QED  BY <2>1, <2>2 DEF Typed, Stored, StoredRow, RowOf
<1>4. \A r \in Request : Serving(r)
  BY DEF StoreInit, Serving, Asked, Reading, Unraced
<1>. QED  BY <1>1, <1>2, <1>3, <1>4 DEF ServeInv

LEMMA ServeNextInv == ServeInv /\ [StoreNext]_storeVars => ServeInv'
<1>1. ASSUME ServeInv, UNCHANGED storeVars PROVE ServeInv'
  <2>1. StoreInv'
    BY <1>1, StoreNextInv DEF ServeInv
  <2>2. UNCHANGED <<row, op, pc, done, column, count, seen, since>>
    BY <1>1 DEF storeVars, storeRows, locals, history
  <2>3. Locals' /\ \A k \in Key : Typed(k)'
    BY <1>1, <2>2 DEF ServeInv, Locals, Typed, Stored
  <2>4. ASSUME NEW r \in Request PROVE Serving(r)'
    <3>1. /\ Kind(r)' = Kind(r) /\ KeyOf(r)' = KeyOf(r) /\ Members(r)' = Members(r)
          /\ Stored(KeyOf(r))' = Stored(KeyOf(r)) /\ TypeColumn(KeyOf(r))' = TypeColumn(KeyOf(r))
      BY <2>2 DEF Kind, KeyOf, Members, In, ColumnOf, Stored, TypeColumn
    <3>2. Serving(r)
      BY <1>1 DEF ServeInv
    <3>. QED  BY <2>2, <3>1, <3>2 DEF Serving, Asked, Reading, Unraced
  <2>. QED  BY <2>1, <2>3, <2>4 DEF ServeInv
<1>2. ASSUME ServeInv, NEW r \in Request,
             Start(r) \/ Statement(r) \/ Fail(r) \/ PurgeFails(r) \/ MemberFails(r)
      PROVE  ServeInv'
  <2>1. StoreInv' /\ Acts(r) /\ Reshapes(r)
    BY <1>2, AllKeep DEF ServeInv
  <2>2. \A k \in Key : Typed(k)'
    BY <1>2, RowsStayTyped
  <2>3. Locals' /\ \A q \in Request : q # r => seen'[q] = seen[q] /\ count'[q] = count[q]
    BY <1>2, LocalsKeep
  <2>4. \A q \in Request : Serving(q)'
    BY <1>2, <2>1, <2>3, OthersServe, ActingServes
  <2>. QED  BY <2>1, <2>2, <2>3, <2>4 DEF ServeInv
<1>. QED  BY <1>1, <1>2 DEF StoreNext, StoreDone

LEMMA ServeInvariant == StoreSafetySpec => []ServeInv
BY ServeInitInv, ServeNextInv, PTL DEF StoreSafetySpec

-----------------------------------------------------------------------------
(* The table of the properties                                             *)

StoreThere == store \in BOOLEAN /\ \A k \in Property : Stored(k) => store

\* Only a commit makes a property, and it makes the table with it.
LEMMA StoreThereNext == StoreInv /\ StoreThere /\ [StoreNext]_storeVars => StoreThere'
<1>1. ASSUME StoreThere, UNCHANGED storeVars PROVE StoreThere'
  BY <1>1 DEF StoreThere, Stored, storeVars, storeRows
<1>2. ASSUME StoreThere, NEW r \in Request, CommitProperties(r) PROVE StoreThere'
  BY <1>2 DEF StoreThere, CommitProperties
<1>3. ASSUME StoreInv, StoreThere, NEW r \in Request, ~CommitProperties(r),
             Start(r) \/ Statement(r) \/ Fail(r) \/ PurgeFails(r) \/ MemberFails(r)
      PROVE  StoreThere'
  <2>1. \A k \in Property : Stored(k)' => Stored(k)
    BY <1>3, StatementKeeps DEF Kept, OldProperties
  <2>2. store' = store
    <3>1. CASE Start(r) \/ Fail(r) \/ PurgeFails(r) \/ MemberFails(r)
      BY <3>1 DEF Start, Fail, PurgeFails, MemberFails, storeRows
    <3>2. CASE \/ PostCollection(r) \/ PutCollection(r) \/ DeleteCollection(r) \/ PostItem(r)
               \/ PutItem(r) \/ DeleteItem(r) \/ Purge(r)
      BY <3>2 DEF PostCollection, PutCollection, DeleteCollection, PostItem, PutItem, DeleteItem,
                  Purge, storeRows
    <3>3. CASE Lookup(r) \/ EnsureTable(r) \/ Insert(r) \/ RefuseDuplicate(r)
      BY <3>3 DEF Lookup, EnsureTable, Insert, RefuseDuplicate, storeRows
    <3>4. CASE \/ ReadType(r) \/ AppendValue(r) \/ DeleteTProperty(r) \/ CountValues(r)
               \/ DeleteValue(r)
      BY <3>4 DEF ReadType, AppendValue, DeleteTProperty, CountValues, DeleteValue, storeRows
    <3>5. CASE \/ FindFeature(r) \/ CountMembers(r) \/ ReadMember(r) \/ FindMember(r)
               \/ Fetch(r)
      BY <3>5 DEF FindFeature, CountMembers, ReadMember, FindMember, Fetch, storeRows
    <3>. QED  BY <1>3, <3>1, <3>2, <3>3, <3>4, <3>5 DEF Statement
  <2>. QED  BY <1>3, <2>1, <2>2 DEF StoreThere
<1>. QED  BY <1>1, <1>2, <1>3 DEF StoreNext, StoreDone

LEMMA StoreThereInvariant == StoreSafetySpec => []StoreThere
<1>1. StoreInit => StoreThere
  <2>. SUFFICES ASSUME StoreInit PROVE StoreThere
    OBVIOUS
  <2>1. PICK stored \in SUBSET Key :
           /\ row = [k \in Key |-> IF k \in stored THEN StoredRow(k) ELSE None]
           /\ store \in {TRUE, stored \cap Property # {}}
    BY DEF StoreInit
  <2>. QED  BY <2>1, Keys DEF StoreThere, Stored
<1>. QED  BY <1>1, StoreThereNext, StoreInvariant, PTL DEF StoreSafetySpec

-----------------------------------------------------------------------------
(* What follows from it                                                    *)

\* The variables have their types, the rows of features and of properties theirs, and the
\* handlers their locals, whatever requests interleave.
THEOREM StoreTypeCorrect == StoreSafetySpec => []StoreTypeOK
<1>1. ServeInv /\ StoreThere => StoreTypeOK
  <2>. SUFFICES ASSUME ServeInv, StoreThere PROVE StoreTypeOK
    OBVIOUS
  <2>1. StoreInv /\ TypeInv /\ RowInv /\ Locals
    BY DEF ServeInv, StoreInv
  <2>2. \A r \in Request : RequestInv(r) /\ Serving(r)
    BY DEF ServeInv, StoreInv
  <2>3. \A k \in Key : Stored(k) =>
          IF k \in Geometry THEN row[k].type = None /\ row[k].vals \subseteq {Trip} \X Time
                            ELSE row[k].type # None /\ row[k].vals \subseteq ScalarTemporalTypes \X Time
    <3>1. \A k \in Property : Stored(k) => row[k].type # None
      BY <2>1, StoreAssumption DEF RowInv, StoreAssumption
    <3>. QED  BY <3>1, Keys DEF ServeInv, Typed
  <2>4. ASSUME NEW r \in Request, done[r] # <<>> PROVE IsPrefix(done[r], op[r].names)
    <3>. DEFINE d == done[r]  names == op[r].names
    <3>1. /\ Kind(r) = "postTProperties" /\ Len(d) <= Len(names)
          /\ \A i \in 1..Len(d) : d[i] = names[i]
      BY <2>2, <2>4 DEF Serving, Asked
    <3>2. d \in Seq(Name) /\ names \in Seq(Name)
      <4>1. op[r] \in Op
        BY <2>2, <2>4 DEF RequestInv, Control, Drafted
      <4>. QED  BY <2>1, <3>1, <4>1, OpTypes DEF TypeInv, Kind
    <3>. HIDE DEF d, names
    <3>3. Len(d) \in Nat /\ Len(names) \in Nat
      BY <3>2, LenProperties
    <3>4. /\ SubSeq(d, 1, Len(d)) = [i \in 1..Len(d) |-> d[i]]
          /\ SubSeq(names, 1, Len(d)) = [i \in 1..Len(d) |-> names[i]]
      BY <3>1, <3>2, <3>3
    <3>. QED  BY <3>1, <3>4 DEF IsPrefix, d, names
  <2>5. \A r \in Request : op[r] \in Ops[r] \cup {None}
    BY <2>2 DEF Serving, Asked
  <2>6. \A r \in Request : pc[r] = "member" => Len(seen[r]) < count[r]
    BY <2>2 DEF Serving, Reading
  <2>7. \A r \in Request : locked = r <=> pc[r] = "insert"
    BY <2>2 DEF RequestInv, Control
  <2>8. \A k \in Key : Stored(k) => IF k \in Geometry THEN coll ELSE store
    BY <2>1, Keys DEF RowInv, StoreThere
  <2>. QED
    BY <2>1, <2>3, <2>4, <2>5, <2>6, <2>7, <2>8
       DEF StoreTypeOK, StoreThere, TypeInv, RowInv, Locals, Steps, Codes
<1>. QED  BY <1>1, ServeInvariant, StoreThereInvariant, PTL

\* A statement that answers a read for a client 200 is one of four.
LEMMA OnlyReadsServe ==
  ASSUME StoreInv, NEW r \in Request, answer'[r] = "200", Kind(r) \in Reads,
         Start(r) \/ Statement(r) \/ Fail(r) \/ PurgeFails(r) \/ MemberFails(r)
  PROVE  CountMembers(r) \/ ReadMember(r) \/ MemberFails(r) \/ Fetch(r)
<1>1. TypeInv /\ RequestInv(r) /\ pc[r] # "answered"
  BY AllKeep DEF StoreInv, Acts
<1>2. answer[r] = None /\ None # "200"
  BY <1>1, StoreAssumption DEF RequestInv, Control, StoreAssumption, Code
<1>3. ~Fail(r)
  BY <1>1 DEF Fail, Answer, TypeInv
<1>4. ~Start(r)
  BY <1>1, <1>2 DEF Start, Answer, Goto, TypeInv
<1>5. ~(PostCollection(r) \/ PutCollection(r) \/ DeleteCollection(r) \/ PostItem(r)
          \/ PutItem(r) \/ DeleteItem(r) \/ AppendValue(r) \/ DeleteTProperty(r) \/ DeleteValue(r))
  BY DEF PostCollection, PutCollection, DeleteCollection, PostItem, PutItem, DeleteItem, AppendValue,
         DeleteTProperty, DeleteValue, At, Reads
<1>6. ~(Purge(r) \/ PurgeFails(r) \/ Lookup(r) \/ EnsureTable(r) \/ Insert(r) \/ RefuseDuplicate(r)
          \/ CommitProperties(r))
  BY <1>1 DEF Purge, PurgeFails, Lookup, EnsureTable, Insert, RefuseDuplicate, CommitProperties,
              Inserting, At, Reads, RequestInv, Control
<1>7. ~(ReadType(r) \/ CountValues(r) \/ FindFeature(r) \/ FindMember(r))
  BY <1>1, <1>2
     DEF ReadType, CountValues, FindFeature, FindMember, NotFound, Answer, Goto, TypeInv
<1>. QED  BY <1>3, <1>4, <1>5, <1>6, <1>7 DEF Statement

\* tgSequence, tgSequenceQuery and getTProperty serve what the row holds, every member, each
\* once and in order, when no writer and no failure came between their statements.
THEOREM StoreUnracedReadIsWhole == StoreSafetySpec => UnracedReadIsWhole
<1>. DEFINE Whole(r) ==
               ServesNow(r) /\ since'[r] = {} =>
                   LET all == Content(KeyOf(r))
                   IN  seen'[r] = IF Kind(r) = "tgSequenceQuery" THEN <<all[op[r].n]>> ELSE all
<1>1. ASSUME ServeInv, NEW r \in Request, ServesNow(r), since'[r] = {},
             CountMembers(r) \/ ReadMember(r) \/ MemberFails(r) \/ Fetch(r)
      PROVE  Whole(r)
  <2>. DEFINE k == KeyOf(r)  m == Members(r)
  <2>1. StoreInv /\ TypeInv /\ RequestInv(r) /\ Serving(r) /\ Locals
    BY <1>1 DEF ServeInv, StoreInv
  <2>2. answer[r] = None /\ answer'[r] = "200" /\ None # "200"
    BY <1>1, StoreAssumption DEF ServesNow, StoreAssumption, Code
  <2>3. pc[r] \in {"count", "member", "fetch"}
    BY <1>1 DEF CountMembers, ReadMember, MemberFails, Fetch, At
  <2>4. m \in SUBSET Time /\ Cardinality(m) \in Nat
    <3>1. Cardinality(Time) \in Nat
      BY FS_CardinalityType, StoreAssumption DEF StoreAssumption
    <3>. QED  BY <2>1, <2>3, <3>1, ReaderTypes
  <2>5. CASE CountMembers(r)
    <3>1. pc[r] = "count" /\ Kind(r) = "tgSequence" /\ seen' = seen
      BY <2>5 DEF CountMembers, At
    <3>2. m = In(k, TypeColumn(k))
      BY <2>1, <3>1, ReaderTypes DEF Members
    <3>3. Cardinality(m) = 0
      BY <2>1, <2>2, <2>5 DEF CountMembers, Answer, Goto, TypeInv
    <3>4. InOrder(m) = <<>>
      BY <2>4, <3>3, InOrderIsWhole, EmptySeq
    <3>5. seen[r] = <<>>
      BY <2>1, <3>1 DEF Serving, Reading
    <3>. QED  BY <3>1, <3>2, <3>4, <3>5 DEF Content
  <2>6. CASE ReadMember(r)
    <3>. DEFINE s == seen[r]  n == Len(s) + 1  t == SequenceN(m, n)
    <3>1. pc[r] = "member" /\ Kind(r) = "tgSequence" /\ Len(s) < count[r] /\ since[r] = {}
      BY <1>1, <2>1, <2>6 DEF ReadMember, history, Serving, Reading
    <3>2. /\ Stored(k) /\ count[r] = Cardinality(m)
          /\ \A i \in 1..Len(s) : s[i] = SequenceN(m, i)
      BY <2>1, <3>1 DEF Serving, Unraced
    <3>3. s \in Seq(Time) /\ Len(s) \in Nat
      BY <2>1, LenProperties DEF Locals
    <3>4. n <= Cardinality(m) /\ n \in Nat \ {0}
      BY <2>4, <3>1, <3>2, <3>3
    <3>5. n = count[r] /\ seen' = [seen EXCEPT ![r] = Append(s, t)]
      BY <2>1, <2>2, <2>6, <3>2, <3>4 DEF ReadMember, Goto, TypeInv
    <3>6. t \in Time
      BY <2>4, <3>4, OneMember
    <3>7. seen'[r] = Append(s, t)
      BY <2>1, <3>5 DEF Locals
    <3>8. m = In(k, TypeColumn(k))
      BY <2>1, <2>3, <3>1, ReaderTypes DEF Members
    <3>9. n = Len(s) + 1 /\ n = Cardinality(m) /\ t = SequenceN(m, n)
      BY <3>2, <3>5
    <3>. HIDE DEF s, n, t, m
    <3>10. /\ Append(s, t) \in Seq(Time) /\ Len(Append(s, t)) = n
           /\ \A i \in 1..n : Append(s, t)[i] = SequenceN(m, i)
      <4>1. /\ Append(s, t) \in Seq(Time) /\ Len(Append(s, t)) = Len(s) + 1
            /\ \A i \in 1..Len(s) : Append(s, t)[i] = s[i]
            /\ Append(s, t)[Len(s) + 1] = t
        BY <3>3, <3>6, AppendProperties
      <4>. QED  BY <3>2, <3>3, <3>9, <4>1 DEF m
    <3>11. Append(s, t) = InOrder(m)
      <4>1. /\ InOrder(m) \in Seq(Time) /\ Len(InOrder(m)) = n
            /\ \A i \in 1..n : InOrder(m)[i] = SequenceN(m, i)
        BY <2>4, <3>9, InOrderIsWhole
      <4>. QED  BY <3>10, <4>1, SeqEqual
    <3>. QED  BY <3>1, <3>7, <3>8, <3>11 DEF Content
  <2>7. CASE MemberFails(r)
    <3>1. since'[r] # {}
      BY <2>1, <2>7 DEF MemberFails, TypeInv
    <3>. QED  BY <1>1, <3>1
  <2>8. CASE Fetch(r)
    <3>1. pc[r] = "fetch" /\ since[r] = {} /\ Kind(r) \in {"getTProperty", "tgSequenceQuery"}
      BY <1>1, <2>1, <2>8 DEF Fetch, history, Serving, Reading
    <3>2. Stored(k)
      BY <2>1, <3>1 DEF Serving, Unraced
    <3>3. seen'[r] = Found(r)
      BY <2>1, <2>8, <3>2 DEF Fetch, Locals
    <3>4. m = In(k, TypeColumn(k))
      <4>1. ColumnOf(r) = TypeColumn(k)
        BY <2>1, <3>1, ReaderTypes DEF Serving, Unraced
      <4>. QED  BY <4>1 DEF Members
    <3>5. CASE Kind(r) = "getTProperty"
      <4>1. Found(r) = InOrder(m)
        BY <2>1, <3>1, <3>5, ReaderTypes DEF Found
      <4>. QED  BY <3>3, <3>4, <3>5, <4>1 DEF Content
    <3>6. CASE Kind(r) = "tgSequenceQuery"
      <4>1. op[r].n \in Nat \ {0} /\ op[r].n <= Cardinality(m) /\ k \in Geometry /\ k \notin Property
        BY <2>1, <3>1, <3>6, ReaderTypes DEF Serving, Unraced
      <4>2. Found(r) = <<SequenceN(m, op[r].n)>>
        BY <4>1 DEF Found
      <4>3. InOrder(m)[op[r].n] = SequenceN(m, op[r].n)
        BY <2>4, <4>1, InOrderIsWhole
      <4>. QED  BY <3>3, <3>4, <3>6, <4>2, <4>3 DEF Content
    <3>. QED  BY <3>1, <3>5, <3>6
  <2>. QED  BY <1>1, <2>5, <2>6, <2>7, <2>8
<1>2. ASSUME ServeInv, NEW r \in Request, ServesNow(r), NEW q \in Request,
             Start(q) \/ Statement(q) \/ Fail(q) \/ PurgeFails(q) \/ MemberFails(q)
      PROVE  CountMembers(r) \/ ReadMember(r) \/ MemberFails(r) \/ Fetch(r)
  <2>1. answer[r] = None /\ answer'[r] = "200" /\ None # "200" /\ Kind(r) \in Reads
    BY <1>2, StoreAssumption DEF ServesNow, StoreAssumption, Code
  <2>2. StoreInv /\ Acts(q)
    BY <1>2, AllKeep DEF ServeInv
  <2>3. q = r
    BY <2>1, <2>2 DEF Acts
  <2>. QED  BY <1>2, <2>1, <2>2, <2>3, OnlyReadsServe
<1>3. ServeInv /\ [StoreNext]_storeVars => [\A r \in Request : Whole(r)]_storeVars
  <2>. SUFFICES ASSUME ServeInv, StoreNext, NEW r \in Request, ServesNow(r), since'[r] = {}
                PROVE  Whole(r) \/ UNCHANGED storeVars
    OBVIOUS
  <2>. QED  BY <1>1, <1>2 DEF StoreNext, StoreDone
<1>. QED  BY <1>3, ServeInvariant, PTL DEF StoreSafetySpec, UnracedReadIsWhole
=============================================================================
