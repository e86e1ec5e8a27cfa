---------------------------- MODULE Paging_proofs ----------------------------
(***************************************************************************)
(* Proofs about pages and exports, for any limits, any row groups and any  *)
(* number of writes.  What the client has, what waits for its row group    *)
(* and what the statement has still to give are three increasing runs,     *)
(* each below the next one; and a feature that was stored all the time is  *)
(* in one of them, or after the cursor, or, when the page is full, after   *)
(* everything in them.                                                     *)
(***************************************************************************)
EXTENDS Paging, TLAPS, SequenceTheorems, FiniteSetTheorems

Inc(s) == \A i, j \in 1..Len(s) : i < j => s[i] < s[j]
Below(S, T) == \A x \in S, y \in T : x < y

\* What has been read, over all pages.
InHand == Range(got) \cup Range(batch) \cup Range(rows)

PageTypes ==
    /\ stored \subseteq Id /\ always \subseteq stored /\ stored \subseteq ever /\ ever \subseteq Id
    /\ writes \in 0..MaxWrites
    /\ format \in {"items", "ndjson", "parquet"}
    /\ limit \in Nat /\ count \in Nat
    /\ after \in Id \cup {0}
    /\ pc \in {"request", "rows", "done"}
    /\ rows \in Seq(Id)
    /\ batch \in Seq(Id) /\ Len(batch) < RowGroup
    /\ got \in Seq(Id)
    /\ truncated \in BOOLEAN

\* Between pages nothing is in hand but what the client has; only Parquet has row groups.
IdleInv ==
    /\ pc # "rows" => rows = <<>> /\ batch = <<>>
    /\ format # "parquet" => batch = <<>>

SizeInv == format = "items" => count + Len(rows) <= MaxLimit

OrderInv ==
    /\ Inc(got) /\ Inc(batch) /\ Inc(rows)
    /\ Below(Range(got), Range(batch))
    /\ Below(Range(got), Range(rows))
    /\ Below(Range(batch), Range(rows))
    /\ InHand \subseteq ever
    /\ pc = "request" => \A x \in Range(got) : x <= after

\* i is for a later page, or was cut off by the limit of an export.
Later(i) ==
    \/ pc = "request" /\ i > after
    \/ /\ pc = "rows" /\ i > after
       /\ Effective # 0 /\ count + Len(rows) = Effective
       /\ \A x \in InHand : x < i
    \/ pc = "done" /\ format # "items" /\ ExportBatch # 0

CoverInv == ~truncated => \A i \in always : i \in InHand \/ Later(i)

PageInv == PageTypes /\ IdleInv /\ SizeInv /\ OrderInv /\ CoverInv

-----------------------------------------------------------------------------
(* Sequences of ids, and limits                                            *)

LEMMA IdsAreNumbers == Id \subseteq Nat \ {0}
BY PagingAssumption DEF PagingAssumption

\* A run followed by a greater one is a run.
LEMMA IncConcat ==
  ASSUME NEW s \in Seq(Id), NEW t \in Seq(Id), Inc(s), Inc(t), Below(Range(s), Range(t))
  PROVE  /\ s \o t \in Seq(Id)
         /\ Range(s \o t) = Range(s) \cup Range(t)
         /\ Inc(s \o t)
<1>1. /\ s \o t \in Seq(Id) /\ Len(s) \in Nat /\ Len(t) \in Nat
      /\ Len(s \o t) = Len(s) + Len(t)
      /\ \A i \in 1..(Len(s) + Len(t)) : (s \o t)[i] = IF i <= Len(s) THEN s[i] ELSE t[i - Len(s)]
  BY ConcatProperties, LenProperties
<1>2. Range(s \o t) = Range(s) \cup Range(t)
  BY RangeConcatenation
<1>3. ASSUME NEW i \in 1..(Len(s) + Len(t)), NEW j \in 1..(Len(s) + Len(t)), i < j
      PROVE  (s \o t)[i] < (s \o t)[j]
  <2>1. CASE j <= Len(s)
    BY <1>1, <1>3, <2>1 DEF Inc
  <2>2. CASE i > Len(s)
    <3>1. i - Len(s) \in 1..Len(t) /\ j - Len(s) \in 1..Len(t) /\ i - Len(s) < j - Len(s)
      BY <1>1, <1>3, <2>2
    <3>2. (s \o t)[i] = t[i - Len(s)] /\ (s \o t)[j] = t[j - Len(s)]
      BY <1>1, <1>3, <2>2
    <3>. QED  BY <3>1, <3>2 DEF Inc
  <2>3. CASE i <= Len(s) /\ j > Len(s)
    <3>1. s[i] \in Range(s) /\ (s \o t)[i] = s[i]
      BY <1>1, <2>3, LenProperties DEF Range
    <3>2. t[j - Len(s)] \in Range(t) /\ (s \o t)[j] = t[j - Len(s)]
      <4>1. j - Len(s) \in 1..Len(t)
        BY <1>1, <1>3, <2>3
      <4>. QED  BY <1>1, <1>3, <2>3, <4>1, LenProperties DEF Range
    <3>. QED  BY <3>1, <3>2 DEF Below
  <2>. QED  BY <1>1, <1>3, <2>1, <2>2, <2>3
<1>. QED  BY <1>1, <1>2, <1>3 DEF Inc

LEMMA RangeOfIds ==
  ASSUME NEW s \in Seq(Id)
  PROVE  /\ Range(s) \subseteq Id
         /\ Range(s) = {s[i] : i \in 1..Len(s)}
         /\ Len(s) \in Nat
<1>1. Len(s) \in Nat /\ DOMAIN s = 1..Len(s)
  BY LenProperties
<1>2. Range(s) = {s[i] : i \in 1..Len(s)}
  BY <1>1 DEF Range
<1>. QED  BY <1>1, <1>2, ElementOfSeq

LEMMA IncEmpty == <<>> \in Seq(Id) /\ Inc(<<>>) /\ Range(<<>>) = {} /\ Len(<<>>) = 0
BY DEF Inc, Range

\* What Append adds.
LEMMA IncAppend ==
  ASSUME NEW s \in Seq(Id), NEW x \in Id, Inc(s), \A y \in Range(s) : y < x
  PROVE  /\ Append(s, x) \in Seq(Id) /\ Len(Append(s, x)) = Len(s) + 1
         /\ Range(Append(s, x)) = Range(s) \cup {x}
         /\ Inc(Append(s, x))
<1>1. /\ Append(s, x) \in Seq(Id) /\ Len(Append(s, x)) = Len(s) + 1 /\ Len(s) \in Nat
      /\ \A i \in 1..Len(s) : Append(s, x)[i] = s[i]
      /\ Append(s, x)[Len(s) + 1] = x
  BY AppendProperties, LenProperties
<1>2. Range(Append(s, x)) = Range(s) \cup {x}
  <2>1. /\ Range(Append(s, x)) = {Append(s, x)[i] : i \in 1..(Len(s) + 1)}
        /\ Range(s) = {s[i] : i \in 1..Len(s)}
    BY <1>1, RangeOfIds
  <2>2. 1..(Len(s) + 1) = 1..Len(s) \cup {Len(s) + 1}
    BY <1>1
  <2>. QED  BY <1>1, <2>1, <2>2
<1>3. ASSUME NEW i \in 1..(Len(s) + 1), NEW j \in 1..(Len(s) + 1), i < j
      PROVE  Append(s, x)[i] < Append(s, x)[j]
  <2>1. i \in 1..Len(s)
    BY <1>1, <1>3
  <2>2. CASE j \in 1..Len(s)
    BY <1>1, <1>3, <2>1, <2>2 DEF Inc
  <2>3. CASE j = Len(s) + 1
    BY <1>1, <2>1, <2>3, RangeOfIds
  <2>. QED  BY <1>1, <2>2, <2>3
<1>. QED  BY <1>1, <1>2, <1>3 DEF Inc

\* What Head and Tail take apart.
LEMMA IncTail ==
  ASSUME NEW s \in Seq(Id), s # <<>>, Inc(s)
  PROVE  /\ Head(s) \in Id /\ Tail(s) \in Seq(Id) /\ Len(Tail(s)) = Len(s) - 1
         /\ Range(s) = {Head(s)} \cup Range(Tail(s))
         /\ Inc(Tail(s))
         /\ \A y \in Range(Tail(s)) : Head(s) < y
<1>1. /\ Head(s) \in Id /\ Tail(s) \in Seq(Id)
      /\ Len(s) \in Nat \ {0} /\ Len(Tail(s)) = Len(s) - 1
      /\ Head(s) = s[1]
      /\ \A i \in 1..Len(Tail(s)) : Tail(s)[i] = s[i + 1]
  BY HeadTailProperties, LenProperties, EmptySeq
<1>2. Range(Tail(s)) = {s[i + 1] : i \in 1..(Len(s) - 1)}
  <2>1. Range(Tail(s)) = {Tail(s)[i] : i \in 1..(Len(s) - 1)}
    BY <1>1, RangeOfIds
  <2>. QED  BY <1>1, <2>1
<1>3. Range(s) = {s[i] : i \in 1..Len(s)}
  BY RangeOfIds
<1>4. Range(s) = {Head(s)} \cup Range(Tail(s))
  <2>1. ASSUME NEW i \in 1..Len(s) PROVE s[i] \in {Head(s)} \cup Range(Tail(s))
    <3>1. CASE i = 1
      BY <1>1, <3>1
    <3>2. CASE i # 1
      <4>1. i - 1 \in 1..(Len(s) - 1) /\ (i - 1) + 1 = i
        BY <1>1, <3>2
      <4>. QED  BY <1>2, <4>1
    <3>. QED  BY <3>1, <3>2
  <2>2. ASSUME NEW i \in 1..(Len(s) - 1) PROVE s[i + 1] \in Range(s)
    <3>1. i + 1 \in 1..Len(s)
      BY <1>1
    <3>. QED  BY <1>3, <3>1
  <2>3. Head(s) \in Range(s)
    BY <1>1, <1>3
  <2>. QED  BY <1>2, <1>3, <2>1, <2>2, <2>3
<1>5. ASSUME NEW i \in 1..(Len(s) - 1) PROVE s[1] < s[i + 1]
  BY <1>1 DEF Inc
<1>6. Inc(Tail(s))
  <2>1. ASSUME NEW i \in 1..(Len(s) - 1), NEW j \in 1..(Len(s) - 1), i < j
        PROVE  s[i + 1] < s[j + 1]
    BY <1>1, <2>1 DEF Inc
  <2>. QED  BY <1>1, <2>1 DEF Inc
<1>. QED  BY <1>1, <1>2, <1>4, <1>5, <1>6

\* The limit a page applies.
LEMMA EffectiveType ==
  ASSUME PageTypes
  PROVE  /\ Effective \in Nat
         /\ format = "items" => Effective # 0 /\ Effective <= MaxLimit
         /\ format # "items" => Effective = ExportBatch
<1>1. \A a, b \in Nat : Min({a, b}) \in {a, b} /\ Min({a, b}) <= a /\ Min({a, b}) <= b
  <2>1. SUFFICES ASSUME NEW a \in Nat, NEW b \in Nat
                 PROVE  Min({a, b}) \in {a, b} /\ Min({a, b}) <= a /\ Min({a, b}) <= b
    OBVIOUS
  <2>2. \E x \in {a, b} : \A y \in {a, b} : x =< y
    OBVIOUS
  <2>. QED  BY <2>2 DEF Min
<1>2. limit \in Nat /\ DefaultLimit \in Nat \ {0} /\ MaxLimit \in Nat \ {0} /\ ExportBatch \in Nat
  BY PagingAssumption DEF PageTypes, PagingAssumption
<1>3. CASE format # "items"
  BY <1>2, <1>3 DEF Effective
<1>4. CASE format = "items" /\ limit > 0
  <2>1. Effective = Min({limit, MaxLimit})
    BY <1>4 DEF Effective
  <2>. QED  BY <1>1, <1>2, <1>4, <2>1
<1>5. CASE format = "items" /\ ~(limit > 0)
  <2>1. Effective = Min({DefaultLimit, MaxLimit})
    BY <1>5 DEF Effective
  <2>. QED  BY <1>1, <1>2, <1>5, <2>1
<1>. QED  BY <1>3, <1>4, <1>5

\* What a statement answers.
LEMMA PageOfIds ==
  ASSUME PageTypes, NEW s \in BoundedSeq(After, Cardinality(After)), IsPage(s, After, Effective)
  PROVE  /\ s \in Seq(Id) /\ Inc(s) /\ Range(s) \subseteq After
         /\ Effective # 0 => Len(s) <= Effective
         /\ \A x \in After \ Range(s) :
               Effective # 0 /\ Len(s) = Effective /\ \A y \in Range(s) : y < x
<1>1. After \subseteq Id /\ IsFiniteSet(After)
  <2>1. After \subseteq Id
    BY DEF After, PageTypes
  <2>. QED  BY <2>1, FS_Subset, PagingAssumption DEF PagingAssumption
<1>2. Cardinality(After) \in Nat
  BY <1>1, FS_CardinalityType
<1>3. s \in Seq(After)
  BY <1>2, SeqDef DEF BoundedSeq, SeqOf
<1>4. s \in Seq(Id)
  BY <1>1, <1>3, SeqMonotonic
<1>5. DOMAIN s = 1..Len(s)
  BY <1>4, LenProperties
<1>. QED  BY <1>4, <1>5 DEF IsPage, Inc

-----------------------------------------------------------------------------
LEMMA PagingInitInv == PagingInit => PageInv
<1>. SUFFICES ASSUME PagingInit PROVE PageInv
  OBVIOUS
<1>1. PageTypes
  <2>1. 0 \in 0..MaxWrites /\ Len(<<>>) < RowGroup /\ limit \in Nat
    BY IncEmpty, PagingAssumption DEF PagingInit, PagingAssumption
  <2>2. stored \subseteq Id /\ always = stored /\ ever = stored
    BY DEF PagingInit
  <2>3. /\ writes = 0 /\ format \in {"items", "ndjson", "parquet"} /\ after = 0 /\ pc = "request"
        /\ rows = <<>> /\ count = 0 /\ batch = <<>> /\ got = <<>> /\ truncated = FALSE
    BY DEF PagingInit
  <2>. QED  BY <2>1, <2>2, <2>3, IncEmpty DEF PageTypes
<1>2. IdleInv /\ SizeInv
  BY IncEmpty, PagingAssumption DEF PagingInit, IdleInv, SizeInv, PagingAssumption
<1>3. OrderInv
  BY IncEmpty DEF PagingInit, OrderInv, Below, InHand
<1>4. CoverInv
  BY IdsAreNumbers DEF PagingInit, CoverInv, Later
<1>. QED  BY <1>1, <1>2, <1>3, <1>4 DEF PageInv

LEMMA QueryKeeps == PageInv /\ Query => PageInv'
<1>. SUFFICES ASSUME PageInv, Query PROVE PageInv'
  OBVIOUS
<1>. USE DEF PageInv
<1>1. /\ pc = "request" /\ pc' = "rows" /\ count' = 0
      /\ UNCHANGED <<batch, got, truncated, format, limit, after, stored, writes, always, ever>>
  BY DEF Query, clientVars, storeVars
<1>2. /\ rows' \in Seq(Id) /\ Inc(rows') /\ Range(rows') \subseteq After
      /\ Effective # 0 => Len(rows') <= Effective
      /\ \A x \in After \ Range(rows') :
            Effective # 0 /\ Len(rows') = Effective /\ \A y \in Range(rows') : y < x
  BY PageOfIds DEF Query
<1>3. /\ Effective' = Effective /\ Len(rows') \in Nat
      /\ Range(rows) = {} /\ Range(batch) = {} /\ batch = <<>>
  BY <1>1, <1>2, LenProperties, IncEmpty DEF Effective, IdleInv
<1>4. PageTypes'
  BY <1>1, <1>2 DEF PageTypes
<1>5. IdleInv'
  BY <1>1, <1>3 DEF IdleInv
<1>6. SizeInv'
  BY <1>1, <1>2, <1>3, EffectiveType, PagingAssumption DEF SizeInv, PagingAssumption
<1>7. \A x \in Range(got), y \in After : x < y
  <2>1. Range(got) \subseteq Nat /\ After \subseteq Nat /\ after \in Nat
    <3>1. Range(got) \subseteq Id
      BY RangeOfIds DEF PageTypes
    <3>2. After \subseteq Id /\ after \in Id \cup {0}
      BY DEF PageTypes, After
    <3>3. Id \subseteq Nat /\ 0 \in Nat
      BY IdsAreNumbers
    <3>4. Range(got) \subseteq Nat /\ After \subseteq Nat
      BY ONLY <3>1, <3>2, <3>3
    <3>5. after \in Nat
      BY ONLY <3>2, <3>3
    <3>. QED  BY ONLY <3>4, <3>5
  <2>. QED  BY <1>1, <2>1 DEF OrderInv, After
<1>8. OrderInv'
  <2>1. InHand' \subseteq ever
    BY <1>1, <1>2 DEF InHand, OrderInv, PageTypes, After
  <2>. QED  BY <1>1, <1>2, <1>3, <1>7, <2>1 DEF OrderInv, Below
<1>9. CoverInv'
  <2>1. SUFFICES ASSUME ~truncated, NEW i \in always, i \notin InHand'
                 PROVE  Later(i)'
    BY <1>1 DEF CoverInv
  <2>2. i \notin Range(got) /\ i \notin Range(rows') /\ InHand' = Range(got) \cup Range(rows')
    BY <1>1, <1>3, <2>1 DEF InHand
  <2>3. i \in After
    BY <1>1, <1>3, <2>1, <2>2 DEF CoverInv, Later, InHand, After, PageTypes
  <2>4. Effective # 0 /\ Len(rows') = Effective /\ \A x \in InHand' : x < i
    BY <1>2, <1>7, <2>2, <2>3
  <2>. QED  BY <1>1, <1>3, <2>3, <2>4, EffectiveType DEF Later, After
<1>. QED  BY <1>4, <1>5, <1>6, <1>8, <1>9

\* A turn of the loop moves a row on, and changes nothing else that is in hand.
LEMMA TurnKeeps ==
  ASSUME PageInv, pc = "rows", rows # <<>>,
         UNCHANGED <<pc, truncated, format, limit, after, stored, writes, always, ever>>,
         rows' = Tail(rows), count' = count + 1,
         got' \in Seq(Id), batch' \in Seq(Id), Len(batch') < RowGroup,
         format # "parquet" => batch' = <<>>,
         Inc(got'), Inc(batch'), Below(Range(got'), Range(batch')),
         Range(got') \cup Range(batch') = Range(got) \cup Range(batch) \cup {Head(rows)}
  PROVE  PageInv'
<1>. USE DEF PageInv
<1>1. /\ Head(rows) \in Id /\ Tail(rows) \in Seq(Id) /\ Len(Tail(rows)) = Len(rows) - 1
      /\ Range(rows) = {Head(rows)} \cup Range(Tail(rows))
      /\ Inc(Tail(rows))
      /\ \A y \in Range(Tail(rows)) : Head(rows) < y
      /\ Len(rows) \in Nat /\ count \in Nat
  BY IncTail, LenProperties DEF PageTypes, OrderInv
<1>2. PageTypes'
  BY <1>1 DEF PageTypes
<1>3. IdleInv' /\ SizeInv'
  <2>1. count' + Len(rows') = count + Len(rows)
    BY <1>1
  <2>. QED  BY <2>1 DEF IdleInv, SizeInv
<1>4. InHand' = InHand
  BY <1>1 DEF InHand
<1>5. OrderInv'
  <2>1. \A x \in Range(got) \cup Range(batch) \cup {Head(rows)}, y \in Range(Tail(rows)) : x < y
    BY <1>1 DEF OrderInv, Below
  <2>. QED  BY <1>1, <1>4, <2>1 DEF OrderInv, Below
<1>6. CoverInv'
  <2>1. Effective' = Effective /\ count' + Len(rows') = count + Len(rows)
    BY <1>1 DEF Effective
  <2>. QED  BY <1>4, <2>1 DEF CoverInv, Later
<1>. QED  BY <1>2, <1>3, <1>5, <1>6

LEMMA WriteRowKeeps == PageInv /\ WriteRow => PageInv'
<1>. SUFFICES ASSUME PageInv, WriteRow PROVE PageInv'
  OBVIOUS
<1>. USE DEF PageInv
<1>1. Head(rows) \in Id /\ Head(rows) \in Range(rows)
  BY IncTail DEF WriteRow, PageTypes, OrderInv
<1>2. \A y \in Range(got) : y < Head(rows)
  BY <1>1 DEF OrderInv, Below
<1>3. batch = <<>>
  BY DEF WriteRow, IdleInv
<1>4. /\ got' \in Seq(Id) /\ Range(got') = Range(got) \cup {Head(rows)} /\ Inc(got')
  BY <1>1, <1>2, IncAppend DEF WriteRow, PageTypes, OrderInv
<1>. QED  BY <1>3, <1>4, IncEmpty, TurnKeeps DEF WriteRow, clientVars, storeVars, PageTypes, OrderInv, Below

LEMMA BatchRowKeeps == PageInv /\ BatchRow => PageInv'
<1>. SUFFICES ASSUME PageInv, BatchRow PROVE PageInv'
  OBVIOUS
<1>. USE DEF PageInv
<1>. DEFINE full == Append(batch, Head(rows))
<1>1. Head(rows) \in Id /\ Head(rows) \in Range(rows)
  BY IncTail DEF BatchRow, PageTypes, OrderInv
<1>2. \A y \in Range(batch) \cup Range(got) : y < Head(rows)
  BY <1>1 DEF OrderInv, Below
<1>3. full \in Seq(Id) /\ Range(full) = Range(batch) \cup {Head(rows)} /\ Inc(full) /\ Len(full) = Len(batch) + 1
  BY <1>1, <1>2, IncAppend DEF PageTypes, OrderInv
<1>4. Below(Range(got), Range(full))
  BY <1>2, <1>3 DEF OrderInv, Below
<1>5. CASE Len(full) = RowGroup
  <2>1. batch' = <<>> /\ got' = got \o full
    BY <1>5 DEF BatchRow
  <2>2. got' \in Seq(Id) /\ Range(got') = Range(got) \cup Range(full) /\ Inc(got')
    BY <1>3, <1>4, <2>1, IncConcat DEF PageTypes, OrderInv
  <2>3. Len(batch') < RowGroup
    BY <2>1, IncEmpty, PagingAssumption DEF PagingAssumption
  <2>. QED  BY <1>3, <2>1, <2>2, <2>3, IncEmpty, TurnKeeps DEF BatchRow, clientVars, storeVars, Below
<1>6. CASE Len(full) # RowGroup
  <2>1. batch' = full /\ got' = got
    BY <1>6 DEF BatchRow
  <2>2. Len(full) < RowGroup
    <3>1. Len(batch) \in Nat /\ RowGroup \in Nat
      BY LenProperties, PagingAssumption DEF PageTypes, PagingAssumption
    <3>. QED  BY <1>3, <1>6, <3>1 DEF PageTypes
  <2>3. got \in Seq(Id) /\ Inc(got)
    BY DEF PageTypes, OrderInv
  <2>. QED  BY <1>3, <1>4, <2>1, <2>2, <2>3, TurnKeeps DEF BatchRow, clientVars, storeVars
<1>. QED  BY <1>5, <1>6

LEMMA BreakKeeps == PageInv /\ Break => PageInv'
<1>. SUFFICES ASSUME PageInv, Break PROVE PageInv'
  OBVIOUS
<1>. USE DEF PageInv
<1>1. /\ pc = "rows" /\ rows' = <<>> /\ truncated' = TRUE
      /\ UNCHANGED <<pc, count, batch, got, format, limit, after, stored, writes, always, ever>>
  BY DEF Break, clientVars, storeVars
<1>2. PageTypes'
  BY <1>1, IncEmpty DEF PageTypes
<1>3. IdleInv'
  BY <1>1 DEF IdleInv
<1>4. SizeInv'
  <2>1. Len(rows) \in Nat /\ count \in Nat /\ MaxLimit \in Nat
    BY LenProperties, PagingAssumption DEF PageTypes, PagingAssumption
  <2>. QED  BY <1>1, <2>1, IncEmpty DEF SizeInv
<1>5. OrderInv'
  BY <1>1, IncEmpty DEF OrderInv, Below, InHand
<1>6. CoverInv'
  BY <1>1 DEF CoverInv
<1>. QED  BY <1>2, <1>3, <1>4, <1>5, <1>6

LEMMA EndPageKeeps == PageInv /\ EndPage => PageInv'
<1>. SUFFICES ASSUME PageInv, EndPage PROVE PageInv'
  OBVIOUS
<1>. USE DEF PageInv
<1>1. /\ pc = "rows" /\ rows = <<>> /\ rows' = <<>> /\ batch' = <<>> /\ got' = got \o batch
      /\ UNCHANGED <<count, truncated, format, stored, writes, always, ever>>
      /\ Len(rows) = 0 /\ Range(rows) = {}
  BY IncEmpty DEF EndPage, storeVars
<1>2. /\ got' \in Seq(Id) /\ Range(got') = Range(got) \cup Range(batch) /\ Inc(got')
      /\ InHand' = InHand
  <2>1. /\ got' \in Seq(Id) /\ Range(got') = Range(got) \cup Range(batch) /\ Inc(got')
    BY <1>1, IncConcat DEF PageTypes, OrderInv
  <2>. QED  BY <1>1, <2>1, IncEmpty DEF InHand
<1>3. IdleInv' /\ SizeInv'
  BY <1>1 DEF IdleInv, SizeInv
<1>4. CASE HasLink
  <2>1. /\ pc' = "request" /\ limit' = Effective
        /\ after' = IF got = <<>> THEN after ELSE Last(got)
        /\ format = "items" /\ count = Effective
    BY <1>4 DEF EndPage, HasLink
  <2>2. batch = <<>> /\ Range(got') = Range(got) /\ Range(batch) = {}
    BY <1>2, <2>1, IncEmpty DEF IdleInv
  <2>3. got # <<>> => after' \in Range(got) /\ \A x \in Range(got) : x <= after'
    <3>1. SUFFICES ASSUME got # <<>>
                   PROVE  Last(got) \in Range(got) /\ \A x \in Range(got) : x <= Last(got)
      BY <2>1
    <3>2. Len(got) \in Nat \ {0} /\ Range(got) = {got[i] : i \in 1..Len(got)} /\ Range(got) \subseteq Nat
      BY <3>1, RangeOfIds, EmptySeq, IdsAreNumbers DEF PageTypes
    <3>3. Last(got) = got[Len(got)] /\ Len(got) \in 1..Len(got)
      BY <3>2 DEF Last
    <3>4. ASSUME NEW i \in 1..Len(got) PROVE got[i] <= got[Len(got)]
      <4>1. got[i] \in Nat /\ got[Len(got)] \in Nat
        BY <3>2, <3>3
      <4>2. CASE i = Len(got)
        BY <4>1, <4>2
      <4>3. CASE i < Len(got)
        BY <3>3, <4>1, <4>3 DEF OrderInv, Inc
      <4>. QED  BY <3>2, <4>2, <4>3
    <3>. QED  BY <3>2, <3>3, <3>4
  <2>4. after' \in Id \cup {0}
    BY <2>1, <2>3, RangeOfIds DEF PageTypes
  <2>5. PageTypes'
    BY <1>1, <1>2, <2>1, <2>4, EffectiveType, IncEmpty, PagingAssumption DEF PageTypes, PagingAssumption
  <2>6. OrderInv'
    BY <1>1, <1>2, <2>1, <2>2, <2>3, IncEmpty DEF OrderInv, Below
  <2>7. CoverInv'
    <3>1. SUFFICES ASSUME ~truncated, NEW i \in always, i \notin InHand
                   PROVE  i > after'
      BY <1>1, <1>2, <2>1 DEF CoverInv, Later
    <3>2. i > after /\ \A x \in InHand : x < i
      BY <1>1, <3>1 DEF CoverInv, Later
    <3>3. CASE got = <<>>
      BY <2>1, <3>2, <3>3
    <3>4. CASE got # <<>>
      <4>1. after' \in InHand
        BY <2>3, <3>4 DEF InHand
      <4>2. i \in Nat /\ after' \in Nat
        BY <2>4, <3>1, IdsAreNumbers DEF PageTypes
      <4>. QED  BY <3>2, <4>1, <4>2
    <3>. QED  BY <3>3, <3>4
  <2>. QED  BY <1>3, <2>5, <2>6, <2>7
<1>5. CASE ~HasLink
  <2>1. pc' = "done" /\ UNCHANGED <<limit, after>>
    BY <1>5 DEF EndPage
  <2>2. PageTypes'
    BY <1>1, <1>2, <2>1, IncEmpty, PagingAssumption DEF PageTypes, PagingAssumption
  <2>3. OrderInv'
    BY <1>1, <1>2, <2>1, IncEmpty DEF OrderInv, Below
  <2>4. CoverInv'
    <3>1. SUFFICES ASSUME ~truncated, NEW i \in always, i \notin InHand
                   PROVE  format # "items" /\ ExportBatch # 0
      BY <1>1, <1>2, <2>1 DEF CoverInv, Later
    <3>2. Effective # 0 /\ count + Len(rows) = Effective
      BY <1>1, <3>1 DEF CoverInv, Later
    <3>3. count = Effective
      BY <1>1, <3>2 DEF PageTypes
    <3>. QED  BY <1>5, <3>2, <3>3, EffectiveType DEF HasLink
  <2>. QED  BY <1>3, <2>2, <2>3, <2>4
<1>. QED  BY <1>4, <1>5

\* Another client's write: what was stored all the time can only become less.
LEMMA WritesKeep ==
  ASSUME PageInv, NEW i \in Id, Insert(i) \/ Delete(i)
  PROVE  PageInv'
<1>. USE DEF PageInv
<1>1. UNCHANGED <<pc, rows, count, batch, got, truncated, format, limit, after>>
  BY DEF Insert, Delete, pageVars, clientVars
<1>2. /\ stored' \subseteq Id /\ always' \subseteq stored' /\ stored' \subseteq ever'
      /\ ever' \subseteq Id /\ ever \subseteq ever' /\ always' \subseteq always
  BY DEF Insert, Delete, PageTypes
<1>3. writes' \in 0..MaxWrites
  BY PagingAssumption DEF Insert, Delete, PageTypes, PagingAssumption
<1>4. PageTypes'
  BY <1>1, <1>2, <1>3 DEF PageTypes
<1>5. IdleInv' /\ SizeInv'
  BY <1>1 DEF IdleInv, SizeInv
<1>6. InHand' = InHand /\ Effective' = Effective
  BY <1>1 DEF InHand, Effective
<1>7. OrderInv'
  BY <1>1, <1>2, <1>6 DEF OrderInv, Below
<1>8. CoverInv'
  BY <1>1, <1>2, <1>6 DEF CoverInv, Later
<1>. QED  BY <1>4, <1>5, <1>7, <1>8

LEMMA PagingNextInv == PageInv /\ [PagingNext]_pagingVars => PageInv'
<1>. SUFFICES ASSUME PageInv, [PagingNext]_pagingVars PROVE PageInv'
  OBVIOUS
<1>1. CASE PagingDone \/ UNCHANGED pagingVars
  <2>1. UNCHANGED <<pageVars, clientVars, storeVars>>
    BY <1>1 DEF PagingDone, pagingVars
  <2>. QED
    BY <2>1 DEF pageVars, clientVars, storeVars, PageInv, PageTypes, IdleInv, SizeInv, OrderInv, CoverInv,
                InHand, Later, Effective, Below
<1>. QED
  BY <1>1, QueryKeeps, WriteRowKeeps, BatchRowKeeps, BreakKeeps, EndPageKeeps, WritesKeep DEF PagingNext, Read

LEMMA PagingInductive == PagingSafetySpec => []PageInv
BY PagingInitInv, PagingNextInv, PTL DEF PagingSafetySpec

-----------------------------------------------------------------------------
\* Type correctness of paging: with it, that a page and a row group never outgrow their limits.
THEOREM PagingTypeCorrect == PagingSafetySpec => []PagingTypeOK
<1>1. PageInv => PagingTypeOK
  BY DEF PageInv, PageTypes, SizeInv, PagingTypeOK
<1>. QED  BY <1>1, PagingInductive, PTL

\* A client receives features in the order of their ids, over all its pages, none twice, and
\* each was stored while it read.
THEOREM PagingInKeysetOrder == PagingSafetySpec => []InKeysetOrder
<1>1. PageInv => InKeysetOrder
  <2>. SUFFICES ASSUME PageInv PROVE InKeysetOrder
    OBVIOUS
  <2>1. /\ got \o batch \in Seq(Id) /\ Inc(got \o batch)
        /\ Range(got \o batch) = Range(got) \cup Range(batch)
    BY IncConcat DEF PageInv, PageTypes, OrderInv
  <2>2. DOMAIN (got \o batch) = 1..Len(got \o batch)
    BY <2>1, LenProperties
  <2>3. Range(got \o batch) \subseteq ever
    BY <2>1 DEF PageInv, OrderInv, InHand
  <2>. QED  BY <2>1, <2>2, <2>3 DEF InKeysetOrder, Inc
<1>. QED  BY <1>1, PagingInductive, PTL

\* Who has followed the links to the end, no page broken off, has all that was stored all the
\* time, whatever was inserted and deleted before, at and behind the cursor.
THEOREM PagingComplete == PagingSafetySpec => []Complete
<1>1. PageInv => Complete
  <2>. SUFFICES ASSUME PageInv, pc = "done", ~truncated, format = "items" \/ ExportBatch = 0,
                       NEW i \in always
                PROVE  i \in Range(got)
    BY DEF Complete
  <2>1. Range(rows) = {} /\ Range(batch) = {}
    BY IncEmpty DEF PageInv, IdleInv
  <2>. QED  BY <2>1 DEF PageInv, CoverInv, Later, InHand
<1>. QED  BY <1>1, PagingInductive, PTL

=============================================================================
