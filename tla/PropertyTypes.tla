--------------------------- MODULE PropertyTypes ---------------------------
(***************************************************************************)
(* The types of temporal properties: which MEOS types the tier carries,    *)
(* the tokens a request may name them by, the token a row keeps, and the   *)
(* column of mf_tproperty that has the values (src/main.go, over the       *)
(* table of src/catalog_gen.go).  A column is named here by the type it    *)
(* holds.  Tokens are compared in lower case, and written so here.         *)
(***************************************************************************)
EXTENDS FiniteSets

Type(base, spatial, mfjson) == [base |-> base, spatial |-> spatial, mfjson |-> mfjson]

\* The catalog; of the types no property can have, one for each reason.
TemporalTypes ==
    [tbool      |-> Type("bool", FALSE, TRUE),
     tint       |-> Type("int4", FALSE, TRUE),
     tbigint    |-> Type("int8", FALSE, TRUE),
     tfloat     |-> Type("float8", FALSE, TRUE),
     ttext      |-> Type("text", FALSE, TRUE),
     tgeompoint |-> Type("geometry", TRUE, TRUE),
     tdouble2   |-> Type("double2", FALSE, FALSE),
     tjsonb     |-> Type("jsonb", FALSE, TRUE)]

\* The OGC token of a base type.
OgcScalar ==
    [bool |-> "tboolean", int4 |-> "tinteger", int8 |-> "tinteger", float8 |-> "treal", text |-> "ttext"]

\* The names of a type that are neither its own nor its token.
Aliases ==
    [tfloat  |-> {"", "measure", "real", "float", "double", "number"},
     tint    |-> {"integer", "int"},
     tbigint |-> {"bigint", "long"},
     ttext   |-> {"tstring", "text", "string"},
     tbool   |-> {"boolean", "bool"}]

TPropAlias ==
    [a \in UNION {Aliases[n] : n \in DOMAIN Aliases} |-> CHOOSE n \in DOMAIN Aliases : a \in Aliases[n]]

\* The type a token stands for when several types carry it.
OgcCanonical == [tinteger |-> "tint"]

ScalarTemporalTypes ==
    {n \in DOMAIN TemporalTypes :
        LET t == TemporalTypes[n] IN ~t.spatial /\ t.mfjson /\ t.base \in DOMAIN OgcScalar}

\* What a row keeps of its type.
OgcToken(n) == OgcScalar[TemporalTypes[n].base]
OgcTokens == {OgcToken(n) : n \in ScalarTemporalTypes}

Carriers(token) == {n \in ScalarTemporalTypes : OgcToken(n) = token}

Owner(token) ==
    IF Cardinality(Carriers(token)) = 1 THEN CHOOSE n \in Carriers(token) : TRUE
                                        ELSE OgcCanonical[token]

\* Aliases first, then OGC tokens, then the names of the types: the order in which the map
\* is filled, backwards.
TPropTokens ==
    [token \in DOMAIN TPropAlias \cup OgcTokens \cup ScalarTemporalTypes |->
        CASE token \in DOMAIN TPropAlias             -> TPropAlias[token]
          [] token \in OgcTokens \ DOMAIN TPropAlias -> Owner(token)
          [] OTHER                                   -> token]

TPropType(token) == TPropTokens[token]
=============================================================================
