--------------------------- MODULE ParameterValues ---------------------------
(***************************************************************************)
(* SimpleDict and Parameter of parameter.hh and parameter.cc with their    *)
(* values; module Parameter is about what their sizes decide. A dictionary *)
(* is a function of its keys, which are numbers here, in the order of the  *)
(* texts they stand for; the value of a parameter is a sequence.           *)
(***************************************************************************)
EXTENDS FloatComparison, Sequences, SequencesExt, FiniteSetsExt, TLC

LOCAL Refused == [thrown |-> TRUE]
LOCAL Gave(dict) == [thrown |-> FALSE, value |-> dict]

\* The key "", which constructors take and set() refuses.
EmptyKey == 0

\* Bug: the last pair of a key counts.
FromPairsLast(pairs) ==
  [k \in {pairs[i][1] : i \in DOMAIN pairs} |->
     pairs[Max({i \in DOMAIN pairs : pairs[i][1] = k})][2]]
\* The first pair of a key counts: emplace() leaves what is there.
FromPairs(pairs) ==
  [k \in {pairs[i][1] : i \in DOMAIN pairs} |->
     pairs[Min({i \in DOMAIN pairs : pairs[i][1] = k})][2]]

SetKey(dict, key, value, overwrite) ==
  IF key = EmptyKey \/ (key \in DOMAIN dict /\ ~overwrite) THEN Refused
  ELSE Gave((key :> value) @@ dict)

\* merge() looks at all keys of the other, and sets those that are new; the values
\* of the common keys in agreeing are taken for equal.
Merge(dict, other, agreeing) ==
  IF dict = <<>> THEN Gave(other)
  ELSE IF \/ \E k \in DOMAIN dict \cap DOMAIN other : k \notin agreeing
          \/ EmptyKey \in DOMAIN other \ DOMAIN dict
  THEN Refused
  ELSE Gave(dict @@ other)

\* operator+ of types and of parameters
TypeSum(type, other) ==
  Merge(type, other, {k \in DOMAIN type \cap DOMAIN other : type[k] = other[k]})
AsOperand(x) == [c \in {<<i, 1, 1>> : i \in DOMAIN x} |-> x[c[1]]]
ParameterSum(mu, other, tol) ==
  Merge(mu, other, {k \in DOMAIN mu \cap DOMAIN other :
    Len(mu[k]) = Len(other[k]) /\ FloatEq(AsOperand(mu[k]), AsOperand(other[k]), tol)})

\* type() sets key by key.
TypeOf(mu) ==
  IF EmptyKey \in DOMAIN mu THEN Refused ELSE Gave([k \in DOMAIN mu |-> Len(mu[k])])

\* operator< is that of std::map: key by key, and the values of a common key
\* before the next key.
LexicographicLess(s, t, Less(_, _)) ==
  \E i \in DOMAIN t :
    /\ i > Len(s) \/ Less(s[i], t[i])
    /\ \A j \in 1..i - 1 : j \in DOMAIN s /\ ~Less(s[j], t[j]) /\ ~Less(t[j], s[j])
Ascending(keys) ==
  CHOOSE seq \in [1..Cardinality(keys) -> keys] :
    /\ \A i, j \in DOMAIN seq : i < j => seq[i] < seq[j]
    /\ \A k \in keys : \E i \in DOMAIN seq : seq[i] = k
AsPairs(dict) ==
  LET keys == Ascending(DOMAIN dict) IN [i \in DOMAIN keys |-> <<keys[i], dict[keys[i]]>>]
ParameterLess(mu, nu) ==
  LexicographicLess(AsPairs(mu), AsPairs(nu), LAMBDA p, q :
    p[1] < q[1] \/ (p[1] = q[1] /\ LexicographicLess(p[2], q[2], LAMBDA x, y : x < y)))

-----------------------------------------------------------------------------
\* Parameters are ordered strictly and totally, exactly and not up to the
\* tolerances of operator+, as a std::map of parameters needs.
ParametersOrdered(mu, nu, xi) ==
  /\ Cardinality({r \in {<<1, ParameterLess(mu, nu)>>, <<2, mu = nu>>, <<3, ParameterLess(nu, mu)>>} : r[2]}) = 1
  /\ ParameterLess(mu, nu) /\ ParameterLess(nu, xi) => ParameterLess(mu, xi)

\* A sum of parameters has the sum of their types as its type, takes all that it
\* was made of again, the left one exactly, and has the same keys whichever comes
\* first.  Only the key "" comes without a type, and only through constructors.
SumsKeepTypes(mu, nu, tol) ==
  LET sum == ParameterSum(mu, nu, tol)
      turned == ParameterSum(nu, mu, tol)
  IN  /\ (~sum.thrown /\ EmptyKey \notin DOMAIN sum.value) =>
           TypeOf(sum.value) = TypeSum(TypeOf(mu).value, TypeOf(nu).value)
      /\ ~sum.thrown => ParameterSum(sum.value, mu, tol) = sum /\ ~ParameterSum(sum.value, nu, tol).thrown
      /\ ~sum.thrown /\ ~turned.thrown => DOMAIN sum.value = DOMAIN turned.value

\* A dictionary made of pairs is that which set() makes of them one by one.
PairsAreSet(pairs) ==
  LET SetOne(dict, pair) ==
        LET set == SetKey(dict, pair[1], pair[2], FALSE) IN IF set.thrown THEN dict ELSE set.value
  IN  (\A i \in DOMAIN pairs : pairs[i][1] # EmptyKey) =>
        FromPairs(pairs) = FoldLeft(SetOne, <<>>, pairs)
==============================================================================
