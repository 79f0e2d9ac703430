------------------------------ MODULE Parameter ------------------------------
(***************************************************************************)
(* ParameterType, Parameter and ParametricInterface of parameter.hh and    *)
(* parameter.cc. A dictionary is a function; keys_, which update_keys()    *)
(* sorts anew whenever a key comes, is its domain. The size of a value is  *)
(* all that a type tells of it.                                            *)
(***************************************************************************)
EXTENDS Naturals, FiniteSets

CONSTANTS
  Keys,          \* the keys in use
  Unspecified,   \* the key "__unspecified__"
  Sizes,         \* the sizes of values
  MaxParts       \* bound: how often a function's type is extended

ASSUME ParameterAssumption ==
  IsFiniteSet(Keys) /\ Unspecified \in Keys /\ Sizes \subseteq Nat /\ MaxParts \in Nat

VARIABLES
  parameter_type_,  \* the type of a function made of parts
  parts             \* the types it was extended by

parameterVars == <<parameter_type_, parts>>

Dicts == UNION {[K -> Sizes] : K \in SUBSET Keys}

Single(d) == Cardinality(DOMAIN d) = 1
KeyOf(d) == CHOOSE k \in DOMAIN d : TRUE

-----------------------------------------------------------------------------
\* ParameterType::operator==
SameType(s, t) ==
  IF Single(s) /\ Single(t)
  THEN /\ KeyOf(s) = KeyOf(t) \/ Unspecified \in {KeyOf(s), KeyOf(t)}
       /\ s[KeyOf(s)] = t[KeyOf(t)]
  ELSE s = t

\* operator<
StrictlyWithin(s, t) ==
  /\ Cardinality(DOMAIN s) < Cardinality(DOMAIN t)
  /\ \A k \in DOMAIN s : k \in DOMAIN t /\ s[k] = t[k]

\* operator<=
Within(s, t) == StrictlyWithin(s, t) \/ SameType(s, t)

\* SimpleDict::merge throws if the values of a common key differ.
Mergeable(s, t) == \A k \in DOMAIN s \cap DOMAIN t : s[k] = t[k]

\* Mutant: only the first key of the other dictionary that is new is added.
MergedFirst(s, t) ==
  IF DOMAIN t \subseteq DOMAIN s THEN s
  ELSE LET new == CHOOSE k \in DOMAIN t \ DOMAIN s : TRUE
       IN  [k \in DOMAIN s \cup {new} |-> IF k \in DOMAIN s THEN s[k] ELSE t[k]]

Merged(s, t) == [k \in DOMAIN s \cup DOMAIN t |-> IF k \in DOMAIN s THEN s[k] ELSE t[k]]

\* Mutant: a parameter with fewer keys is good enough.
AcceptsFewer(type, mu) ==
  IF Single(type) /\ Single(mu)
  THEN KeyOf(type) = KeyOf(mu) \/ Unspecified \in {KeyOf(type), KeyOf(mu)}
  ELSE Within(mu, type)

\* parse_parameter(): whether a parameter of type mu is accepted ...
Accepts(type, mu) ==
  IF Single(type) /\ Single(mu)
  THEN KeyOf(type) = KeyOf(mu) \/ Unspecified \in {KeyOf(type), KeyOf(mu)}
  ELSE Within(type, mu)

\* Mutant: the parameter is handed on with the key it came with.
ParsedAsIs(type, mu) == mu

\* ... and the type of what it returns.
Parsed(type, mu) ==
  IF Single(type) /\ Single(mu) /\ KeyOf(type) # Unspecified /\ KeyOf(mu) = Unspecified
  THEN [k \in {KeyOf(type)} |-> mu[Unspecified]]
  ELSE mu

-----------------------------------------------------------------------------
ParameterInit == parameter_type_ = <<>> /\ parts = {}

\* extend_parameter_type()
extend_parameter_type(type) ==
  /\ Cardinality(parts) < MaxParts
  /\ Mergeable(parameter_type_, type)
  /\ parameter_type_' = Merged(parameter_type_, type)
  /\ parts' = parts \cup {type}

ParameterNext == \E type \in Dicts : extend_parameter_type(type)

ParameterSpec == ParameterInit /\ [][ParameterNext]_parameterVars

-----------------------------------------------------------------------------
\* However a function was put together, its type is within no less than what
\* each part needs, and no key comes from nowhere: the order of
\* extend_parameter_type() calls does not matter.
TypeIsUnion ==
  /\ DOMAIN parameter_type_ = UNION {DOMAIN p : p \in parts}
  /\ \A p \in parts : Within(p, parameter_type_)

\* A parameter that the function accepts is, as parse_parameter() returned it,
\* accepted by every part it is handed on to, a key that was given as
\* "__unspecified__" included.
PartsAccept ==
  \A mu \in Dicts : Accepts(parameter_type_, mu) =>
    \A p \in parts : Accepts(p, Parsed(parameter_type_, mu))

\* What parse_parameter() returns has all the keys of the type. It has the
\* sizes as well unless both have a single key, where no size is looked at.
ParsedHasKeys ==
  \A mu \in Dicts : Accepts(parameter_type_, mu) =>
    LET nu == Parsed(parameter_type_, mu)
    IN  \/ Single(mu) /\ DOMAIN parameter_type_ = {Unspecified}
        \/ /\ DOMAIN parameter_type_ \subseteq DOMAIN nu
           /\ ~Single(mu) => \A k \in DOMAIN parameter_type_ : nu[k] = parameter_type_[k]

\* A function made of parts in any order accepts the parameters its parts accept.
ParameterInv == TypeIsUnion /\ PartsAccept /\ ParsedHasKeys
==============================================================================
