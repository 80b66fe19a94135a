-------------------------------- MODULE Json --------------------------------
(***************************************************************************)
(* The conversions between JSON and C++ types: the macros and serialisers  *)
(* of src/src/json/json_serialisation.hpp, and what they use of the        *)
(* library nlohmann::json (external).                                      *)
(*                                                                         *)
(* A JSON value is a pair of its kind and what it holds; an object holds a *)
(* function from the names of its members.  A C++ value is the string,     *)
(* number or Boolean itself, a sequence (a vector; an optional has at most *)
(* one element), a pair of the alternative's number and its value (a       *)
(* variant), a function from the names of its members (a struct, a map).   *)
(*                                                                         *)
(* For a type T, get_T(j) is j.get<T>() and json_T(v) is json( v ).  What  *)
(* the code has as a template takes the operators of its type arguments.   *)
(***************************************************************************)
EXTENDS Integers, Sequences

CONSTANTS   \* what an uninitialised member of these types holds
  IndeterminateInt, IndeterminateBool, IndeterminateName

Null == <<"null", <<>>>>
Str(s) == <<"string", s>>
Num(n) == <<"number", n>>
Bool(b) == <<"boolean", b>>
Arr(s) == <<"array", s>>
Obj(f) == <<"object", f>>

Is(j, kind) == j = <<kind, j[2]>>
contains(j, name) == Is(j, "object") /\ name \in DOMAIN j[2]
at(j, name) == j[2][name]

(* Two structs as one, the second one's members before the first one's     *)
Joined(f, g) == [n \in DOMAIN f \cup DOMAIN g |-> IF n \in DOMAIN g THEN g[n] ELSE f[n]]
----------------------------------------------------------------------------
(* get: the value, as a sequence of one, or <<>> if it throws.             *)
Threw(r) == r = <<>>

(* The results one by one, or nothing if one of them threw                 *)
All(rs) == IF \E i \in DOMAIN rs : Threw(rs[i]) THEN <<>>
           ELSE <<[i \in DOMAIN rs |-> rs[i][1]]>>

get_scalar(j, kind) == IF Is(j, kind) THEN <<j[2]>> ELSE <<>>
get_string(j) == get_scalar(j, "string")
get_integer(j) == get_scalar(j, "number")    \* int64_t, uint64_t, double and enums
get_bool(j) == get_scalar(j, "boolean")
get_object(j) == get_scalar(j, "object")     \* nlohmann::json::object_t
get_any(j) == <<j>>                          \* nlohmann::json

(* The other integers, which a Boolean converts to                         *)
get_int(j) == IF Is(j, "boolean") THEN <<IF j[2] THEN 1 ELSE 0>> ELSE get_integer(j)

(* NLOHMANN_JSON_SERIALIZE_ENUM: the names, the first one for any other    *)
get_named(names, j) == <<IF \E i \in DOMAIN names : j = Str(names[i]) THEN j[2] ELSE names[1]>>

get_elements(get(_), j, kind) ==
  IF Is(j, kind) THEN All([i \in DOMAIN j[2] |-> get(j[2][i])]) ELSE <<>>
get_array(get(_), j) == get_elements(get, j, "array")
get_map(get(_), j) == get_elements(get, j, "object")

(* Of j and the value in it: an optional that may be null                  *)
get_optional(j, r) == IF j = Null THEN <<<<>>>> ELSE IF Threw(r) THEN <<>> ELSE <<r>>

(* one_of<A, B>: both alternatives are tried and the second overwrites the *)
(* first; the exceptions are swallowed, and if there were two the default  *)
(* stays.                                                                  *)
one_of(first, second, default) ==
  IF ~Threw(second) THEN <<<<2, second[1]>>>>
  ELSE IF ~Threw(first) THEN <<<<1, first[1]>>>>
  ELSE <<<<1, default>>>>

(* The members of a struct: j.at( name ), optional and Nullable ones, and  *)
(* j.value( name, default )                                                *)
from_member(j, name, r, otherwise) == IF contains(j, name) THEN r ELSE otherwise
mandatory(j, name, get(_)) == from_member(j, name, get(at(j, name)), <<>>)
optional(j, name, get(_)) ==
  from_member(j, name, get_optional(at(j, name), get(at(j, name))), <<<<>>>>)
value(j, name, get(_), default) == from_member(j, name, get(at(j, name)), <<default>>)

(* NLOHMANN_DEFINE_TYPE_INTRUSIVE: members that are not optional are       *)
(* mandatory.  ..._WITH_DEFAULT: no member is, but j must be an object.    *)
(* ..._AND_BASE: the same, after the base.                                 *)
Mandatory(members) == All(members)
WithDefault(j, members) == IF Is(j, "object") THEN All(members) ELSE <<>>
AndBase(base, j, members) ==
  LET own == WithDefault(j, members)
  IN  IF Threw(base) \/ Threw(own) THEN <<>> ELSE <<Joined(base[1], own[1])>>
----------------------------------------------------------------------------
(* json: to_json_optional leaves a member that is an unset optional out, a *)
(* Nullable that is unset is null.  A member to be written is a sequence   *)
(* of one.                                                                 *)
Written(members) ==
  [n \in {n \in DOMAIN members : members[n] # <<>>} |-> members[n][1]]

if_set(json(_), o) == IF o = <<>> THEN <<>> ELSE <<json(o[1])>>
or_null(json(_), o) == IF o = <<>> THEN Null ELSE json(o[1])
json_array(json(_), v) == Arr([i \in DOMAIN v |-> json(v[i])])
=============================================================================
