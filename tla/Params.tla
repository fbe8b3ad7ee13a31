------------------------------- MODULE Params -------------------------------
(***************************************************************************)
(* The parameters of a statement (param.cc, TranslateParams).  A Param is  *)
(* a tagged reference to a value of the client: a variable, or a temporary *)
(* that is gone at the end of the statement that made the Param.           *)
(***************************************************************************)
EXTENDS Naturals, Sequences, Outcomes

CONSTANTS
  Variables,  \* variables of the client, each declared at most once
  Types,      \* the C++ types they may have
  Values,
  MaxParams   \* bound: the parameters of a statement

ASSUME ParamsAssumption ==
  /\ "temporary" \notin Variables
  /\ Types \subseteq {"int16_t", "int32_t", "int64_t", "double", "float", "string", "bool",
                     "time_point", "NvDateTime"}
  /\ MaxParams \in Nat

VARIABLES
  memory,  \* the type and the value of each variable that is alive
  params,  \* the Params the client has made
  sent     \* what Execute sent to Postgres, or threw, until the next operation

paramVars == <<memory, params, sent>>

Nothing == Returned(<<>>)

\* Mutant: the constructor for float tags its value as a double.
DataTypeFloatIsDouble(type) ==
  CASE type = "int16_t" -> "SmallInt" [] type = "int32_t" -> "Int"
    [] type = "int64_t" -> "BigInt"   [] type \in {"double", "float"} -> "Double"
    [] type = "string" -> "String"    [] type = "bool" -> "Boolean"
    [] type = "time_point" -> "Timestamp" [] type = "NvDateTime" -> "Timestampz"

\* type_ as the constructor for a const T& sets it.
DataType(type) ==
  CASE type = "int16_t" -> "SmallInt" [] type = "int32_t" -> "Int"
    [] type = "int64_t" -> "BigInt"   [] type = "double" -> "Double"
    [] type = "float" -> "Real"       [] type = "string" -> "String"
    [] type = "bool" -> "Boolean"     [] type = "time_point" -> "Timestamp"
    [] type = "NvDateTime" -> "Timestampz"

\* data_ is the type and the place that the reference names; "made" is the
\* value that was there when the Param was made.
Param(type, place, value) ==
  [type |-> DataType(type), data |-> type, place |-> place, made |-> value]

Alive(v) == v \in DOMAIN memory

ParamsInit == memory = <<>> /\ params = <<>> /\ sent = Nothing

Declare(v, type, x) ==
  /\ ~Alive(v) /\ params = <<>>  \* so that no Param refers to an earlier v
  /\ memory' = [w \in DOMAIN memory \cup {v} |->
                  IF w = v THEN [type |-> type, value |-> x] ELSE memory[w]]
  /\ sent' = Nothing
  /\ UNCHANGED params

Assign(v, x) ==
  /\ Alive(v)
  /\ memory' = [memory EXCEPT ![v].value = x]
  /\ sent' = Nothing
  /\ UNCHANGED params

EndScope(v) ==
  /\ Alive(v)
  /\ memory' = [w \in DOMAIN memory \ {v} |-> memory[w]]
  /\ sent' = Nothing
  /\ UNCHANGED params

MakeParam(v) ==
  /\ Alive(v) /\ Len(params) < MaxParams
  /\ params' = Append(params, Param(memory[v].type, v, memory[v].value))
  /\ sent' = Nothing
  /\ UNCHANGED memory

\* "auto p = Param::SmallInt(1);"
MakeParamOfTemporary(type, x) ==
  /\ Len(params) < MaxParams
  /\ params' = Append(params, Param(type, "temporary", x))
  /\ sent' = Nothing
  /\ UNCHANGED memory

(***************************************************************************)
(* Sending.                                                                *)
(***************************************************************************)
\* The T of the As<T> for each DataType; the default throws.
AsType ==
  [SmallInt |-> "int16_t", Int |-> "int32_t", BigInt |-> "int64_t", Double |-> "double",
   Real |-> "float", String |-> "string", Boolean |-> "bool", Timestampz |-> "NvDateTime"]

\* What reading the reference may give: anything when its value is gone.
ParamAs(p) == IF Alive(p.place) THEN {memory[p.place].value} ELSE Values \cup {"garbage"}

\* The switch of TranslateParams has no case; std::get finds another type.
Unsupported(p) == p.type \notin DOMAIN AsType
Mismatched(p) == AsType[p.type] # p.data

Sent(args) ==
  {Returned(s) : s \in {s \in [DOMAIN args -> Values \cup {"garbage"}] :
                          \A i \in DOMAIN args : s[i] \in ParamAs(args[i])}}

\* Mutant: unsupported types are skipped.
TranslateParamsSkips(args) == Sent(SelectSeq(args, LAMBDA p : ~Unsupported(p)))

\* The outcomes of TranslateParams.
TranslateParams(args) ==
  IF \E i \in DOMAIN args : Unsupported(args[i]) THEN {Thrown("invalid_argument")}
  ELSE IF \E i \in DOMAIN args : Mismatched(args[i]) THEN {Thrown("bad_variant_access")}
  ELSE Sent(args)

\* The parameters of Execute, which the client then forgets.
Send ==
  /\ sent' \in TranslateParams(params)
  /\ params' = <<>>
  /\ UNCHANGED memory

ParamsNext ==
  \/ \E v \in Variables : EndScope(v) \/ MakeParam(v) \/ \E x \in Values : Assign(v, x)
  \/ \E type \in Types, x \in Values :
       MakeParamOfTemporary(type, x) \/ \E v \in Variables : Declare(v, type, x)

-----------------------------------------------------------------------------
\* A statement gets one value for each of its parameters, in their order, and
\* the value that the variable has now; or nothing is sent at all, since a
\* parameter is a timestamp without time zone.  So every constructor of Param
\* sets the tag under which TranslateParams finds the type of the value.
SentInOrder ==
  [][params # <<>> /\ params' = <<>> /\ (\A i \in DOMAIN params : Alive(params[i].place)) =>
       IF \E i \in DOMAIN params : params[i].type = "Timestamp"
       THEN sent' = Thrown("invalid_argument")
       ELSE sent' = Returned([i \in DOMAIN params |-> memory[params[i].place].value])]_paramVars

\* README.md, "auto status_filter = Param::SmallInt(1);" and then "Execute(...,
\* status_filter)": a parameter is sent with the value it was made of.
SentAsMade ==
  [][params # <<>> /\ params' = <<>> =>
       sent' \in {Thrown("invalid_argument"),
                  Returned([i \in DOMAIN params |-> params[i].made])}]_paramVars
=============================================================================
