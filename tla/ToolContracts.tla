----------------------------- MODULE ToolContracts ----------------------------
(***************************************************************************)
(* The contract of a tool, from its declaration to the result of a call:   *)
(* compile_tool_contract when it is declared and registered, the bounds    *)
(* and the validation of the arguments before the function runs, and the   *)
(* validation, normalization and bounds of what it returns.  One tool and  *)
(* one call per behaviour: nothing in this part of the code is shared      *)
(* between calls.                                                          *)
(***************************************************************************)
EXTENDS ToolSchema

CONSTANTS
  Tools,       \* the declarations: [params, returns], a parameter [name, type, default]
  Arguments,   \* what a call may pass: [heap, root]
  Returns      \* what the function may return: [heap, root]

VARIABLES
  tool,      \* the declared tool
  stage,     \* how far it got
  contract,  \* its published schemas
  given,     \* the arguments of the call, then the raw output of the function
  verdict,   \* why the call was refused or failed, "ok" if not yet
  issues,    \* the codes of the issues the caller is shown
  received,  \* the keyword arguments the function runs with
  output     \* the output the caller gets

vars == <<tool, stage, contract, given, verdict, issues, received, output>>

Nothing == [heap |-> <<>>, root |-> NoDefault]

Init ==
  /\ tool \in Tools
  /\ stage = "new" /\ contract = <<>> /\ given = Nothing
  /\ verdict = "ok" /\ issues = <<>> /\ received = <<>> /\ output = NoDefault
-----------------------------------------------------------------------------
ParamNames == {tool.params[i].name : i \in DOMAIN tool.params}

(* A parameter's schema, with its default normalized and published; a      *)
(* default that does not match its annotation refuses the tool.            *)
ParameterSchema(p) ==
  LET schema  == SchemaForType(p.type, {})
      default == ValidateValue(p.default, p.type, MaxIssues)
  IN  IF IsRefused(schema) \/ p.default = NoDefault THEN schema
      ELSE IF default.ok THEN [base |-> schema, default |-> ToJsonValue(default.value)]
      ELSE Refused

CompileToolContract ==
  LET schemas == [i \in DOMAIN tool.params |-> ParameterSchema(tool.params[i])]
      returns == SchemaForType(tool.returns, {})
  IN  Built(Append(schemas, returns),
            [inputs   |-> [i \in DOMAIN schemas |->
                             [name |-> tool.params[i].name, schema |-> schemas[i]]],
             required |-> {tool.params[i].name :
                             i \in {j \in DOMAIN tool.params : tool.params[j].default = NoDefault}},
             output   |-> returns])

Declare ==
  /\ stage = "new"
  /\ contract' = CompileToolContract
  /\ stage' = IF IsRefused(contract') THEN "undeclared" ELSE "registered"
  /\ UNCHANGED <<tool, given, verdict, issues, received, output>>
-----------------------------------------------------------------------------
(* validate_arguments.  A default is handed over as it was declared: only  *)
(* its published form was normalized.                                      *)
ValidateArguments(arguments, cap) ==
  LET Argument(p) ==
        IF p.name \in KeysOf(arguments.items)
          THEN ValidateValue(Named(arguments.items, p.name), p.type, cap)
          ELSE IF p.default = NoDefault THEN Bad(<<"missing_argument">>) ELSE Ok(p.default)
      outcomes == [i \in DOMAIN tool.params |-> Argument(tool.params[i])]
      problems == NameIssues(arguments.items, ParamNames,
                             "invalid_argument_name", "unexpected_argument")
                    \o Issues(outcomes)
  IN  IF arguments.k # "dict" THEN Bad(<<"invalid_arguments_object">>)
      ELSE IF problems # <<>> THEN Bad(Capped(problems, cap))
      ELSE Ok([i \in DOMAIN outcomes |->
                 [name |-> tool.params[i].name, value |-> outcomes[i].value]])

Refuse(why, found) ==
  stage' = "refused" /\ verdict' = why /\ issues' = found /\ UNCHANGED received

Enter(arguments) ==
  stage' = "running" /\ received' = arguments /\ UNCHANGED <<verdict, issues>>

(* The bounds come first: the validator recurses over the value. *)
Invoke(a) ==
  /\ stage = "registered"
  /\ given' = a
  /\ LET limits    == EnforceValueLimits(a.heap, a.root)
         validated == ValidateArguments(Unfold(a.heap, a.root), MaxIssues)
     IN  IF limits # "ok" THEN Refuse(limits, <<limits>>)
         ELSE IF validated.ok THEN Enter(validated.value)
         ELSE Refuse("invalid_arguments", validated.issues)
  /\ UNCHANGED <<tool, contract, output>>
-----------------------------------------------------------------------------
LimitCodes == {"value_too_deep", "value_too_complex", "value_too_large"}

OutputDataError(code) ==
  IF code \in LimitCodes THEN "output_limit_exceeded" ELSE "invalid_output"

(* _normalize_output: the validated output is made JSON and bounded again. *)
NormalizeOutput(heap, root) ==
  LET before     == EnforceValueLimits(heap, root)
      validated  == ValidateValue(Unfold(heap, root), tool.returns, MaxIssues)
      normalized == ToJsonValue(validated.value)
      after      == EncodingVerdict(normalized)
  IN  IF before # "ok" THEN Bad(OutputDataError(before))
      ELSE IF ~validated.ok THEN Bad("invalid_output")
      ELSE IF after # "ok" THEN Bad(OutputDataError(after))
      ELSE Ok(normalized)

FunctionReturns(r) ==
  /\ stage = "running"
  /\ given' = r
  /\ LET result == NormalizeOutput(r.heap, r.root)
     IN  IF result.ok
           THEN stage' = "succeeded" /\ output' = result.value /\ UNCHANGED verdict
           ELSE stage' = "failed" /\ verdict' = result.issues /\ UNCHANGED output
  /\ UNCHANGED <<tool, contract, issues, received>>

Next ==
  \/ Declare
  \/ \E a \in Arguments : Invoke(a)
  \/ \E r \in Returns : FunctionReturns(r)

Spec == Init /\ [][Next]_vars
-----------------------------------------------------------------------------
(* What the published schema accepts, read as JSON Schema (an external     *)
(* standard) with two differences the documents state: an integer is not a *)
(* float and a float is finite.                                            *)
RECURSIVE Conforms(_, _)
Conforms(v, s) ==
  LET keys == DOMAIN s
      Is(type) == "type" \in keys /\ s.type = type
      Property(name) == LET i == CHOOSE j \in DOMAIN s.properties : s.properties[j].name = name
                        IN  s.properties[i].schema
  IN  CASE "anyOf" \in keys -> \E i \in DOMAIN s.anyOf : Conforms(v, s.anyOf[i])
        [] "enum" \in keys  -> v \in s.enum
        [] "base" \in keys  -> Conforms(v, s.base)
        [] Is("number")     -> v.k \in {"int", "float"} /\ v.v \notin {"huge", "nan"}
        [] Is("array")      ->
             /\ v.k = "list"
             /\ "items" \in keys => \A i \in DOMAIN v.items : Conforms(v.items[i], s.items)
             /\ "prefixItems" \in keys =>
                  /\ Len(v.items) = Len(s.prefixItems)
                  /\ \A i \in DOMAIN v.items : Conforms(v.items[i], s.prefixItems[i])
        [] Is("object")     ->
             /\ v.k = "dict" /\ NonString \notin KeysOf(v.items)
             /\ "additional" \in keys =>
                  \A i \in DOMAIN v.items : Conforms(v.items[i].value, s.additional)
             /\ "properties" \in keys =>
                  /\ KeysOf(v.items) \subseteq {s.properties[i].name : i \in DOMAIN s.properties}
                  /\ s.required \subseteq KeysOf(v.items)
                  /\ \A i \in DOMAIN v.items :
                       Conforms(v.items[i].value, Property(v.items[i].name))
        [] OTHER            -> v.k \in Scalars /\ JsonType[v.k] = s.type

InputSchema ==
  [type |-> "object", required |-> contract.required, properties |-> contract.inputs]

(* What a JSON client sends and gets has no tuples. *)
IsNative(heap) == \A i \in DOMAIN heap : heap[i].k # "tuple"
GivenJson == ToJsonValue(Unfold(given.heap, given.root))

(***************************************************************************)
(* The published contract and the run-time checks are two translations of  *)
(* one annotation, and they agree: a function only ever runs with          *)
(* arguments (defaults included) its input schema accepts, a caller only   *)
(* ever gets an output its output schema accepts, and neither check turns  *)
(* down JSON data that the published schema allows.                        *)
(***************************************************************************)
ContractIsEnforced ==
  /\ stage = "running" =>
       /\ Conforms(GivenJson, InputSchema)
       /\ Conforms(ToJsonValue([k |-> "dict", items |-> received]), InputSchema)
  /\ stage = "refused" /\ verdict = "invalid_arguments" /\ IsNative(given.heap) =>
       ~Conforms(GivenJson, InputSchema)
  /\ stage = "succeeded" => Conforms(output, contract.output)
  /\ /\ stage = "failed" /\ verdict = "invalid_output" /\ IsNative(given.heap)
     /\ EnforceValueLimits(given.heap, given.root) = "ok"
     => ~Conforms(GivenJson, contract.output)
-----------------------------------------------------------------------------
(* The access paths of a value, each of them one node of its tree. *)
At(heap, v, path) ==
  FoldLeft(LAMBDA at, i : IF at.k = "ref" /\ i \in DOMAIN heap[at.id].items
                            THEN Children(heap[at.id])[i]
                            ELSE NoDefault,
           v, path)

Paths(heap, v, length) ==
  {p \in [1..length -> 1..2] : At(heap, v, p) # NoDefault}

Fits(heap, v) ==
  /\ Paths(heap, v, MaxDepth + 1) = {}
  /\ Cardinality(UNION {Paths(heap, v, n) : n \in 0..MaxDepth}) <= MaxNodes

(***************************************************************************)
(* The iterative walk decides exactly what it bounds: it lets a value pass *)
(* when its tree has no more nodes and levels than allowed, a shared       *)
(* container counting once for each place, and stops on every cycle.  So   *)
(* the recursive validator and encoder only ever see finite trees.         *)
(***************************************************************************)
LimitsAreExact ==
  given # Nothing =>
    LET found == EnforceValueLimits(given.heap, given.root)
    IN  /\ (found \in {"ok", "value_too_large", "not_json_compatible"})
             <=> Fits(given.heap, given.root)
        /\ found = "cyclic_value" => \A n \in 1..6 : Paths(given.heap, given.root, n) # {}
        /\ stage = "succeeded" => Len(Tokens(output)) <= MaxBytes

(***************************************************************************)
(* The cap on issues changes what is shown and never what is decided: the  *)
(* caller is shown the first issues of the full list, with the marker when *)
(* there are more, also where a capped list of a nested object is merged   *)
(* into another one (API_REFERENCE.md: "at most 64 issues, including an    *)
(* issues_truncated marker").                                              *)
(***************************************************************************)
Unlimited == 100

IssuesAreHonest ==
  LET full == ValidateArguments(Unfold(given.heap, given.root), Unlimited)
  IN  /\ stage = "running" => full.ok
      /\ stage = "refused" /\ verdict = "invalid_arguments" =>
           /\ ~full.ok
           /\ Len(issues) <= MaxIssues
           /\ issues = IF Len(full.issues) < MaxIssues
                         THEN full.issues
                         ELSE Append(SubSeq(full.issues, 1, MaxIssues - 1), "issues_truncated")
=============================================================================
