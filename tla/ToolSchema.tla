------------------------------ MODULE ToolSchema ------------------------------
(***************************************************************************)
(* src/samsarix_core/schema.py: the small set of annotations a tool may    *)
(* use, the JSON Schema published for each of them, the validator that     *)
(* decides at run time, and the bounds on structure and diagnostics.       *)
(*                                                                         *)
(* An annotation is a record with a kind.  A value is a scalar [k, v], or  *)
(* a reference [k |-> "ref", id] to a container of a heap, so that values  *)
(* may be shared or cyclic; Unfold gives the tree of an acyclic value.     *)
(* Numbers are abstract: "one" is 1 or 1.0, "huge" an integer beyond any   *)
(* float, "nan" a float that is not finite.  Paths and wording of issues   *)
(* are left out: an issue is its code.                                     *)
(***************************************************************************)
EXTENDS Naturals, Sequences, FiniteSets, SequencesExt

CONSTANTS
  TypedDicts,  \* the declared TypedDicts: name -> sequence of fields
  MaxIssues,   \* _MAX_VALIDATION_ISSUES
  MaxDepth,    \* max_value_depth
  MaxNodes,    \* max_value_nodes
  MaxBytes     \* max_argument_bytes and max_output_bytes, in tokens

ASSUME BoundsAssumption ==
  MaxIssues \in Nat \ {0} /\ {MaxDepth, MaxNodes, MaxBytes} \subseteq Nat \ {0}

Scalars    == {"str", "bool", "int", "float", "none"}
Containers == {"list", "tuple", "dict"}
NonString  == "<not a string>"      \* stands for a key that is no str
NoDefault  == [k |-> "empty", v |-> "empty"]  \* inspect.Parameter.empty

IsJsonScalar(v) == v.k \in Scalars /\ v.v # "nan"
-----------------------------------------------------------------------------
(* The published schema of an annotation, or the refusal to compile it.    *)

Refused    == [error |-> "ToolDefinitionError"]
IsRefused(s) == DOMAIN s = {"error"}

RequiredFields(name) ==
  LET fields == TypedDicts[name]
  IN  {fields[i].name : i \in {j \in DOMAIN fields :
         \/ fields[j].presence = "Required"
         \/ fields[j].presence = "none" /\ fields[j].total}}

JsonType == [str |-> "string", bool |-> "boolean", int |-> "integer",
             float |-> "number", none |-> "null"]

(* A schema built from parts is refused when one of its parts is. *)
Built(parts, schema) == IF \E i \in DOMAIN parts : IsRefused(parts[i]) THEN Refused ELSE schema

RECURSIVE SchemaForType(_, _)
SchemaForType(t, active) ==
  LET Each(types) == [i \in DOMAIN types |-> SchemaForType(types[i], active)]
  IN  CASE t.kind \in Scalars -> [type |-> JsonType[t.kind]]
        [] t.kind = "annotated" -> SchemaForType(t.base, active)
        [] t.kind = "union" ->
             LET options == Each(t.options) IN Built(options, [anyOf |-> options])
        [] t.kind = "literal" ->
             IF t.of = {} \/ \E v \in t.of : ~IsJsonScalar(v) THEN Refused ELSE [enum |-> t.of]
        [] t.kind \in {"list", "vartuple"} ->
             LET item == SchemaForType(t.item, active)
             IN  Built(<<item>>, [type |-> "array", items |-> item])
        [] t.kind = "tuple" ->
             LET items == Each(t.items) IN Built(items, [type |-> "array", prefixItems |-> items])
        [] t.kind = "dict" ->
             LET item == SchemaForType(t.item, active)
             IN  Built(<<item>>, [type |-> "object", additional |-> item])
        [] t.kind = "typed" ->
             LET fields  == TypedDicts[t.name]
                 schemas == [i \in DOMAIN fields |->
                               SchemaForType(fields[i].type, active \cup {t.name})]
             IN  IF t.name \in active
                 THEN Refused
                 ELSE Built(schemas,
                            [type |-> "object", required |-> RequiredFields(t.name),
                             properties |-> [i \in DOMAIN fields |->
                                [name |-> fields[i].name, schema |-> schemas[i]]]])
        [] OTHER -> Refused
-----------------------------------------------------------------------------
(* Validation: a normalized value, or the issues, never more than the cap. *)

Ok(value)   == [ok |-> TRUE, value |-> value]
Bad(issues) == [ok |-> FALSE, issues |-> issues]

(* A mutant of Capped: the marker is an extra issue. *)
CappedLate(issues, cap) ==
  IF Len(issues) > cap THEN Append(SubSeq(issues, 1, cap), "issues_truncated") ELSE issues

(* _ValidationIssues: the last slot is kept for the truncation marker. *)
Capped(issues, cap) ==
  IF Len(issues) > cap - 1
    THEN Append(SubSeq(issues, 1, cap - 1), "issues_truncated")
    ELSE issues

(* The outcomes of the items of a container: the first failure decides. *)
Gather(outcomes, wrap(_)) ==
  IF \E i \in DOMAIN outcomes : ~outcomes[i].ok
    THEN outcomes[CHOOSE i \in DOMAIN outcomes :
                    ~outcomes[i].ok /\ \A j \in 1..(i - 1) : outcomes[j].ok]
    ELSE Ok(wrap([i \in DOMAIN outcomes |-> outcomes[i].value]))

(* The issues of fields that are all looked at. *)
Issues(outcomes) ==
  FlattenSeq([i \in DOMAIN outcomes |-> IF outcomes[i].ok THEN <<>> ELSE outcomes[i].issues])

(* A mutant of Matches: isinstance(value, int) alone, true of a bool. *)
MatchesBoolAsInt(kind, v) ==
  IF kind = "float" THEN v.k \in {"int", "float"} /\ v.v \notin {"huge", "nan"}
  ELSE v.k = kind \/ (kind = "int" /\ v.k = "bool")

Matches(kind, v) ==
  IF kind = "float" THEN v.k \in {"int", "float"} /\ v.v \notin {"huge", "nan"} ELSE v.k = kind

Named(items, name) == LET i == CHOOSE j \in DOMAIN items : items[j].name = name IN items[i].value
KeysOf(items)       == {items[i].name : i \in DOMAIN items}

(* The issues of the names of an object or of the arguments: in their own order. *)
NameIssues(items, known, notString, unexpected) ==
  LET wrong == SelectSeq(items, LAMBDA item : item.name \notin known)
  IN  [i \in DOMAIN wrong |-> IF wrong[i].name = NonString THEN notString ELSE unexpected]

RECURSIVE ValidateValue(_, _, _)

(* The present fields validated in the order of the declaration, and a     *)
(* missing one that is required reported.                                  *)
ValidateFields(v, name, cap) ==
  LET fields == TypedDicts[name]
      known  == {fields[i].name : i \in DOMAIN fields}
      Field(i) ==
        IF fields[i].name \in KeysOf(v.items)
          THEN ValidateValue(Named(v.items, fields[i].name), fields[i].type, cap)
          ELSE IF fields[i].name \in RequiredFields(name) THEN Bad(<<"missing_field">>) ELSE Ok(v)
      outcomes == [i \in DOMAIN fields |-> Field(i)]
      issues   == NameIssues(v.items, known, "invalid_object_key", "unexpected_field")
                    \o Issues(outcomes)
      present  == SelectSeq([i \in DOMAIN fields |-> i],
                            LAMBDA i : fields[i].name \in KeysOf(v.items))
  IN  IF issues # <<>>
        THEN Bad(Capped(issues, cap))
        ELSE Ok([k |-> "dict",
                 items |-> [i \in DOMAIN present |->
                   [name |-> fields[present[i]].name, value |-> outcomes[present[i]].value]]])

ValidateValue(v, t, cap) ==
  LET AsTuple(items)   == [k |-> "tuple", items |-> items]
      Each(TypeOf(_))  == [i \in DOMAIN v.items |-> ValidateValue(v.items[i], TypeOf(i), cap)]
      Mismatch         == Bad(<<"type_mismatch">>)
  IN  CASE t.kind \in Scalars ->
             IF Matches(t.kind, v) THEN Ok([v EXCEPT !.k = t.kind]) ELSE Mismatch
        [] t.kind = "annotated" -> ValidateValue(v, t.base, cap)
        [] t.kind = "union" ->
             LET outcomes == [i \in DOMAIN t.options |-> ValidateValue(v, t.options[i], cap)]
                 good     == SelectSeq(outcomes, LAMBDA o : o.ok)
             IN  IF good # <<>> THEN good[1] ELSE Bad(<<"union_mismatch">>)
        [] t.kind = "literal" -> IF v \in t.of THEN Ok(v) ELSE Bad(<<"literal_mismatch">>)
        [] t.kind = "typed" -> IF v.k = "dict" THEN ValidateFields(v, t.name, cap) ELSE Mismatch
        [] t.kind = "list" ->
             IF v.k = "list"
               THEN Gather(Each(LAMBDA i : t.item), LAMBDA items : [k |-> "list", items |-> items])
               ELSE Mismatch
        [] t.kind = "vartuple" ->
             IF v.k \in {"list", "tuple"} THEN Gather(Each(LAMBDA i : t.item), AsTuple) ELSE Mismatch
        [] t.kind = "tuple" ->
             IF v.k \notin {"list", "tuple"} THEN Mismatch
             ELSE IF Len(v.items) # Len(t.items) THEN Bad(<<"tuple_length">>)
             ELSE Gather(Each(LAMBDA i : t.items[i]), AsTuple)
        [] t.kind = "dict" ->
             IF v.k # "dict" THEN Mismatch
             ELSE IF NonString \in KeysOf(v.items) THEN Bad(<<"invalid_object_key">>)
             ELSE Gather([i \in DOMAIN v.items |-> ValidateValue(v.items[i].value, t.item, cap)],
                         LAMBDA values : [v EXCEPT !.items = [i \in DOMAIN values |->
                                            [name |-> v.items[i].name, value |-> values[i]]]])

(* to_json_value of a validated value: tuples become arrays. *)
RECURSIVE ToJsonValue(_)
ToJsonValue(v) ==
  CASE v.k \in {"list", "tuple"} ->
         [k |-> "list", items |-> [i \in DOMAIN v.items |-> ToJsonValue(v.items[i])]]
    [] v.k = "dict" ->
         [v EXCEPT !.items = [i \in DOMAIN v.items |->
            [name |-> v.items[i].name, value |-> ToJsonValue(v.items[i].value)]]]
    [] OTHER -> v
-----------------------------------------------------------------------------
(* enforce_value_limits: an explicit stack instead of recursion, the open  *)
(* containers remembered by identity, so that no nesting, however hostile, *)
(* exhausts the interpreter before the validator runs.                     *)

Children(cell) ==
  IF cell.k = "dict" THEN [i \in DOMAIN cell.items |-> cell.items[i].value] ELSE cell.items

(* The containers still open when the walk leaves one. *)
Closed(open, id) == open \ {id}

RECURSIVE Walk(_, _, _, _)
Walk(heap, stack, nodes, open) ==
  IF stack = <<>> THEN "ok"
  ELSE LET top  == Last(stack)
           rest == Front(stack)
       IN  CASE top.op = "exit" -> Walk(heap, rest, nodes, Closed(open, top.id))
             [] top.op = "children" ->
                  IF top.left = <<>>
                    THEN Walk(heap, rest, nodes, open)
                    ELSE Walk(heap,
                              rest \o << [top EXCEPT !.left = Tail(@)],
                                         [op |-> "value", item |-> Head(top.left),
                                          depth |-> top.depth] >>,
                              nodes, open)
             [] top.op = "value" ->
                  IF nodes + 1 > MaxNodes THEN "value_too_complex"
                  ELSE IF top.depth > MaxDepth THEN "value_too_deep"
                  ELSE IF top.item.k # "ref" THEN Walk(heap, rest, nodes + 1, open)
                  ELSE IF top.item.id \in open THEN "cyclic_value"
                  ELSE Walk(heap,
                            rest \o << [op |-> "exit", id |-> top.item.id],
                                       [op |-> "children", left |-> Children(heap[top.item.id]),
                                        depth |-> top.depth + 1] >>,
                            nodes + 1, open \cup {top.item.id})

RECURSIVE Unfold(_, _)
Unfold(heap, v) ==
  IF v.k # "ref" THEN v
  ELSE LET cell == heap[v.id]
       IN  IF cell.k = "dict"
             THEN [cell EXCEPT !.items = [i \in DOMAIN cell.items |->
                     [name |-> cell.items[i].name, value |-> Unfold(heap, cell.items[i].value)]]]
             ELSE [cell EXCEPT !.items = [i \in DOMAIN cell.items |-> Unfold(heap, cell.items[i])]]

(* The tokens of the compact encoding of a tree, in the order they are     *)
(* produced (a float is longer than the integer it was normalized from);   *)
(* the encoder stops at one it cannot write.                               *)
RECURSIVE Tokens(_)
Tokens(v) ==
  CASE v.k \in {"list", "tuple"} ->
         <<"[">> \o FlattenSeq([i \in DOMAIN v.items |-> Tokens(v.items[i])]) \o <<"]">>
    [] v.k = "dict" ->
         <<"{">> \o FlattenSeq([i \in DOMAIN v.items |-> <<"key">> \o Tokens(v.items[i].value)])
                 \o <<"}">>
    [] OTHER -> IF ~IsJsonScalar(v) THEN <<"unencodable">>
                ELSE IF v.k = "float" THEN <<"1", ".0">> ELSE <<"scalar">>

EncodingVerdict(v) ==
  LET tokens == Tokens(v)
      stops  == {i \in DOMAIN tokens : i > MaxBytes \/ tokens[i] = "unencodable"}
  IN  IF stops = {} THEN "ok"
      ELSE LET first == CHOOSE i \in stops : \A j \in stops : i <= j
           IN  IF tokens[first] = "unencodable" THEN "not_json_compatible" ELSE "value_too_large"

EnforceValueLimits(heap, v) ==
  LET structure == Walk(heap, <<[op |-> "value", item |-> v, depth |-> 0]>>, 0, {})
  IN  IF structure # "ok" THEN structure ELSE EncodingVerdict(Unfold(heap, v))
=============================================================================
