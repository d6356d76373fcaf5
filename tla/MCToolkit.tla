------------------------------ MODULE MCToolkit -------------------------------
(* Instances of ToolBatch, ToolContracts and ToolProgress for TLC, in one  *)
(* run: nothing connects them but the registration of a tool.  A behaviour *)
(* is one of a batch over a registry that changes, one of the contract of  *)
(* a tool or one of a call with progress, chosen by its initial state.     *)
EXTENDS ToolBatch, ToolProgress, ToolSchema, TLC

CONSTANTS a, b, t1, t2

MCBatch == <<a, a, a>>
Order(api, name, replace, controls) ==
  [api |-> api, name |-> name, replace |-> replace, controls |-> controls]
MCOrders ==
  { Order("registry", a, TRUE, {}), Order("registry", b, FALSE, {}),
    Order("runtime", a, TRUE, {"rate"}), Order("runtime", a, FALSE, {"rate", "circuit"}) }
ThreadSymmetry == Permutations(Threads)
-----------------------------------------------------------------------------
(* Annotations up to two levels deep, heaps of three containers with       *)
(* shared and cyclic references.                                           *)
V(k, v) == [k |-> k, v |-> v]
IntOne == V("int", "one")
FloatOne == V("float", "one")
Text == V("str", "text")
None == V("none", "none")
True == V("bool", "true")
NaN == V("float", "nan")
Ref(id) == [k |-> "ref", id |-> id]
Item(name, value) == [name |-> name, value |-> value]

T(kind) == [kind |-> kind]
ListOf(t) == [kind |-> "list", item |-> t]
DictOf(t) == [kind |-> "dict", item |-> t]
VarTuple(t) == [kind |-> "vartuple", item |-> t]
Tuple(ts) == [kind |-> "tuple", items |-> ts]
Union(ts) == [kind |-> "union", options |-> ts]
Literal(vs) == [kind |-> "literal", of |-> vs]
Typed(name) == [kind |-> "typed", name |-> name]
Annotated(t) == [kind |-> "annotated", base |-> t]
Field(name, type, presence, total) ==
  [name |-> name, type |-> type, presence |-> presence, total |-> total]

MCTypedDicts ==
  [P |-> << Field("a", T("int"), "none", TRUE), Field("b", T("str"), "NotRequired", TRUE) >>,
   Q |-> << Field("a", Typed("P"), "Required", FALSE), Field("b", T("float"), "none", FALSE) >>,
   R |-> << Field("a", ListOf(Typed("R")), "none", TRUE) >>]

Scalar == {T(k) : k \in Scalars}
Good == Scalar \cup
  { Annotated(T("int")), Literal({IntOne, Text}), Literal({True}),
    Union(<<T("int"), T("float")>>), Union(<<T("float"), T("int")>>),
    Union(<<T("none"), ListOf(T("int"))>>), Union(<<Typed("P"), DictOf(T("int"))>>),
    ListOf(T("float")), ListOf(Typed("P")), VarTuple(T("int")), Tuple(<<T("int"), T("str")>>),
    Tuple(<<>>), DictOf(T("float")), DictOf(ListOf(T("int"))), Typed("P"), Typed("Q") }
Refusals == {T("any"), Literal({NaN}), Literal({}), Typed("R"), ListOf(T("any"))}

Param(name, type, default) == [name |-> name, type |-> type, default |-> default]
One(type, default) == [params |-> <<Param("p", type, default)>>, returns |-> T("none")]

MCTools ==
  {One(t, NoDefault) : t \in Good \cup Refusals}
    \cup {One(t, IntOne) : t \in {T("int"), T("float"), T("str"), Union(<<T("str"), T("float")>>)}}
    \cup {One(VarTuple(T("float")), [k |-> "list", items |-> <<IntOne>>])}
    \cup {[params |-> <<>>, returns |-> t] : t \in Good \cup {T("any")}}
    \cup {[params |-> <<Param("p", Typed("P"), NoDefault), Param("q", Typed("Q"), NoDefault)>>,
            returns |-> T("int")]}

Leaves == {IntOne, FloatOne, V("int", "huge")}
Inner ==   \* what container 2 may be
  [k : {"list"}, items : {<<>>, <<IntOne>>, <<FloatOne>>, <<IntOne, Text>>, <<Ref(1)>>, <<Ref(2)>>, <<Ref(3)>>}]
    \cup [k : {"tuple"}, items : {<<IntOne, Text>>}]
    \cup [k : {"dict"}, items : {<<Item("a", IntOne)>>, <<Item("x", None), Item("b", IntOne)>>}]
Outer ==   \* what container 1 may be
  [k : {"list", "tuple"},
   items : {<<>>, <<IntOne>>, <<IntOne, Text>>, <<IntOne, FloatOne>>, <<NaN>>, <<Ref(2)>>,
            <<Ref(2), Ref(2)>>, <<V("int", "huge")>>}]
    \cup [k : {"dict"},
          items : {<<>>, <<Item("a", IntOne)>>, <<Item("a", IntOne), Item("b", Text)>>,
                   <<Item("b", FloatOne), Item("a", Ref(2))>>, <<Item(NonString, IntOne)>>,
                   <<Item("x", IntOne), Item(NonString, IntOne)>>}]
Deepest == [k |-> "list", items |-> <<IntOne, IntOne>>]

Plain == [k |-> "list", items |-> <<>>]
Heaps == {<<o, i, Deepest>> : o \in Outer, i \in Inner}
Values == Leaves \cup {Text, None, True, NaN}

WithRoot(heap, names) == Append(heap, [k |-> "dict", items |-> names])
Root == Ref(4)
Small == <<[k |-> "dict", items |-> <<Item("a", IntOne)>>], Plain, Deepest>>

MCArguments ==
  {[heap |-> WithRoot(h, <<Item("p", Ref(1))>>), root |-> Root] : h \in Heaps}
    \cup {[heap |-> WithRoot(Small, <<Item("p", v)>>), root |-> Root] : v \in Values}
    \cup {[heap |-> WithRoot(Small, names), root |-> Root] :
             names \in { <<>>, <<Item("p", Ref(1)), Item("x", IntOne)>>,
                         <<Item("x", IntOne), Item(NonString, IntOne)>> }}
    \cup {[heap |-> WithRoot(h, <<Item("p", Ref(1)), Item("q", Ref(2))>>), root |-> Root] : h \in Heaps}
    \cup {[heap |-> Small, root |-> Ref(3)]}

MCReturns ==
  {[heap |-> h, root |-> Ref(1)] : h \in Heaps}
    \cup {[heap |-> Small, root |-> v] : v \in Values}
-----------------------------------------------------------------------------
VARIABLES part, tool, stage, contract, given, ruling, issues, received, output

contractVars == <<tool, stage, contract, given, ruling, issues, received, output>>

Contract == INSTANCE ToolContracts WITH verdict <- ruling,
              Tools <- MCTools, Arguments <- MCArguments, Returns <- MCReturns

MCInit == /\ part \in {"batch", "contract", "progress"}
          /\ Init
          /\ Contract!Init /\ (part # "contract" => tool = CHOOSE d \in MCTools : TRUE)
          /\ ProgressInit /\ (part # "progress" => ~asked /\ maxUpdates = 1)

MCNext ==
  \/ part = "batch" /\ Next /\ UNCHANGED <<part, contractVars, progressVars>>
  \/ part = "contract" /\ Contract!Next /\ UNCHANGED <<part, vars, progressVars>>
  \/ part = "progress" /\ ProgressNext /\ UNCHANGED <<part, vars, contractVars>>

MCSpec == MCInit /\ [][MCNext]_<<part, vars, contractVars, progressVars>>

(* What a function receives, and what a caller gets, matches its contract. *)
ContractIsEnforced == Contract!ContractIsEnforced
(* A value is refused for its size exactly when it is too large, and the   *)
(* issues a caller is shown are the issues there are.                      *)
RefusalsAreExact == Contract!LimitsAreExact /\ Contract!IssuesAreHonest
=============================================================================
