--------------------------- MODULE MCToolArguments ---------------------------
EXTENDS ToolArguments

MCNonEmpty == {"word", "long"} \cup Kinds \cup Actions
MCNonNegative == {"zero", "one", "six"}
MCInLimit == {"one"}

Num(n)    == Scalar("integer", n)
Str(s)    == Scalar("string", s)
Arr(seq)  == [type |-> "array", items |-> seq]
Obj(seq)  == [type |-> "object", fields |-> seq]
Is(k, v)  == [key |-> k, value |-> v]

(* Documents of three subschemas.  They are trees, but for references.     *)
Typed(t) == [Blank EXCEPT !.types = {t}]

Leaves == {Typed("integer"), Typed("string"),
           [Blank EXCEPT !.enum = <<Str("k"), Num("one")>>],
           [Blank EXCEPT !.fewest = 1, !.most = 2, !.unique = TRUE],
           [Blank EXCEPT !.extra = Closed], [Blank EXCEPT !.required = {"k"}],
           [Blank EXCEPT !.known = FALSE]}

Reference(id) == [Blank EXCEPT !.ref = id]

References == {Reference(id) : id \in {"a", "b", "gone"}}

Pairs == {<<"a", "b">>, <<"b", "a">>}

(* A root with both others below it, each a leaf or a reference,           *)
Forks ==
    {[Blank EXCEPT !.all = p] : p \in Pairs} \cup
    {[Blank EXCEPT !.any = p] : p \in Pairs} \cup
    {[Blank EXCEPT !.one = p] : p \in Pairs} \cup
    {[Blank EXCEPT !.props = [k |-> "a"], !.defs = <<"b">>, !.draft7 = d] : d \in BOOLEAN} \cup
    {[Blank EXCEPT !.props = [k |-> "a"], !.extra = "b", !.required = {"k"}],
     [Blank EXCEPT !.props = [j |-> "b", k |-> "a"], !.required = {"j"}],
     [Blank EXCEPT !.names = "a", !.extra = "b"],
     [Blank EXCEPT !.all = <<"b">>, !.any = <<"a">>]}

OtherLeaves ==
    Leaves \cup References \cup {[Reference("b") EXCEPT !.types = {"object"}]}

(* or with one, which has the other below it.                              *)
Roots ==
    {[Blank EXCEPT !.ref = "a", !.defs = <<"a">>, !.draft7 = d] : d \in BOOLEAN} \cup
    {[Blank EXCEPT !.props = [k |-> "a"], !.extra = x] : x \in {None, Closed}} \cup
    {[Blank EXCEPT !.extra = "a"], [Blank EXCEPT !.one = <<"a">>, !.enum = <<Obj(<<>>)>>]}

Branches ==
    {[Blank EXCEPT !.all = <<"b">>], [Blank EXCEPT !.any = <<"b">>],
     [Blank EXCEPT !.items = "b", !.unique = TRUE],
     [Blank EXCEPT !.items = "b", !.types = {"array", "object"}],
     [Blank EXCEPT !.extra = "b"], [Blank EXCEPT !.names = "b"],
     [Blank EXCEPT !.props = [k |-> "b"]]}

(* Four subschemas, a reached at two depths: in the tree and by reference. *)
Deep(above) ==
    (Root :> [Blank EXCEPT !.props = ("j" :> above[1]) @@ ("k" :> above[2])])
        @@ ("a" :> [Blank EXCEPT !.props = [k |-> "c"]])
        @@ ("b" :> Reference("a")) @@ ("c" :> Typed("integer"))

Plain == (Root :> [Blank EXCEPT !.all = <<"a", "b">>]) @@ ("a" :> Blank) @@ ("b" :> Blank)

Three(roots, as, bs) ==
    {(Root :> r) @@ ("a" :> a) @@ ("b" :> b) : r \in roots, a \in as, b \in bs}

MCDocuments ==
    Three(Forks, OtherLeaves, OtherLeaves) \cup
    Three(Roots, Branches, Leaves \cup References) \cup
    {Deep(p) : p \in Pairs} \cup {Plain}

Nested(key) == Obj(<<Is(key, Obj(<<Is("k", Obj(<<Is("k", Num("one"))>>))>>))>>)

Arguments ==
    {Obj(<<>>), Obj(<<Is("k", Num("one"))>>), Obj(<<Is("k", Scalar("float", "one"))>>),
     Obj(<<Is("j", Num("zero")), Is("k", Str("k"))>>),
     Obj(<<Is("k", Arr(<<Num("one"), Scalar("float", "one")>>))>>),
     Obj(<<Is("k", Arr(<<Str("k"), Obj(<<>>)>>))>>),
     Obj(<<Is("k", Obj(<<Is("k", Num("one"))>>))>>), Nested("j"), Nested("k"), Obj(<<Is("mark", Num("one"))>>)}

Call(arguments) ==
    Obj(<<Is("action", Str("call")), Is("capability_id", Str("word")),
          Is("arguments", arguments)>>)

(* Next to one document, every request of up to five fields with an action *)
(* and good values, and those of a right shape with one other value.       *)
Good(field) ==
    CASE field = "arguments" -> Obj(<<>>)
      [] field = "kinds" -> Arr(<<Str("skill"), Str("mcp_tool")>>)
      [] field \in {"limit", "expected_revision"} -> Num("one")
      [] OTHER -> Str("word")

Others == {Str("empty"), Str("long"), Str("word"), Num("zero"), Num("six"), Num("negative"),
           Scalar("float", "one"), Scalar("float", "zero"), Scalar("fraction", "half"),
           Scalar("boolean", "true"), Scalar("null", "null"), Obj(<<>>), Arr(<<>>),
           Arr(<<Str("skill"), Str("skill")>>), Arr(<<Str("skill"), Num("one")>>),
           Arr(<<Str("word")>>)}

Request(action, fields, Value(_)) ==
    LET seq == InSomeOrder(fields)
    IN  Obj(<<Is("action", Str(action))>> \o
            [i \in DOMAIN seq |-> Is(seq[i], Value(seq[i]))])

RightShapes(action) ==
    {ACTION_FIELDS[action].required \cup more : more \in SUBSET ACTION_FIELDS[action].optional}

ToolRequests ==
    {Request(action, fields, Good) :
        action \in Actions \cup {"unknown"},
        fields \in UNION {kSubset(n, TOOL_ARGUMENT_FIELDS \ {"action"}) : n \in 0..4}} \cup
    UNION {UNION {{Request(action, shape \ {"action"},
                           LAMBDA g : IF g = field THEN x ELSE Good(g)) :
                      field \in shape, x \in Others} :
               shape \in RightShapes(action)} : action \in Actions} \cup
    {Obj(<<Is("action", x), Is("capability_id", Str("word"))>>) : x \in Others} \cup
    {Obj(<<>>), Obj(<<Is("action", Str("status")), Is("other", Num("one"))>>)}

MCRequests(schema) ==
    {Call(v) : v \in Arguments} \cup IF schema = Plain THEN ToolRequests ELSE {}

MCIds == {Root, "a", "b", "c", "gone"}

(* The requests, and their parts at every depth.                           *)
Parts(v) ==
    CASE v.type = "array"  -> ToSet(v.items)
      [] v.type = "object" -> UNION {{f.value, Str(f.key)} : f \in ToSet(v.fields)}
      [] OTHER -> {}

WithParts(S) == S \cup UNION {Parts(v) : v \in S}

MCValues ==
    MCRequests(Plain) \cup
    WithParts(WithParts(WithParts(
        Arguments \cup Others \cup {Good(field) : field \in TOOL_ARGUMENT_FIELDS}))) \cup
    {Str(name) : name \in TOOL_ARGUMENT_FIELDS \cup Actions \cup {"unknown", "other"}}
=============================================================================
