---------------------------- MODULE CapabilityTool ----------------------------
(***************************************************************************)
(* The router's one public tool: the fields of each action (protocol.py),  *)
(* the input schema advertised to the client (CAPABILITY_TOOL, server.py)  *)
(* and the checks a request goes through (validate_action, executor.py).   *)
(* The last two are written separately in the code.                        *)
(*                                                                         *)
(* Strings and numbers are named: "long" is longer than the limit on a     *)
(* query, and NonNegative and InLimit are ranges of the named numbers.     *)
(***************************************************************************)
EXTENDS SchemaValidator

CONSTANTS NonEmpty,     \* the names of strings that are not empty
          NonNegative,  \* the names of numbers from 0
          InLimit       \* the names of numbers from 1 to 5

Kinds == {"mcp_tool", "skill"}

Fields(required, optional) ==
    [required |-> {"action"} \cup required, optional |-> optional]

ACTION_FIELDS ==
    [search           |-> Fields({"query"}, {"kinds", "limit"}),
     describe         |-> Fields({"capability_id"}, {}),
     load_skill       |-> Fields({"capability_id"}, {}),
     call             |-> Fields({"capability_id", "arguments"}, {}),
     status           |-> Fields({}, {}),
     context_list     |-> Fields({}, {}),
     context_current  |-> Fields({}, {}),
     context_use      |-> Fields({"context"}, {}),
     context_explain  |-> Fields({"capability_id", "context"}, {}),
     context_move     |-> Fields({"capability_id", "source_context", "target_context"},
                                 {"expected_revision"}),
     context_undo     |-> Fields({"change_id"}, {}),
     context_share    |-> Fields({"capability_id", "target_context"}, {"expected_revision"}),
     context_unassign |-> Fields({"capability_id", "context"}, {"expected_revision"})]

Actions == DOMAIN ACTION_FIELDS
FieldsOf(action) == ACTION_FIELDS[action].required \cup ACTION_FIELDS[action].optional
TOOL_ARGUMENT_FIELDS == UNION {FieldsOf(action) : action \in Actions}

-----------------------------------------------------------------------------
(* The advertised schema.  Its subschemas are identified by what they are  *)
(* for: the root, the input and the const of an action, a field's value.   *)

InputOf(action)  == <<"input", action>>
ConstOf(action)  == <<"const", action>>
PropertyOf(name) == <<"property", name>>
ItemsOf(name)    == <<"items", name>>

NonEmptyString == [Blank EXCEPT !.types = {"string"}, !.fits = NonEmpty]

TOOL_ARGUMENT_PROPERTIES ==
    [query             |-> [NonEmptyString EXCEPT !.fits = @ \ {"long"}],
     capability_id     |-> NonEmptyString,
     arguments         |-> [Blank EXCEPT !.types = {"object"}],
     context           |-> NonEmptyString,
     source_context    |-> NonEmptyString,
     target_context    |-> NonEmptyString,
     change_id         |-> NonEmptyString,
     expected_revision |-> [Blank EXCEPT !.types = {"integer"}, !.fits = NonNegative],
     kinds             |-> [Blank EXCEPT !.types = {"array"}, !.items = ItemsOf("kinds"),
                                         !.fewest = 1, !.unique = TRUE],
     limit             |-> [Blank EXCEPT !.types = {"integer"}, !.fits = InLimit]]

(* _action_input_schema: the subschema of one action.                      *)
ActionInputSchema(action) ==
    [Blank EXCEPT !.types = {"object"}, !.required = ACTION_FIELDS[action].required,
                  !.extra = Closed,
                  !.props = [field \in FieldsOf(action) |->
                                IF field = "action" THEN ConstOf(action)
                                ELSE PropertyOf(field)]]

(* CAPABILITY_TOOL: one alternative for each action.                       *)
ToolSubschema(id) ==
    IF id = Root
    THEN [Blank EXCEPT !.types = {"object"},
                       !.one = InSomeOrder({InputOf(action) : action \in Actions})]
    ELSE CASE id[1] = "input"    -> ActionInputSchema(id[2])
           [] id[1] = "const"    -> [Blank EXCEPT !.enum = <<Scalar("string", id[2])>>]
           [] id[1] = "property" -> TOOL_ARGUMENT_PROPERTIES[id[2]]
           [] id[1] = "items"    ->
                  [Blank EXCEPT !.enum = InSomeOrder({Scalar("string", k) : k \in Kinds})]

ToolIds ==
    {ItemsOf("kinds")} \cup {PropertyOf(name) : name \in DOMAIN TOOL_ARGUMENT_PROPERTIES}
        \cup UNION {{InputOf(action), ConstOf(action)} : action \in Actions}

CapabilityTool == [id \in {Root} \cup ToolIds |-> ToolSubschema(id)]

(* What stands for the root and for an absent keyword is nothing else.     *)
ASSUME ToolAssumption ==
    /\ ToolIds \cap {Root, None, Closed} = {}
    /\ None \notin {NonEmpty, NonEmpty \ {"long"}, NonNegative, InLimit}
    /\ \A id \in ToolIds : id[1] \in {"const", "items"} => CapabilityTool[id].enum # None

-----------------------------------------------------------------------------
(* validate_action.                                                        *)

At(v, key) == v.fields[CHOOSE i \in DOMAIN v.fields : v.fields[i].key = key].value

IsString(v, names) == v.type = "string" /\ v.name \in names

(* _validate_action_shape.                                                 *)
ShapeOK(v, action) ==
    ACTION_FIELDS[action].required \subseteq Keys(v) /\ Keys(v) \subseteq FieldsOf(action)

KindsOKRepeated(kinds) ==
    kinds.type = "array" /\ kinds.items # << >> /\ \A k \in ToSet(kinds.items) : IsString(k, Kinds)

(* _validate_kinds.                                                        *)
KindsOK(kinds) ==
    /\ kinds.type = "array" /\ kinds.items # << >>
    /\ \A k \in ToSet(kinds.items) : IsString(k, Kinds)
    /\ Cardinality(ToSet(kinds.items)) = Len(kinds.items)

(* _validate_limit: an integral float will do.                             *)
LimitOK(limit) == limit.type \in {"integer", "float"} /\ limit.name \in InLimit

(* expected_revision in _validate_context_fields: it will not do.          *)
RevisionOK(revision) == revision.type = "integer" /\ revision.name \in NonNegative

(* ACTION_VALIDATORS.                                                      *)
FieldOK(field, x) ==
    CASE field = "action"            -> IsString(x, Actions)
      [] field = "query"             -> IsString(x, NonEmpty \ {"long"})
      [] field = "arguments"         -> x.type = "object"
      [] field = "kinds"             -> KindsOK(x)
      [] field = "limit"             -> LimitOK(x)
      [] field = "expected_revision" -> RevisionOK(x)
      [] OTHER                       -> IsString(x, NonEmpty)

ValidAction(v) ==
    /\ v.type = "object"
    /\ Keys(v) \subseteq TOOL_ARGUMENT_FIELDS
    /\ "action" \in Keys(v) /\ FieldOK("action", At(v, "action"))
    /\ ShapeOK(v, At(v, "action").name)
    /\ \A field \in Keys(v) : FieldOK(field, At(v, field))
=============================================================================
