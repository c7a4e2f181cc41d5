---------------------------- MODULE ToolArguments ----------------------------
(***************************************************************************)
(* Arguments at the router's two boundaries: a request to its own tool     *)
(* passes validate_action, and the arguments of a call then match the      *)
(* schema a server gave for the tool (_validate_call_schema, executor.py), *)
(* which the catalog offers only if the validator supports it              *)
(* (tool_supported, catalog.py).                                           *)
(***************************************************************************)
EXTENDS CapabilityTool

CONSTANTS Ids,          \* the identities of subschemas, and of references to none
          Documents,    \* the schemas of servers
          Values,       \* the JSON values, each with its parts
          Requests(_),  \* the requests made next to a schema
          Budgets       \* the work a validation may do before its limit or deadline

(* The shape of a subschema: a keyword is absent or well formed.           *)
Subschema(n) ==
    /\ {n.ref, n.items, n.names} \subseteq Ids \cup {None}
    /\ n.extra \in Ids \cup {None, Closed}
    /\ {n.defs, n.all, n.any, n.one} \subseteq Seq(Ids)
    /\ IsFiniteSet(DOMAIN n.props) /\ \A name \in DOMAIN n.props : n.props[name] \in Ids
    /\ IsFiniteSet(n.required)
    /\ n.fewest \in Nat /\ (n.most = None \/ n.most \in Nat)

ASSUME DocumentsAssumption ==
    /\ None \notin Ids /\ Closed \notin Ids
    /\ \A d \in Documents : \A s \in DOMAIN d : Subschema(d[s])

(* JSON values: the keys of an object are strings, each its own, and a     *)
(* part is smaller than the whole.                                         *)
ScalarTypes == {"string", "integer", "float", "fraction", "boolean", "null"}
Strings     == {v.name : v \in {v \in Values : v.type = "string"}}
Arrays      == [type : {"array"}, items : Seq(Values)]
Objects     == [type : {"object"}, fields : Seq([key : Strings, value : Values])]

JsonValue(v) ==
    \/ v.type \in ScalarTypes /\ v = Scalar(v.type, v.name)
    \/ /\ v.type = "array" /\ v \in Arrays
       /\ \A i \in DOMAIN v.items : Size(v.items[i]) < Size(v)
    \/ /\ v.type = "object" /\ v \in Objects
       /\ \A i, j \in DOMAIN v.fields : v.fields[i].key = v.fields[j].key => i = j
       /\ \A f \in ToSet(v.fields) :
              Size(f.value) < Size(v) /\ Size(Scalar("string", f.key)) < Size(v)

ASSUME ValuesAssumption ==
    /\ None \notin Values
    /\ \A v \in Values : Size(v) \in Nat /\ JsonValue(v)
    /\ UNION {Requests(d) : d \in Documents} \subseteq Values

VARIABLES doc,          \* the schema of the server's tool
          offered,      \* its availability in the catalog
          request,      \* the arguments of the request in progress
          accepted,     \* what validate_action said of it
          outcome       \* what validate said of the arguments of the call

vars == <<doc, offered, request, accepted, outcome>>

Init ==
    /\ doc \in Documents
    /\ offered = None
    /\ request = None
    /\ accepted = None
    /\ outcome = None

(* _tool_entry and tool_supported: a refresh lists the tool.               *)
List ==
    /\ offered = None
    /\ offered' = SchemaSupported(doc)
    /\ UNCHANGED <<doc, request, accepted, outcome>>

(* A request to the tool reaches validate_action.                          *)
Receive ==
    /\ offered # None
    /\ request = None
    /\ \E v \in Requests(doc) :
           /\ request' = v
           /\ accepted' = ValidAction(v)
    /\ UNCHANGED <<doc, offered, outcome>>

IsCall == accepted = TRUE /\ At(request, "action").name = "call"

(* _validate_call_schema: a call of a tool the catalog offers.             *)
CheckArguments ==
    /\ IsCall
    /\ offered = TRUE
    /\ outcome = None
    /\ \E budget \in Budgets :
           LET out == ValidateArguments(doc, At(request, "arguments"), budget)
           IN  outcome' = [errors |-> out.errors, deep |-> out.deep, broken |-> out.broken]
    /\ UNCHANGED <<doc, offered, request, accepted>>

(* The reply is sent.                                                      *)
Reply ==
    /\ request # None
    /\ IsCall /\ offered = TRUE => outcome # None
    /\ request' = None
    /\ accepted' = None
    /\ outcome' = None
    /\ UNCHANGED <<doc, offered>>

Next == List \/ Receive \/ CheckArguments \/ Reply

Spec == Init /\ [][Next]_vars

-----------------------------------------------------------------------------
Checked == outcome # None

Meant == Conforms(doc, Root, At(request, "arguments"))

(* A validation reports at most MAX_VALIDATION_ERRORS errors, however many *)
(* levels of the schema merge theirs (_record_error, _merge_errors).       *)
TypeOK ==
    /\ offered \in BOOLEAN \cup {None}
    /\ accepted \in BOOLEAN \cup {None}
    /\ Checked => /\ Len(outcome.errors) <= MaxErrors
                  /\ ToSet(outcome.errors) \subseteq {"invalid", "limit"}

(* Arguments that reach the server match the schema by the rules of JSON   *)
(* Schema, wherever the work limit, the deadline, the depth limit or the   *)
(* memo cut the validation short: a limit is never taken for a match, nor  *)
(* in a oneOf for a branch that does not match (validate).                 *)
AcceptedConforms ==
    Checked /\ outcome.errors = << >> /\ WellFounded(doc) => Meant

(* Arguments that match are refused only for a limit, and every error says *)
(* so: the model that called is never told that they are wrong             *)
(* (_validate_composition).                                                *)
RefusedForCause ==
    Checked /\ "invalid" \in ToSet(outcome.errors) /\ WellFounded(doc) => ~Meant

(* A schema the catalog offers can be validated against: no value leads    *)
(* the validator to a subschema that is no schema object or to a reference *)
(* without a target, and only a schema that recurs can reach the depth     *)
(* limit (schema_supported visits what validate will).                     *)
AdmittedIsCheckable ==
    Checked => ~outcome.broken /\ (outcome.deep => ~Acyclic(doc))

(* The runtime accepts exactly what the advertised schema allows, with one *)
(* exception: an expected_revision written as an integral float is an      *)
(* integer for the schema and refused by the runtime (server.py and        *)
(* executor.py state the rules separately).                                *)
AdvertisedIsEnforced ==
    request # None =>
        (accepted <=>
            /\ Conforms(CapabilityTool, Root, request)
            /\ ~("expected_revision" \in Keys(request)
                    /\ At(request, "expected_revision").type = "float"))
=============================================================================
