--------------------------- MODULE SchemaValidator ---------------------------
(***************************************************************************)
(* The JSON Schema validator (schema.py): which schemas a router accepts   *)
(* from a server (schema_supported), and which arguments match one         *)
(* (validate), both within a limit on depth and on work; and, as the       *)
(* reference, what JSON Schema says of arguments (Conforms).               *)
(*                                                                         *)
(* A schema document maps the identity of every subschema to its keywords. *)
(* A value has a type; scalars have a name, arrays items, objects fields   *)
(* in order.  A place is the path of keys from the root of the arguments.  *)
(*                                                                         *)
(* An operator whose code calls itself is a constant, and its body is the  *)
(* definition named ...Step: a configuration gives the constant its body,  *)
(* and a theorem assumes that the two are equal where the body recurs to   *)
(* smaller arguments.                                                      *)
(***************************************************************************)
EXTENDS Integers, Sequences, FiniteSets, TLC, SequencesExt

CONSTANTS None,         \* no keyword
          Closed,       \* additionalProperties: false
          Root,         \* the identity of a document's root
          Marked,       \* a key whose text contains VALIDATION_LIMIT
          MaxDepth,     \* the depth limit, 128
          MaxErrors,    \* MAX_VALIDATION_ERRORS
          MaxExamined,  \* the work limit of schema_supported, 4096
          Identity(_), Size(_), Examine(_, _, _, _, _), Validate(_, _, _, _, _),
          Conforms(_, _, _)

ASSUME ValidatorAssumption ==
    /\ MaxDepth \in Nat \ {0}
    /\ MaxErrors \in Nat \ {0}
    /\ MaxExamined \in Nat
    /\ None # Closed /\ None \notin BOOLEAN

(* Every keyword absent.  known: no unknown keyword, none malformed; fits: *)
(* the strings and numbers that satisfy the keywords on them; fewest and   *)
(* most: the lengths of arrays; a const is an enum of one.                 *)
Blank == [known |-> TRUE, draft7 |-> FALSE, defs |-> << >>, ref |-> None,
          all |-> << >>, any |-> << >>, one |-> << >>, types |-> {},
          enum |-> None, fits |-> None, fewest |-> 0, most |-> None,
          unique |-> FALSE, items |-> None, props |-> << >>, required |-> {},
          extra |-> None, names |-> None]

Scalar(type, name) == [type |-> type, name |-> name]
(* memo[key] = x in the code.                                              *)
With(memo, key, x) == [k \in {key} \cup DOMAIN memo |-> IF k = key THEN x ELSE memo[k]]

Keys(v) == {v.fields[i].key : i \in DOMAIN v.fields}

InSomeOrder(S) == FoldSet(LAMBDA x, seq : Append(seq, x), << >>, S)

(* The fields with these keys, in order.                                   *)
WithKeys(fields, keys) ==
    LET chosen[i \in 0..Len(fields)] ==
            IF i = 0 THEN << >>
            ELSE LET before == chosen[i - 1]
                 IN  IF fields[i].key \in keys THEN Append(before, fields[i]) ELSE before
    IN  chosen[Len(fields)]

-----------------------------------------------------------------------------
(* Identity of values (_json_identity): 1 and 1.0 are the same number, the *)
(* order of fields does not matter.                                        *)

IdentityStep(v) ==
    CASE v.type = "array"  -> [v EXCEPT !.items = [i \in DOMAIN @ |-> Identity(@[i])]]
      [] v.type = "object" ->
             [v EXCEPT !.fields = {[f EXCEPT !.value = Identity(@)] : f \in ToSet(@)}]
      [] v.type \in {"integer", "float", "fraction"} -> Scalar("number", v.name)
      [] OTHER -> v

SizeStep(v) ==
    CASE v.type = "array"  -> FoldLeft(LAMBDA n, item : n + Size(item), 1, v.items)
      [] v.type = "object" -> FoldLeft(LAMBDA n, f : n + Size(f.value), 1, v.fields)
      [] OTHER -> 1

(* TYPE_MATCHERS and _type_errors.                                         *)
TypesOf(v) ==
    CASE v.type \in {"integer", "float"} -> {"integer", "number"}
      [] v.type = "fraction" -> {"number"}
      [] OTHER -> {v.type}

HasType(n, v) == n.types = {} \/ n.types \cap TypesOf(v) # {}

Distinct(items) == Cardinality({Identity(items[i]) : i \in DOMAIN items}) = Len(items)

-----------------------------------------------------------------------------
(* schema_supported.                                                       *)

Present(x) == IF x \in {None, Closed} THEN << >> ELSE <<x>>

SubschemasOfProps(n) ==
    LET keys == InSomeOrder(DOMAIN n.props) IN [i \in DOMAIN keys |-> n.props[keys[i]]]

(* _schema_children.  A reference or a keyword to something that is no     *)
(* schema object leads out of the document.                                *)
Children(n) ==
    Present(n.ref) \o n.defs \o SubschemasOfProps(n) \o n.any \o n.all \o n.one
        \o Present(n.items) \o Present(n.extra) \o Present(n.names)

(* _keyword_values_supported, and _reference_shape_supported: in draft 7   *)
(* keywords beside a reference are ignored, so they are refused; only the  *)
(* root may name its dialect there.                                        *)
KeywordsSupported(doc, s) ==
    /\ doc[s].known
    /\ doc[Root].draft7 /\ doc[s].ref # None =>
           doc[s] = [Blank EXCEPT !.ref = doc[s].ref, !.draft7 = (s = Root)]

ExamineKeyAnyDepth(s, depth) == <<s, 0>>

(* A verdict is remembered for a subschema at a depth.                     *)
ExamineKey(s, depth) == <<s, depth>>

(* One more child, unless one before it was refused.                       *)
ExamineChild(doc, child, active, depth, sofar) ==
    IF sofar.ok THEN Examine(doc, child, active, depth, sofar) ELSE sofar

ExamineAll(doc, children, active, depth, st) ==
    LET sofar[i \in 0..Len(children)] ==
            IF i = 0 THEN st
            ELSE ExamineChild(doc, children[i], active, depth, sofar[i - 1])
    IN  sofar[Len(children)]

(* The verdict, what is remembered of other verdicts and the work left.    *)
ExamineStep(doc, s, active, depth, st) ==
    LET key     == ExamineKey(s, depth)
        worked  == [st EXCEPT !.left = @ - 1]
        visited == ExamineAll(doc, Children(doc[s]), active \cup {s}, depth + 1, worked)
        Remembered(out) == [out EXCEPT !.memo = With(@, key, out.ok)]
        Said(ok, out)   == [out EXCEPT !.ok = ok]
    IN  IF depth >= MaxDepth \/ s \notin DOMAIN doc THEN Said(FALSE, st)
        ELSE IF s \in active                        THEN st
        ELSE IF key \in DOMAIN st.memo              THEN Said(st.memo[key], st)
        ELSE IF worked.left < 0                     THEN Said(FALSE, worked)
        ELSE IF ~KeywordsSupported(doc, s)          THEN Remembered(Said(FALSE, worked))
        ELSE Remembered(visited)

SchemaSupported(doc) ==
    Examine(doc, Root, {}, 0, [ok |-> TRUE, memo |-> << >>, left |-> MaxExamined]).ok

-----------------------------------------------------------------------------
(* validate.  An error is "limit" when its text contains VALIDATION_LIMIT, *)
(* which the validator reads back from the texts: so is an error that      *)
(* quotes a key with that text.  st is the memo, the work left (the        *)
(* deadline is a smaller amount of work), the errors, and whether the      *)
(* depth limit was reached (deep) or a subschema that is none (broken).    *)

Error(names) == IF Marked \in names THEN "limit" ELSE "invalid"

Here(job) == Error(ToSet(job.place))

Mentions(errors) == "limit" \in ToSet(errors)

MergeUncapped(errors, additions) == errors \o additions

(* _record_error and _merge_errors.                                        *)
Merge(errors, additions) ==
    LET both == errors \o additions
    IN  SubSeq(both, 1, IF Len(both) < MaxErrors THEN Len(both) ELSE MaxErrors)

Add(st, additions) == [st EXCEPT !.errors = Merge(@, additions)]

AddIf(wrong, st, error) == IF wrong THEN Add(st, <<error>>) ELSE st

(* n operations of _json_identity, which stops at the first too many.      *)
Spend(st, n) == [st EXCEPT !.left = IF @ >= n THEN @ - n ELSE -1]

Job(schema, value, place) == [schema |-> schema, value |-> value, place |-> place]

(* One more job, its errors merged into those of the jobs before it.  The  *)
(* loops over items and over allOf stop at a limit: in the item's errors,  *)
(* in all of them.                                                         *)
Visit(doc, job, seen, depth, sofar, stops) ==
    LET out == Validate(doc, job, seen, depth + 1, sofar.st)
        all == Add([out EXCEPT !.errors = sofar.st.errors], out.errors)
    IN  IF sofar.halted THEN sofar
        ELSE [st      |-> all,
              results |-> Append(sofar.results, out.errors),
              halted  |-> \/ stops = "own" /\ Mentions(out.errors)
                          \/ stops = "merged" /\ Mentions(all.errors)]

VisitAll(doc, jobs, seen, depth, st, stops) ==
    LET sofar[i \in 0..Len(jobs)] ==
            IF i = 0 THEN [st |-> st, results |-> << >>, halted |-> FALSE]
            ELSE Visit(doc, jobs[i], seen, depth, sofar[i - 1], stops)
    IN  sofar[Len(jobs)]

AnyErrorsBlind(job, results) ==
    IF << >> \in ToSet(results) THEN << >> ELSE <<Here(job)>>

AnyErrors(job, results) ==
    IF << >> \in ToSet(results) THEN << >>
    ELSE IF \E r \in ToSet(results) : Mentions(r) THEN <<"limit">>
    ELSE <<Here(job)>>

Passing(results) == {i \in DOMAIN results : results[i] = << >>}

OneErrorsBlind(job, results) ==
    IF Cardinality(Passing(results)) = 1 THEN << >> ELSE <<Here(job)>>

OneErrors(job, results) ==
    IF \E r \in ToSet(results) : Mentions(r) THEN <<"limit">>
    ELSE IF Cardinality(Passing(results)) = 1 THEN << >>
    ELSE <<Here(job)>>

Of(branches, job) == [i \in DOMAIN branches |-> [job EXCEPT !.schema = branches[i]]]

(* _validate_composition: $ref, allOf, anyOf and oneOf of the same value.  *)
(* Every branch of an anyOf or a oneOf is tried, and its errors are used   *)
(* in place of the merged ones.                                            *)
Composition(doc, job, seen, depth, st) ==
    LET n    == doc[job.schema]
        ref  == VisitAll(doc, Of(Present(n.ref), job), seen, depth, st, "never").st
        all  == VisitAll(doc, Of(n.all, job), seen, depth, ref, "merged").st
        anys == VisitAll(doc, Of(n.any, job), seen, depth, all, "never")
        any  == IF n.any = << >> THEN all
                ELSE Add([anys.st EXCEPT !.errors = all.errors], AnyErrors(job, anys.results))
        ones == VisitAll(doc, Of(n.one, job), seen, depth, any, "never")
    IN  IF n.one = << >> THEN any
        ELSE Add([ones.st EXCEPT !.errors = any.errors], OneErrors(job, ones.results))

(* _validate_equality_keywords: the value and then the members of the enum *)
(* up to the one it equals are put in canonical form, at a cost.           *)
Equality(n, job, st) ==
    LET equal  == {i \in DOMAIN n.enum : Identity(n.enum[i]) = Identity(job.value)}
        looked == SubSeq(n.enum, 1, IF equal = {} THEN Len(n.enum) ELSE Min(equal))
        after  == Spend(st, FoldLeft(LAMBDA c, e : c + Size(e), Size(job.value), looked))
    IN  IF n.enum = None        THEN st
        ELSE IF after.left < 0  THEN Add(after, <<"limit">>)
        ELSE AddIf(equal = {}, after, Here(job))

(* The job of a field, its value or its name, one level down.              *)
Below(job, s, f, value) == Job(s, value, Append(job.place, f.key))

(* _validate_object: the missing and the unexpected properties, then the   *)
(* values of the other properties, the names and the values of the known.  *)
ObjectErrors(doc, job, seen, depth, st) ==
    LET n        == doc[job.schema]
        fields   == job.value.fields
        known    == WithKeys(fields, DOMAIN n.props)
        others   == WithKeys(fields, Keys(job.value) \ DOMAIN n.props)
        ErrorAt(key) == Error(ToSet(job.place) \cup {key})
        missing  == InSomeOrder(n.required \ Keys(job.value))
        absent   == Add(st, [i \in DOMAIN missing |-> ErrorAt(missing[i])])
        closed   == IF n.extra # Closed THEN absent
                    ELSE Add(absent, [i \in DOMAIN others |-> ErrorAt(others[i].key)])
        extras   == IF n.extra \in {None, Closed} THEN << >>
                    ELSE [i \in DOMAIN others |-> Below(job, n.extra, others[i], others[i].value)]
        names    == IF n.names = None THEN << >>
                    ELSE [i \in DOMAIN fields |->
                             Below(job, n.names, fields[i], Scalar("string", fields[i].key))]
        props    == [i \in DOMAIN known |->
                        Below(job, n.props[known[i].key], known[i], known[i].value)]
        Visited(jobs, from) == VisitAll(doc, jobs, seen, depth, from, "never").st
    IN  Visited(props, Visited(names, Visited(extras, closed)))

LengthOK(n, items) == Len(items) >= n.fewest /\ (n.most = None \/ Len(items) <= n.most)

(* _validate_array: both lengths may be wrong, of a schema no array fits.  *)
ArrayErrors(doc, job, seen, depth, st) ==
    LET n       == doc[job.schema]
        items   == job.value.items
        long    == AddIf(Len(items) < n.fewest, st, Here(job))
        sized   == AddIf(n.most # None /\ Len(items) > n.most, long, Here(job))
        after   == Spend(sized, Size(job.value) - 1)
        unique  == IF ~n.unique           THEN sized
                   ELSE IF after.left < 0 THEN Add(after, <<"limit">>)
                   ELSE AddIf(~Distinct(items), after, Here(job))
        jobs    == [i \in DOMAIN items |->
                       Job(n.items, items[i], Append(job.place, ToString(i)))]
    IN  IF n.items = None THEN unique
        ELSE VisitAll(doc, jobs, seen, depth, unique, "own").st

Unfit(n, v) ==
    /\ n.fits # None
    /\ v.type \notin {"object", "array", "boolean", "null"}
    /\ v.name \notin n.fits

(* _value_errors; fits stands for the keywords on strings and on numbers.  *)
ValueErrors(doc, job, seen, depth, st) ==
    IF job.value.type = "object"     THEN ObjectErrors(doc, job, seen, depth, st)
    ELSE IF job.value.type = "array" THEN ArrayErrors(doc, job, seen, depth, st)
    ELSE AddIf(Unfit(doc[job.schema], job.value), st, Here(job))

(* validate: a type error replaces the errors of the composition.  The     *)
(* same schema on the same value, above this one, is taken to hold.        *)
ValidateStep(doc, job, seen, depth, st) ==
    LET n        == doc[job.schema]
        key      == <<job.schema, job.value, job.place>>
        self     == <<job.schema, job.value>>
        worked   == Spend([st EXCEPT !.errors = << >>], 1)
        below    == seen \cup {self}
        composed == Composition(doc, job, below, depth, worked)
        errors   == IF ~HasType(n, job.value) THEN [composed EXCEPT !.errors = <<Here(job)>>]
                    ELSE ValueErrors(doc, job, below, depth, Equality(n, job, composed))
    IN  IF job.schema \notin DOMAIN doc THEN [worked EXCEPT !.broken = TRUE]
        ELSE IF depth >= MaxDepth       THEN [worked EXCEPT !.errors = <<"limit">>, !.deep = TRUE]
        ELSE IF worked.left < 0         THEN [worked EXCEPT !.errors = <<"limit">>]
        ELSE IF key \in DOMAIN st.memo  THEN [worked EXCEPT !.errors = st.memo[key]]
        ELSE IF self \in seen           THEN worked
        ELSE [errors EXCEPT !.memo = With(@, key, errors.errors)]

ValidateArguments(doc, value, budget) ==
    Validate(doc, Job(Root, value, << >>), {}, 0,
             [errors |-> << >>, memo |-> << >>, left |-> budget,
              deep |-> FALSE, broken |-> FALSE])

-----------------------------------------------------------------------------
(* What JSON Schema says, and for which schemas it says anything: those in *)
(* which no subschema applies to a value by way of itself.                 *)

ConformsStep(doc, s, v) ==
    LET n == doc[s]
        Meets(schema, value) == schema \in {None, Closed} \/ Conforms(doc, schema, value)
        Matching(branches)  == {i \in DOMAIN branches : Conforms(doc, branches[i], v)}
    IN  /\ HasType(n, v)
        /\ Meets(n.ref, v)
        /\ Matching(n.all) = DOMAIN n.all
        /\ n.any # << >> => Matching(n.any) # {}
        /\ n.one # << >> => Cardinality(Matching(n.one)) = 1
        /\ n.enum # None => \E e \in ToSet(n.enum) : Identity(e) = Identity(v)
        /\ ~Unfit(n, v)
        /\ v.type = "array" =>
               /\ LengthOK(n, v.items)
               /\ n.unique => Distinct(v.items)
               /\ \A i \in DOMAIN v.items : Meets(n.items, v.items[i])
        /\ v.type = "object" =>
               /\ n.required \subseteq Keys(v)
               /\ \A f \in ToSet(v.fields) :
                      /\ Meets(n.names, Scalar("string", f.key))
                      /\ IF f.key \in DOMAIN n.props THEN Meets(n.props[f.key], f.value)
                         ELSE n.extra # Closed /\ Meets(n.extra, f.value)

(* The subschemas a subschema applies to its own value, and all it names.  *)
OnSameValue(doc, s) == ToSet(Present(doc[s].ref) \o doc[s].all \o doc[s].any \o doc[s].one)
OnAnyValue(doc, s)  == ToSet(Children(doc[s]))

(* No set of subschemas in which each leads to another of the set.         *)
WellFounded(doc) ==
    LET next == [s \in DOMAIN doc |-> OnSameValue(doc, s)]
    IN  \A S \in SUBSET DOMAIN doc : S # {} => \E s \in S : next[s] \cap S = {}

Acyclic(doc) ==
    LET next == [s \in DOMAIN doc |-> OnAnyValue(doc, s)]
    IN  \A S \in SUBSET DOMAIN doc : S # {} => \E s \in S : next[s] \cap S = {}
=============================================================================
