------------------------------ MODULE Schemas ------------------------------
(***************************************************************************)
(* Schemas of vibora/schemas: what the metaclass makes of the Field        *)
(* objects of a class, and load(), which converts and checks the data of a *)
(* request.  A value is [type, content]; its type is "text", "int",        *)
(* "float", "null", "list", "map" or "object", and the content of a number *)
(* its text, that of a floating-point number maybe "inf" or "nan", which   *)
(* the json of the standard library reads.  Messages and their translation *)
(* are left out.                                                           *)
(***************************************************************************)
EXTENDS Naturals, Sequences, SequencesExt, FiniteSets

CONSTANTS
    Fields,      \* the Field objects as the application creates them
    Classes,     \* its classes in the order of their creation: each is the
                 \* sequence of its attributes, a name and a Field object
    Validators,  \* the functions of the application that fields refer to
    Truncated    \* for the text of a number, that of its integer

NoName == "no name"

Value(type, content) == [type |-> type, content |-> content]
Null == Value("null", <<>>)
Infinity == <<"inf">>
NaN == <<"nan">>

(* Field.__init__(); kind is the class "String", "Integer", "Number" or    *)
(* "Field", which converts nothing: List and Nested assign an attribute    *)
(* that fields.pxd does not declare, so that no object of them exists.     *)
Field(kind, validators) ==
    [kind |-> kind, strict |-> FALSE, required |-> TRUE, default |-> Null,
     loadFrom |-> NoName, validators |-> validators]

WithDefault(field, value) ==
    [field EXCEPT !.required = FALSE, !.default = value]

AttributeType == [name : STRING, field : DOMAIN Fields]

(* Field objects are made by Field() of functions that exist; a class has  *)
(* an attribute of a name once; int() of an integer is the integer.        *)
ASSUME SchemasAssumption ==
    /\ \A f \in DOMAIN Fields :
          /\ Fields[f].kind \in {"String", "Integer", "Number", "Field"}
          /\ Fields[f].validators \in Seq(DOMAIN Validators)
    /\ Classes \in Seq(Seq(AttributeType))
    /\ \A c \in DOMAIN Classes : \A i, j \in DOMAIN Classes[c] :
          Classes[c][i].name = Classes[c][j].name => i = j
    /\ \A t \in DOMAIN Truncated :
          /\ Truncated[t] \in DOMAIN Truncated
          /\ Truncated[Truncated[t]] = Truncated[t]
          /\ t \notin {Infinity, NaN}

(* Validator.__init__(): what is declared by `async def`, and how many     *)
(* parameters it has; it rejects some texts and fails for some types.      *)
Function(async, parameters, rejects) ==
    [async |-> async, parameters |-> parameters, rejects |-> rejects,
     fails |-> {}]

(* class Length: len() fails for what has none. *)
Length(min, max, texts) ==
    [Function(FALSE, 1, {t \in texts : Len(t) < min \/ Len(t) > max})
        EXCEPT !.fails = {"int", "float", "null", "object"}]
-----------------------------------------------------------------------------
(* SchemaCreator *)

Created(field) ==
    [kind |-> field.kind, strict |-> field.strict,
     required |-> field.required, default |-> field.default,
     loadFrom |-> field.loadFrom, loadInto |-> NoName,
     validators |-> field.validators, async |-> FALSE, wrapped |-> FALSE]

Named(name, default) == IF name = NoName THEN default ELSE name

IsAsync(field) ==
    /\ ~field.wrapped
    /\ \E i \in DOMAIN field.validators : Validators[field.validators[i]].async

(* Fault: a field stays synchronous whatever its validators are. *)
PrepareForSync(field, name) ==
    [field EXCEPT !.loadFrom = Named(@, name), !.loadInto = Named(@, name),
                  !.wrapped = TRUE]

(* prepare_field(): the first class that an object is declared in names    *)
(* it.  A function that is wrapped in a Validator does not look like a     *)
(* coroutine function to the next one.                                     *)
Prepare(field, name) ==
    [field EXCEPT
        !.loadFrom = Named(@, name),
        !.loadInto = Named(@, name),
        !.async = (IF field.kind = "Field" THEN @ ELSE FALSE)
                      \/ IsAsync(field),
        !.wrapped = TRUE]

(* SchemaCreator.__new__(), for one class after the other; the objects are *)
(* shared between the classes, which have no field but their own.          *)
Objects ==
    LET attributes == FlattenSeq(Classes)
        prepare(objects, a) ==
            [objects EXCEPT ![a.field] = Prepare(@, a.name)]
    IN  FoldLeft(prepare, [f \in DOMAIN Fields |-> Created(Fields[f])],
                 attributes)

FieldsOf(class) == [i \in DOMAIN class |-> Objects[class[i].field]]
-----------------------------------------------------------------------------
(* The conversions, load() of each kind of field. *)

Good(value) == [raised |-> "none", value |-> value]
Bad(error) == [raised |-> error, value |-> Null]
Invalid == Bad("ValidationError")

(* str(value) *)
TextOf(value) ==
    IF value.type \in {"text", "int", "float"} THEN value.content
    ELSE <<"str", value.type>>

AsString(strict, value) ==
    IF strict /\ value.type \notin {"text", "int", "float"} THEN Invalid
    ELSE Good(Value("text", TextOf(value)))

(* int(value) and float(value) raise ValueError for a text that is no      *)
(* number of this type, and for NaN; what else they raise is not caught:   *)
(* TypeError for what is neither text nor number, OverflowError for the    *)
(* integer of what is infinite.                                            *)
Integral == {t \in DOMAIN Truncated : Truncated[t] = t}
Floating == DOMAIN Truncated \cup {Infinity, NaN}

HasInteger(value) ==
    value.content \in (IF value.type = "text" THEN Integral
                       ELSE DOMAIN Truncated)
IsInfinite(value) == value.type = "float" /\ value.content = Infinity

AsInteger(strict, value) ==
    IF value.type = "int" THEN Good(value)
    ELSE IF strict /\ value.type \notin {"text", "float"} THEN Invalid
    ELSE IF value.type \notin {"text", "float"} THEN Bad("TypeError")
    ELSE IF IsInfinite(value) THEN Bad("OverflowError")
    ELSE IF ~HasInteger(value) THEN Invalid
    ELSE Good(Value("int", Truncated[value.content]))

AsNumber(strict, value) ==
    IF value.type = "int" THEN Good(value)
    ELSE IF strict THEN Invalid
    ELSE IF value.type \notin {"text", "float"} THEN Bad("TypeError")
    ELSE IF value.content \notin Floating THEN Invalid
    ELSE Good(Value("float", value.content))

Converted(field, value) ==
    CASE field.kind = "String" -> AsString(field.strict, value)
      [] field.kind = "Integer" -> AsInteger(field.strict, value)
      [] field.kind = "Number" -> AsNumber(field.strict, value)
      [] field.kind = "Field" -> Good(value)
-----------------------------------------------------------------------------
(* Validator.validate(): a function with another number of parameters is   *)
(* not called, so that there may be nothing to await, and a coroutine that *)
(* is not awaited does nothing.                                            *)
Verdict(v, awaited, value) ==
    IF v.async /\ ~awaited THEN "none"
    ELSE IF v.parameters \notin {1, 2}
    THEN IF v.async THEN "TypeError" ELSE "none"
    ELSE IF value.type \in v.fails THEN "TypeError"
    ELSE IF value.content \in v.rejects THEN "ValidationError"
    ELSE "none"

(* pipeline() and sync_pipeline(): the first validator that raises ends it. *)
Pipeline(field, value) ==
    LET converted == Converted(field, value)
        verdict(i) == Verdict(Validators[field.validators[i]], field.async,
                              converted.value)
        refused == {i \in DOMAIN field.validators : verdict(i) # "none"}
    IN  IF converted.raised # "none" \/ refused = {} THEN converted
        ELSE Bad(verdict(CHOOSE i \in refused : \A j \in refused : i <= j))

FieldValue(field, values) ==
    IF field.loadFrom \in DOMAIN values
    THEN Pipeline(field, values[field.loadFrom])
    ELSE IF field.required THEN Invalid ELSE Good(field.default)

(* Schema.load(): what is no ValidationError leaves it at once.            *)
Load(class, values) ==
    LET fields == FieldsOf(class)
        result == [i \in DOMAIN fields |-> FieldValue(fields[i], values)]
        wrong == SelectInSeq(result, LAMBDA r : r.raised \notin
                                         {"none", "ValidationError"})
        named(n) == SelectLastInSeq(fields, LAMBDA f : f.loadInto = n)
        errors == {fields[i].loadFrom : i \in
                       {j \in DOMAIN fields :
                           result[j].raised = "ValidationError"}}
        names == {fields[i].loadInto : i \in DOMAIN fields}
    IN  IF wrong # 0
        THEN [raised |-> result[wrong].raised, errors |-> {},
              instance |-> <<>>]
        ELSE IF errors # {}
        THEN [raised |-> "InvalidSchema", errors |-> errors,
              instance |-> <<>>]
        ELSE [raised |-> "none", errors |-> {},
              instance |-> [n \in names |-> result[named(n)].value]]
-----------------------------------------------------------------------------
(* What a class promises of values, by its declaration alone.              *)

SourceOf(a) == Named(Fields[a.field].loadFrom, a.name)

(* docs/schemas/fields.md has the default stand for a null, too; load()    *)
(* looks for the key only.                                                 *)
NullForDefault(a, values) ==
    /\ Fields[a.field].default # Null
    /\ SourceOf(a) \in DOMAIN values /\ values[SourceOf(a)].type = "null"

Missing(a, values) ==
    SourceOf(a) \notin DOMAIN values \/ NullForDefault(a, values)

(* An object may belong to several attributes, of one name, if none of its *)
(* validators is asynchronous or the class of the field is Field; and a    *)
(* validator takes the value, and the context if it likes.                 *)
MayShare(f) ==
    \/ f.kind = "Field"
    \/ \A n \in DOMAIN f.validators : ~Validators[f.validators[n]].async

Usual(class) ==
    \A i \in DOMAIN class :
        LET f == Fields[class[i].field]
            attributes == FlattenSeq(Classes)
            its == {j \in DOMAIN attributes :
                       attributes[j].field = class[i].field}
        IN  /\ \A j \in its : attributes[j].name = class[i].name
            /\ MayShare(f) \/ Cardinality(its) = 1
            /\ \A n \in DOMAIN f.validators :
                  Validators[f.validators[n]].parameters \in {1, 2}

(* What the values of a request may be: int() of an integer is itself, and *)
(* that of a floating-point number exists, but for the infinite and NaN.   *)
IsValue(v) ==
    /\ v = Value(v.type, v.content)
    /\ v.type = "int" => v.content \in Integral
    /\ v.type = "float" => v.content \in Floating

HasNullForDefault(class, values) ==
    \E i \in DOMAIN class : NullForDefault(class[i], values)

(* The type and content that validators and the application should see. *)
TypeFor(f, value) ==
    CASE f.kind = "String" -> "text"
      [] f.kind = "Integer" -> "int"
      [] f.kind = "Number" -> IF value.type = "int" THEN "int" ELSE "float"
      [] OTHER -> value.type

Meaning(f, value) ==
    IF f.kind = "Integer" THEN Truncated[value.content]
    ELSE IF f.kind = "String" THEN TextOf(value)
    ELSE value.content

(* Whether a value may stand for what the field is to hold. *)
Fits(f, value) ==
    CASE f.kind = "Integer" ->
            \/ value.type = "int"
            \/ value.type \in {"text", "float"} /\ HasInteger(value)
      [] f.kind = "Number" ->
            \/ value.type = "int"
            \/ ~f.strict /\ value.type \in {"text", "float"}
                 /\ value.content \in Floating
      [] f.kind = "String" -> f.strict => value.type \in
                                              {"text", "int", "float"}
      [] OTHER -> TRUE

Rejected(f, value) ==
    \E n \in DOMAIN f.validators :
        Meaning(f, value) \in Validators[f.validators[n]].rejects

Refused(a, values) ==
    LET f == Fields[a.field]
        value == values[SourceOf(a)]
    IN  IF Missing(a, values) THEN f.required
        ELSE ~Fits(f, value) \/ Rejected(f, value)

(* What load() cannot tell from an error in the program: a field for a     *)
(* number that is given neither number nor text, the integer of an infinite *)
(* number, the length of a number.                                         *)
Confusing(a, values) ==
    LET f == Fields[a.field]
        value == values[SourceOf(a)]
    IN  /\ ~Missing(a, values)
        /\ \/ f.kind \in {"Integer", "Number"} /\ ~f.strict
              /\ value.type \notin {"text", "int", "float"}
           \/ f.kind = "Integer" /\ IsInfinite(value)
           \/ /\ Fits(f, value)
              /\ \E n \in DOMAIN f.validators :
                    TypeFor(f, value) \in Validators[f.validators[n]].fails

Kept(a, values, got) ==
    LET f == Fields[a.field]
        value == values[SourceOf(a)]
    IN  IF Missing(a, values) THEN got = f.default
        ELSE got = Value(TypeFor(f, value), Meaning(f, value))

(* load() returns an instance exactly if nothing is refused or confusing,  *)
(* with what the client sent; an InvalidSchema names what is refused; and  *)
(* it fails in another way, TypeError or OverflowError, only for what is   *)
(* confusing.                                                              *)
KeepsPromise(class, values, result) ==
    LET refused == {i \in DOMAIN class : Refused(class[i], values)}
        confusing == {i \in DOMAIN class : Confusing(class[i], values)}
    IN  CASE result.raised = "none" ->
                /\ refused = {} /\ confusing = {}
                /\ \A i \in DOMAIN class :
                      Kept(class[i], values, result.instance[class[i].name])
          [] result.raised = "InvalidSchema" ->
                /\ refused # {}
                /\ result.errors = {SourceOf(class[i]) : i \in refused}
          [] OTHER -> confusing # {}
=============================================================================
