------------------------------- MODULE GoValues -------------------------------
(***************************************************************************)
(* What the runner makes of a Go value that a handler returned: the        *)
(* dump that shows it to the author of a fixture, for which protobuf       *)
(* messages are rewritten (runner.go, internal/protojsonview), and the     *)
(* values a request template reads out of it (request_template.go).  Both  *)
(* walk the value by reflection.                                           *)
(*                                                                         *)
(* A value has a kind.  An interface holds another value, Invalid if it is *)
(* nil; a pointer leads to a cell of a heap, so values may share cells and *)
(* be cyclic.  A field of a struct has a name, a json tag and may be       *)
(* exported.  The keys of maps are strings, of a named string type, or     *)
(* integers.  message says that the static type of a pointer or interface  *)
(* implements proto.Message.                                               *)
(*                                                                         *)
(* A message is a struct as protoc-gen-go generates it: the json tag of a  *)
(* field is its proto name, with omitempty; a oneof is an interface field  *)
(* that holds a pointer to a struct with the member, whose proto name is   *)
(* only in its protobuf tag; a well-known type such as a timestamp has a   *)
(* JSON text of its own.  A nil message is not of a well-known type, and   *)
(* fields have no explicit presence but in a oneof.                        *)
(*                                                                         *)
(* Two pointers to one cell have one type here.  No map or slice contains  *)
(* itself and no pointer leads to itself: reflection would walk such a     *)
(* value for ever.                                                         *)
(***************************************************************************)
EXTENDS Integers, Sequences
LOCAL INSTANCE SequencesExt

(* JSON values. *)

Scalar(x) == [s |-> x]
Obj(f) == [o |-> f]
Arr(q) == [a |-> q]

Null == Scalar("null")

\* The error of a function that builds a value, and the value built from parts unless
\* one of them failed.
Failed == [failed |-> TRUE]
AllOrFailed(f, whole) == IF \E x \in DOMAIN f : f[x] = Failed THEN Failed ELSE whole

(* Go values. *)

Nil == "nil"    \* the address in a nil pointer

Invalid == [kind |-> "invalid"]
Basic(x) == [kind |-> "basic", x |-> x]
\* A 64-bit integer or an enumeration, and what protojson writes instead of the number:
\* a string of digits, a name.
Numeric(x, text) == [kind |-> "numeric", x |-> x, text |-> text]
Interface(v) == [kind |-> "interface", of |-> v, message |-> FALSE]
MessageInterface(v) == [kind |-> "interface", of |-> v, message |-> TRUE]
Pointer(a) == [kind |-> "pointer", to |-> a, message |-> FALSE]
Message(a) == [kind |-> "pointer", to |-> a, message |-> TRUE]
Slice(items) == [kind |-> "slice", isNil |-> FALSE, items |-> items]
Map(keys, items) == [kind |-> "map", isNil |-> FALSE, keys |-> keys, items |-> items]
Struct(fields) == [kind |-> "struct", fields |-> fields, text |-> ""]
WellKnown(fields, text) == [Struct(fields) EXCEPT !.text = text]

NilSlice == [Slice(<<>>) EXCEPT !.isNil = TRUE]
NilMap == [Map("string", <<>>) EXCEPT !.isNil = TRUE]

StructField(name, tag, v) ==
    [name |-> name, tag |-> tag, proto |-> "", exported |-> TRUE, v |-> v]
Unexported(name, v) == [StructField(name, "", v) EXCEPT !.exported = FALSE]
ProtoField(name, tag, v) == [StructField(name, tag, v) EXCEPT !.proto = tag]
OneofMember(name, proto, v) == [StructField(name, "", v) EXCEPT !.proto = proto]

Elem(h, v) == IF v.kind = "interface" THEN v.of ELSE h[v.to]

\* reflect.Value.Interface: an interface is replaced by what it holds.
AsAny(v) == IF v.kind = "interface" THEN v.of ELSE v

isNilValue(v) ==
    \/ v.kind = "interface" /\ v.of = Invalid
    \/ v.kind = "pointer" /\ v.to = Nil
    \/ v.kind \in {"slice", "map"} /\ v.isNil

isProtoMessageValue(v) == v.kind \in {"interface", "pointer"} /\ v.message

-----------------------------------------------------------------------------
(* The view of a value with protobuf messages. *)

RECURSIVE NormalizeMessage(_, _)
RECURSIVE protoValue(_, _)
RECURSIVE normalizeProtoMessagesInReflectValue(_, _, _)
RECURSIVE containsProtoMessageValue(_, _, _)
RECURSIVE marshalFrom(_, _, _)
RECURSIVE dereferenceValue(_, _)

\* A field that protojson does not write and that omitempty leaves out.
Unset(v) ==
    \/ v.kind \in {"basic", "numeric"} /\ v.x \in {"", "0"}
    \/ v.kind = "pointer" /\ v.to = Nil
    \/ v.kind = "slice" /\ v.items = <<>>

\* The member of each oneof of a message that is set.
OneofMembers(h, fields) ==
    UNION {ToSet(h[f.v.of.to].fields) :
               f \in {f \in fields : f.exported /\ f.v.kind = "interface" /\ f.v.of # Invalid}}

\* protojson with proto names, decoded again: a nil message is written as an empty one,
\* a well-known type as its text, and the member of a oneof as a field of the message.
NormalizeMessage(h, m) ==
    IF m.to = Nil THEN Obj(<<>>)
    ELSE IF h[m.to].text # "" THEN Scalar(h[m.to].text)
    ELSE LET all == ToSet(h[m.to].fields)
             fields == {f \in all : f.proto # "" /\ ~Unset(f.v)} \cup OneofMembers(h, all)
         IN  Obj([k \in {f.proto : f \in fields} |->
                    protoValue(h, (CHOOSE f \in fields : f.proto = k).v)])

protoValue(h, v) ==
    CASE v.kind = "basic" -> Scalar(v.x)
      [] v.kind = "numeric" -> Scalar(v.text)
      [] v.kind = "slice" -> Arr([i \in DOMAIN v.items |-> protoValue(h, v.items[i])])
      [] v.kind = "pointer" -> NormalizeMessage(h, v)

\* A nil interface of a message type holds nothing that is a message: an error.
normalizeProtoMessageValue(h, v) ==
    IF AsAny(v) = Invalid THEN Failed
    ELSE IF isNilValue(v) THEN Null
    ELSE NormalizeMessage(h, AsAny(v))

\* Fault: a cycle is cut instead of refused.
normalizePointerCut(h, v, visited) ==
    IF v.to \in visited THEN Null
    ELSE normalizeProtoMessagesInReflectValue(h, h[v.to], visited \cup {v.to})

\* The pointers on the way from the root are in visited, and leave it on the way back.
normalizeProtoMessagesInPointer(h, v, visited) ==
    IF v.to \in visited THEN Failed
    ELSE normalizeProtoMessagesInReflectValue(h, h[v.to], visited \cup {v.to})

normalizeProtoMessagesInIndexed(h, v, visited) ==
    LET views == [i \in DOMAIN v.items |->
                    normalizeProtoMessagesInReflectValue(h, v.items[i], visited)]
    IN  AllOrFailed(views, Arr(views))

\* Keys that are not strings are printed.
normalizeProtoMessagesInMap(h, v, visited) ==
    LET views == [k \in DOMAIN v.items |->
                    normalizeProtoMessagesInReflectValue(h, v.items[k], visited)]
    IN  AllOrFailed(views, Obj(views))

FieldNamed(v, name) == CHOOSE f \in ToSet(v.fields) : f.name = name

normalizeProtoMessagesInStruct(h, v, visited) ==
    LET names == {f.name : f \in {f \in ToSet(v.fields) : f.exported}}
        views == [k \in names |->
                    normalizeProtoMessagesInReflectValue(h, FieldNamed(v, k).v, visited)]
    IN  AllOrFailed(views, Obj(views))

normalizeProtoMessagesInReflectValue(h, v, visited) ==
    IF isProtoMessageValue(v) THEN normalizeProtoMessageValue(h, v)
    ELSE IF v = Invalid \/ isNilValue(v) THEN Null
    ELSE CASE v.kind = "interface" -> normalizeProtoMessagesInReflectValue(h, v.of, visited)
           [] v.kind = "pointer" -> normalizeProtoMessagesInPointer(h, v, visited)
           [] v.kind = "slice" -> normalizeProtoMessagesInIndexed(h, v, visited)
           [] v.kind = "map" -> normalizeProtoMessagesInMap(h, v, visited)
           [] v.kind = "struct" -> normalizeProtoMessagesInStruct(h, v, visited)
           [] v.kind \in {"basic", "numeric"} -> Scalar(v.x)

normalizeProtoMessagesInValue(h, v) == normalizeProtoMessagesInReflectValue(h, v, {})

containsProtoMessageInPointer(h, v, visited) ==
    /\ v.to # Nil
    /\ v.to \notin visited
    /\ containsProtoMessageValue(h, h[v.to], visited \cup {v.to})

\* Keys are looked at as well; none of these can be a message.
containsProtoMessageInItems(h, v, visited) ==
    \E i \in DOMAIN v.items : containsProtoMessageValue(h, v.items[i], visited)

\* All fields, the unexported ones too.
containsProtoMessageInStruct(h, v, visited) ==
    \E i \in DOMAIN v.fields : containsProtoMessageValue(h, v.fields[i].v, visited)

containsProtoMessageValue(h, v, visited) ==
    \/ isProtoMessageValue(v)
    \/ /\ v.kind = "interface" /\ v.of # Invalid /\ containsProtoMessageValue(h, v.of, visited)
    \/ v.kind = "pointer" /\ containsProtoMessageInPointer(h, v, visited)
    \/ v.kind \in {"slice", "map"} /\ containsProtoMessageInItems(h, v, visited)
    \/ v.kind = "struct" /\ containsProtoMessageInStruct(h, v, visited)

containsProtoMessage(h, v) == containsProtoMessageValue(h, v, {})

-----------------------------------------------------------------------------
(* encoding/json, and the dump. *)

\* encoding/json takes an endless chain of pointers for a cycle and fails.
marshalFrom(h, v, visited) ==
    IF v = Invalid \/ isNilValue(v) THEN Null
    ELSE CASE v.kind = "interface" -> marshalFrom(h, v.of, visited)
           [] v.kind = "pointer" ->
                IF v.to \in visited THEN Failed ELSE marshalFrom(h, h[v.to], visited \cup {v.to})
           [] v.kind \in {"slice", "map"} ->
                LET items == [i \in DOMAIN v.items |-> marshalFrom(h, v.items[i], visited)]
                IN  AllOrFailed(items, IF v.kind = "slice" THEN Arr(items) ELSE Obj(items))
           [] v.kind = "struct" ->
                LET fields == {f \in ToSet(v.fields) :
                                 /\ f.exported /\ f.tag # "-"
                                 /\ ~(f.tag # "" /\ f.tag = f.proto /\ Unset(f.v))}
                    key(f) == IF f.tag = "" THEN f.name ELSE f.tag
                    values == [k \in {key(f) : f \in fields} |->
                                 marshalFrom(h, (CHOOSE f \in fields : key(f) = k).v, visited)]
                IN  AllOrFailed(values, Obj(values))
           [] v.kind \in {"basic", "numeric"} -> Scalar(v.x)

Marshal(h, v) == marshalFrom(h, v, {})

responseDump(h, v) ==
    IF containsProtoMessage(h, v) THEN normalizeProtoMessagesInValue(h, v) ELSE Marshal(h, v)

-----------------------------------------------------------------------------
(* What a path of a request template reads. *)

NoValue == [kind |-> "error"]
Panics == [kind |-> "panic"]

\* strconv.Atoi, for the indices that are in range somewhere.
IndexText == <<"0", "1">>
Indices(segment) == {i \in DOMAIN IndexText : IndexText[i] = segment}

dereferenceValue(h, v) ==
    IF v = Invalid THEN NoValue
    ELSE IF v.kind \notin {"interface", "pointer"} THEN v
    ELSE IF isNilValue(v) THEN NoValue
    ELSE dereferenceValue(h, Elem(h, v))


\* The first field whose name or tag is the segment.
findStructFieldByPathSegment(v, segment) ==
    LET found == {i \in DOMAIN v.fields :
                    /\ v.fields[i].exported
                    /\ \/ segment = v.fields[i].name
                       \/ segment = v.fields[i].tag /\ segment \notin {"", "-"}}
    IN  IF found = {} THEN NoValue
        ELSE AsAny(v.fields[CHOOSE i \in found : \A j \in found : i <= j].v)

\* MapIndex takes a string for a map whose keys are strings, and panics for one whose
\* keys are of another type of kind string.
resolveMapKey(v, segment) ==
    CASE v.keys = "int" -> NoValue
      [] v.keys = "named" -> Panics
      [] v.keys = "string" -> IF segment \in DOMAIN v.items THEN AsAny(v.items[segment]) ELSE NoValue

resolvePathSegment(h, v, segment) ==
    LET at == dereferenceValue(h, v)
    IN  CASE at.kind = "map" -> resolveMapKey(at, segment)
          [] at.kind = "slice" ->
                IF Indices(segment) \cap DOMAIN at.items = {} THEN NoValue
                ELSE AsAny(at.items[CHOOSE i \in Indices(segment) : TRUE])
          [] at.kind = "struct" -> findStructFieldByPathSegment(at, segment)
          [] OTHER -> NoValue

resolveTemplateReference(h, v, path) ==
    FoldLeft(LAMBDA at, segment : IF at \in {NoValue, Panics} THEN at
                                  ELSE resolvePathSegment(h, at, segment),
             v, path)
=============================================================================
