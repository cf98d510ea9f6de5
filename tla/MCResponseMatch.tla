--------------------------- MODULE MCResponseMatch ---------------------------
(* Templates and answers of depth two: scalars, null and one number written in two
   ways among them, objects of up to two fields and arrays of up to two items, every
   matcher with a valid and with an invalid argument, an object that only looks like
   a matcher, and an answer that has a matcher's key.  The fields are those of an
   HTTP response. *)
EXTENDS ResponseMatch

Leaves == {Null} \cup {Scalar(x) : x \in Strings \cup {"true"} \cup DOMAIN FloatText}

MCKeys == {"status", "body"}
MCNewValues == {Scalar("true"), Scalar("noon")}

Objects(values) == {Obj(f) : f \in UNION {[d -> values] : d \in SUBSET MCKeys}}
Arrays(values) == {Arr(q) : q \in {<<>>} \cup {<<x>> : x \in values} \cup (values \X values)}

Flat == Leaves \cup Objects(MCNewValues) \cup Arrays(MCNewValues)

Matchers == {Obj([k \in {key} |-> arg]) : key \in MatcherKeys, arg \in MCNewValues}

LooksLikeMatcher == Obj([k \in {"$present", "body"} |-> Scalar("true")])

Status(v) == Obj([k \in {"status"} |-> v])

\* A value on its own, in a field and in an item, alone or beside another one.
Around(values) ==
    values
    \cup {Obj([k \in {"body"} |-> v]) : v \in values}
    \cup {Obj([k \in MCKeys |-> IF k = "body" THEN v ELSE Scalar("200")]) : v \in values}
    \cup {Arr(<<v>>) : v \in values}
    \cup {Arr(<<Scalar("true"), v>>) : v \in values}

MCTemplates ==
    Around(Flat \cup Matchers \cup {LooksLikeMatcher})
    \cup {Status(v) : v \in Leaves \cup Matchers}

MCAnswers ==
    {Status(Scalar("200"))} \cup Around(Flat \cup {Obj([k \in {"$present"} |-> Scalar("true")]), LooksLikeMatcher})

\* Go values: cells a and b with any kind of value, m a message that has every kind of
\* field, with a timestamp t and the member w of a oneof.  Each is a struct with
\* an exported and an unexported field, one with a tag that is the name of another
\* field, a slice, a map of each key type, or an interface around a slice.
Elements == {Basic("noon"), Numeric("200", "OK"), Pointer(Nil), Pointer("a"), Pointer("b"),
             Interface(Invalid), Interface(Pointer("a")),
             Message(Nil), Message("m"), Message("t"), MessageInterface(Invalid),
             MessageInterface(Message(Nil)), MessageInterface(Message("m"))}

Hidden == {Basic("dusk"), Pointer("a"), Message("m")}

CellsOver(values) ==
    {Struct(<<Unexported("u", w), StructField("E", "e", x)>>) : w \in Hidden, x \in values}
    \cup {Struct(<<StructField("A", "B", x), StructField("B", "-", Basic("dusk"))>>) : x \in values}
    \cup {Slice(<<x>>) : x \in values} \cup {Slice(<<Basic("dusk"), x>>) : x \in values}
    \cup {Map(keys, [k \in {"k"} |-> x]) : keys \in {"string", "named"}, x \in values}
    \cup {Map("int", [k \in {"1"} |-> x]) : x \in values}
    \cup {Interface(Slice(<<x>>)) : x \in values}
    \cup {NilSlice, NilMap}

MessageCell ==
    Struct(<<Unexported("state", Basic("")), ProtoField("Id", "id", Basic("noon")),
             ProtoField("Code", "code", Numeric("200", "OK")),
             ProtoField("Count", "count", Numeric("0", "NONE")), ProtoField("Note", "note", Basic("")),
             ProtoField("At", "at", Message("t")), ProtoField("Next", "next", Message(Nil)),
             ProtoField("Codes", "codes", Slice(<<Numeric("200", "OK"), Numeric("0", "NONE")>>)),
             StructField("Kind", "", Interface(Pointer("w"))), StructField("Other", "", Interface(Invalid))>>)

TimestampCell ==
    WellKnown(<<Unexported("state", Basic("")), ProtoField("Seconds", "seconds", Numeric("200", "OK"))>>,
              "dusk")

OneofCell == Struct(<<OneofMember("Text", "text", Basic(""))>>)

\* What lies behind a second pointer: the way back, a message in sight or hidden, a nil
\* one, or no pointer at all.
OtherCells ==
    {Struct(<<Unexported("u", Basic("dusk")), StructField("E", "e", Pointer("a"))>>),
     Struct(<<Unexported("u", Message("m")), StructField("E", "e", Basic("noon"))>>),
     Map("string", [k \in {"k"} |-> MessageInterface(Message("m"))]),
     Slice(<<MessageInterface(Invalid)>>), Interface(Slice(<<Basic("noon")>>)), NilMap}

MCResponses ==
    {[heap |-> [c \in {"a", "b", "m", "t", "w"} |->
                   CASE c = "a" -> x [] c = "b" -> y [] c = "m" -> MessageCell
                     [] c = "t" -> TimestampCell [] c = "w" -> OneofCell],
      root |-> root] :
        x \in CellsOver(Elements),
        y \in OtherCells,
        root \in {Pointer("a"), Message("m"), Slice(<<Pointer("a"), Pointer("b")>>)}}
=============================================================================
