---------------------------- MODULE JsonWriter -----------------------------
(***************************************************************************)
(* Any sequence of legal calls on a JSONWriter or a TracedValue.           *)
(***************************************************************************)
EXTENDS JsonText

CONSTANTS
  Keys,      \* member names
  MaxWrites  \* how many calls are made on one writer

VARIABLES
  which,     \* the writer in use, "json" or "traced"
  writer,    \* the JSONWriter
  traced,    \* the TracedValue
  open,      \* the containers its user has begun: kind and names given
  writes     \* calls made

jsonVars == <<which, writer, traced, open, writes>>

-----------------------------------------------------------------------------
Container(kind) == [kind |-> kind, names |-> {}]
JsonInit ==
  /\ which \in {"json", "traced"}
  /\ writer = IF which = "json" THEN json_start(NewWriter) ELSE NewWriter
  /\ \E array \in (IF which = "json" THEN {FALSE} ELSE BOOLEAN) :
       /\ traced = NewTraced(array)
       /\ open = <<Container(IF array THEN "[" ELSE "{")>>
  /\ writes = 0

\* One legal call: a member with a new name inside an object, an item inside
\* an array, or the end of the innermost container.
Call(jw, jt) == /\ writes < MaxWrites /\ writes' = writes + 1
                /\ writer' = IF which = "json" THEN jw ELSE writer
                /\ traced' = IF which = "traced" THEN jt ELSE traced
                /\ UNCHANGED which
Innermost == open[Len(open)]
WithName(k) == [open EXCEPT ![Len(open)].names = @ \cup {k}]

InObject(k) == open # << >> /\ Innermost.kind = "{" /\ k \notin Innermost.names
InArray == open # << >> /\ Innermost.kind = "["

Member(k) == /\ InObject(k)
             /\ Call(json_keyvalue(writer, k), SetScalar(traced, k))
             /\ open' = WithName(k)
MemberContainer(k, kind) ==
  /\ InObject(k)
  /\ Call(IF kind = "{" THEN json_objectstart(writer, k) ELSE json_arraystart(writer, k),
          BeginNamed(traced, k, kind))
  /\ open' = Append(WithName(k), Container(kind))
Item == InArray /\ Call(json_element(writer), AppendScalar(traced)) /\ UNCHANGED open
ItemContainer(kind) ==
  /\ InArray /\ (which = "json" => kind = "{")
  /\ Call(json_start(writer), BeginItem(traced, kind))
  /\ open' = Append(open, Container(kind))
End ==
  /\ Len(open) > (IF which = "json" THEN 0 ELSE 1)
  /\ LET kind == Innermost.kind IN
     Call(IF kind = "{" THEN json_objectend(writer) ELSE json_arrayend(writer),
          EndTraced(traced, IF kind = "{" THEN "}" ELSE "]"))
  /\ open' = Front(open)

JsonNext == \/ \E k \in Keys : Member(k) \/ (\E kind \in {"{", "["} : MemberContainer(k, kind))
            \/ Item \/ (\E kind \in {"{", "["} : ItemContainer(kind)) \/ End
JsonSpec == JsonInit /\ [][JsonNext]_jsonVars

-----------------------------------------------------------------------------
JsonTypeOK == /\ which \in {"json", "traced"} /\ writes \in 0..MaxWrites
              /\ writer.indent \in Nat /\ writer.after \in BOOLEAN /\ traced.first \in BOOLEAN

\* Whatever legal calls a user makes, in whatever nesting, both writers' text
\* is JSON when the user is done, and never goes wrong before: the single bit
\* kept between calls (state_ of JSONWriter, first_item_ of TracedValue) is
\* enough to place every comma, also after a container that stayed empty.
WritersWellFormed ==
  IF which = "json"
  THEN /\ writer.out.ok
       /\ open = << >> => WellFormed(writer.out) /\ writer.indent = 0 /\ writer.lines = 1
  ELSE Len(open) = 1 => WellFormed(AppendAsTraceFormat(traced))
=============================================================================
