----------------------------- MODULE JsonText ------------------------------
(***************************************************************************)
(* The two writers of JSON: JSONWriter (src/json_utils.h), which reports   *)
(* and CPU profiles use, and TracedValue (src/tracing/traced_value.cc).    *)
(* Each decides from one remembered bit whether a comma is due.  A token   *)
(* is a comma, the end of a container, or a value or the beginning of a    *)
(* container together with the name and the colon written before it.       *)
(***************************************************************************)
EXTENDS Naturals, Sequences, SequencesExt, FiniteSets

NoName == ""
Tok(t, name) == [t |-> t, name |-> name]

\* What JSON is: an automaton with a stack of the containers begun and the
\* names used in them.  Written text is kept as the state of the automaton
\* that has read it.
Automaton == [stack |-> << >>, sep |-> "first", ok |-> TRUE]
Top(a) == a.stack[Len(a.stack)]
Matches(kind, t) == <<kind, t>> \in {<<"{", "}">>, <<"[", "]">>}

ItemFits(a, name) ==
  /\ a.sep \in {"first", "comma"}
  /\ IF a.stack = << >> \/ Top(a).kind = "[" THEN name = NoName
     ELSE name # NoName /\ name \notin Top(a).names
Named(a, name) ==
  IF name = NoName THEN a.stack
  ELSE [a.stack EXCEPT ![Len(a.stack)].names = @ \cup {name}]

Fits(a, tok) ==
  CASE tok.t = "," -> a.stack # << >> /\ a.sep = "after"
    [] tok.t \in {"}", "]"} ->
         a.stack # << >> /\ a.sep # "comma" /\ Matches(Top(a).kind, tok.t)
    [] tok.t \in {"{", "[", "value"} -> ItemFits(a, tok.name)

Consume(a, tok) ==
  IF ~a.ok \/ ~Fits(a, tok) THEN [a EXCEPT !.ok = FALSE]
  ELSE CASE tok.t = "," -> [a EXCEPT !.sep = "comma"]
         [] tok.t = "value" -> [a EXCEPT !.sep = "after", !.stack = Named(a, tok.name)]
         [] tok.t \in {"{", "["} ->
              [a EXCEPT !.sep = "first",
                        !.stack = Append(Named(a, tok.name), [kind |-> tok.t, names |-> {}])]
         [] tok.t \in {"}", "]"} -> [a EXCEPT !.sep = "after", !.stack = Front(@)]

WellFormed(a) == a.ok /\ a.stack = << >> /\ a.sep = "after"

-----------------------------------------------------------------------------
\* JSONWriter: out_, indent_ and state_.  White space is left out, but the
\* indentation decides where the top-level line ends.
NewWriter == [out |-> Automaton, indent |-> 0, after |-> FALSE, lines |-> 0]

Comma == Tok(",", NoName)
Emit(w, tok, after, indent) ==
  [w EXCEPT !.out = Consume(IF w.after THEN Consume(@, Comma) ELSE @, tok),
            !.after = after, !.indent = @ + indent]
Close(w, tok) ==
  [w EXCEPT !.out = Consume(@, tok), !.after = TRUE, !.indent = @ - 2]

json_start(w) == Emit(w, Tok("{", NoName), FALSE, 2)
json_end(w) == Close(w, Tok("}", NoName))
json_objectstart(w, k) == Emit(w, Tok("{", k), FALSE, 2)
json_arraystart(w, k) == Emit(w, Tok("[", k), FALSE, 2)
json_objectend(w) ==
  LET c == Close(w, Tok("}", NoName))
  IN  IF c.indent = 0 THEN [c EXCEPT !.lines = @ + 1] ELSE c
\* Mutant: the next element forgets its comma.
json_arrayendBare(w) == [Close(w, Tok("]", NoName)) EXCEPT !.after = FALSE]
json_arrayend(w) == Close(w, Tok("]", NoName))
json_keyvalue(w, k) == Emit(w, Tok("value", k), TRUE, 0)
json_element(w) == Emit(w, Tok("value", NoName), TRUE, 0)

-----------------------------------------------------------------------------
\* TracedValue: data_ and first_item_; the braces of the root are added when
\* the value is appended to the trace.
NewTraced(array) ==
  [data |-> Consume(Automaton, Tok(IF array THEN "[" ELSE "{", NoName)),
   first |-> TRUE, array |-> array]

WriteComma(v) ==
  IF v.first THEN [v EXCEPT !.first = FALSE]
             ELSE [v EXCEPT !.data = Consume(@, Comma)]
Add(v, tok) == [v EXCEPT !.data = Consume(@, tok)]

\* WriteName and what follows it.
SetScalar(v, k) == Add(WriteComma(v), Tok("value", k))
BeginNamed(v, k, t) == [Add(WriteComma(v), Tok(t, k)) EXCEPT !.first = TRUE]
AppendScalar(v) == Add(WriteComma(v), Tok("value", NoName))
BeginItem(v, t) == [Add(WriteComma(v), Tok(t, NoName)) EXCEPT !.first = TRUE]
EndTraced(v, t) == [Add(v, Tok(t, NoName)) EXCEPT !.first = FALSE]

AppendAsTraceFormat(v) == Consume(v.data, Tok(IF v.array THEN "]" ELSE "}", NoName))
=============================================================================
