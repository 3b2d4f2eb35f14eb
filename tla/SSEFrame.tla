------------------------------ MODULE SSEFrame ------------------------------
(***************************************************************************)
(* The text of an event stream (httpadapter/http.go, Send): how a message  *)
(* becomes the lines of a frame, and, as the other side of the contract,   *)
(* what an EventSource makes of the lines it reads.  A text is a sequence  *)
(* of character classes: carriage return, line feed, space, and others.    *)
(***************************************************************************)
EXTENDS Integers, Sequences

(* A sequence folded from the left. *)
Fold(op(_, _), base, seq) ==
  LET out[k \in 0..Len(seq)] == IF k = 0 THEN base ELSE op(out[k - 1], seq[k])
  IN  out[Len(seq)]

Char == {"cr", "lf", "sp", "x"}
Text == Seq(Char)

DefaultEvent == <<"x", "x">>   \* "message"

(* Line breaks of every kind become one line feed.  A carriage return right *)
(* before a line feed is part of the same break.                            *)
Unify(text) ==
  LET inBreak(k) == text[k] = "cr" /\ k < Len(text) /\ text[k + 1] = "lf"
      take(out, k) == IF inBreak(k) THEN out
                      ELSE Append(out, IF text[k] = "cr" THEN "lf" ELSE text[k])
  IN  Fold(take, <<>>, [k \in DOMAIN text |-> k])

SplitAtLineFeeds(text) ==
  LET take(lines, c) == IF c = "lf" THEN Append(lines, <<>>)
                        ELSE [lines EXCEPT ![Len(lines)] = Append(@, c)]
  IN  Fold(take, <<<<>>>>, text)
SplitLines(text) == SplitAtLineFeeds(Unify(text))

StartsWithSpace(text) == text # <<>> /\ text[1] = "sp"

Line(field, text) == [field |-> field, text |-> text]
Blank == Line("blank", <<>>)

WriteFieldPlain(field, text) == Line(field, text)
WriteField(field, text) ==
  Line(field, IF StartsWithSpace(text) THEN <<"sp">> \o text ELSE text)

(* What Send refuses. *)
Valid(m) ==
  /\ \A k \in DOMAIN m.event : m.event[k] \notin {"cr", "lf"}
  /\ \A k \in DOMAIN m.id : m.id[k] \notin {"cr", "lf"}

(* Send: the lines of a message; the retry field is left out. *)
Frame(m) ==
  LET comments == SplitLines(m.comment)
      data == SplitLines(m.data)
      Optional(present, lines) == IF present THEN lines ELSE <<>>
  IN
  Optional(m.comment # <<>>, [k \in DOMAIN comments |-> Line("comment", comments[k])])
    \o Optional(m.event \notin {<<>>, DefaultEvent}, <<WriteField("event", m.event)>>)
    \o Optional(m.id # <<>>, <<WriteField("id", m.id)>>)
    \o Optional(m.hasData, [k \in DOMAIN data |-> WriteField("data", data[k])])
    \o <<Blank>>

(* openStream: an empty comment. *)
Opening == <<Line("comment", <<>>), Blank>>

(* The remains of a line that was not written to its end. *)
Cut == Line("cut", <<>>)

-----------------------------------------------------------------------------
(* The EventSource: one leading space of a value is dropped, data lines are *)
(* joined, and a blank line dispatches the event if it has data.  A line    *)
(* written after a cut continues the one that was cut, and is lost.         *)
Value(line) == IF StartsWithSpace(line.text) THEN Tail(line.text) ELSE line.text

Reader == [event |-> <<>>, data |-> <<>>, id |-> <<>>, dispatched |-> <<>>, cut |-> FALSE]

Dispatch(r) ==
  [r EXCEPT !.event = <<>>, !.data = <<>>,
            !.dispatched =
               IF r.data = <<>> THEN @
               ELSE Append(@, [event |-> IF r.event = <<>> THEN DefaultEvent ELSE r.event,
                               data |-> SubSeq(r.data, 1, Len(r.data) - 1),
                               id |-> r.id])]

ReadLine(r, line) ==
  IF r.cut THEN [r EXCEPT !.cut = FALSE] ELSE
  CASE line.field = "cut" -> [r EXCEPT !.cut = TRUE]
    [] line.field = "event" -> [r EXCEPT !.event = Value(line)]
    [] line.field = "data" -> [r EXCEPT !.data = @ \o Value(line) \o <<"lf">>]
    [] line.field = "id" -> [r EXCEPT !.id = Value(line)]
    [] line.field = "blank" -> Dispatch(r)
    [] OTHER -> r

Dispatched(lines) == Fold(ReadLine, Reader, lines).dispatched

(* The events a reader should see of messages that were written: those with *)
(* data, under their name, with the latest ID that came along.              *)
Expected(messages) ==
  LET see(r, m) ==
        LET id == IF m.id = <<>> THEN r.id ELSE m.id
            name == IF m.event = <<>> THEN DefaultEvent ELSE m.event
        IN  [id |-> id,
             events |-> IF m.hasData
                        THEN Append(r.events, [event |-> name, data |-> Unify(m.data), id |-> id])
                        ELSE r.events]
  IN  Fold(see, [id |-> <<>>, events |-> <<>>], messages).events
=============================================================================
