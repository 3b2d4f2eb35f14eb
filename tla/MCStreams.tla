----------------------------- MODULE MCStreams -----------------------------
(* Instances of Streams for TLC. *)
EXTENDS Streams
CONSTANTS r1, r2

(* Data with a break, a leading space and a trailing carriage return, under *)
(* a name with a leading space; and an event with an ID and empty data.     *)
Spaced == [comment |-> <<>>, event |-> <<"sp", "x">>, id |-> <<>>, hasData |-> TRUE,
           data |-> <<"sp", "cr", "lf", "x", "cr">>]
Marked == [comment |-> <<"x", "lf">>, event |-> DefaultEvent, id |-> <<"x">>, hasData |-> TRUE,
           data |-> <<>>]
Plain == [comment |-> <<>>, event |-> <<>>, id |-> <<>>, hasData |-> TRUE, data |-> <<"x">>]

OneStream == [arrive |-> {r1}, messages |-> {Spaced, Marked}, frames |-> 2, time |-> 0,
              closes |-> FALSE, cuts |-> TRUE]
Takeover == [arrive |-> {r1, r2}, messages |-> {Plain}, frames |-> 1, time |-> 0,
             closes |-> FALSE, cuts |-> FALSE]
Shutdown == [Takeover EXCEPT !.frames = 0, !.closes = TRUE]
Flush == [Takeover EXCEPT !.arrive = {r2}, !.closes = TRUE]
Silence == [Takeover EXCEPT !.arrive = {r1}, !.frames = 2, !.time = 2]
Reconnect == [Silence EXCEPT !.arrive = {r1, r2}, !.frames = 0]
Everything == {OneStream, Takeover, Shutdown, Flush, Silence, Reconnect}
=============================================================================
