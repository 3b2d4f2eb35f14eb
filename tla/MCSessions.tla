---------------------------- MODULE MCSessions ----------------------------
(* Instances of Sessions for TLC. *)
EXTENDS Sessions
CONSTANTS i1, i2, a, b, x, y

Broadcast(name, id) == [NoEvent EXCEPT !.name = name, !.id = id]
AllKinds == {"register", "replace", "only", "unregister", "subscribe", "unsubscribe"}

Retain == [members |-> {i1}, events |-> {Broadcast(a, x), Broadcast(a, y)}, published |-> 3,
           kinds |-> {"unregister"}, calls |-> 1, time |-> 3]
Recipients == [members |-> Ids, events |-> {[Broadcast(a, x) EXCEPT !.exclude = {i1}],
                                          [Broadcast(a, x) EXCEPT !.exclude = {i1}, !.direct = <<i1, i2, i1>>]},
               published |-> 1, kinds |-> AllKinds, calls |-> 1, time |-> 0]
Rearrange == [members |-> {i1}, events |-> {Broadcast(a, x)}, published |-> 1,
              kinds |-> AllKinds, calls |-> 2, time |-> 0]
Everything == {Retain, Recipients, Rearrange}
=============================================================================
