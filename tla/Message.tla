------------------------------- MODULE Message -------------------------------
(***************************************************************************)
(* Requests and responses exchanged with Waterproof (waterproof/message.h  *)
(* and message.cpp), and the ordering that decides which queued response   *)
(* the server sends first.                                                 *)
(***************************************************************************)
EXTENDS Integers

Verb == {"create", "destroy", "forward", "stop"}

Status == {"failure", "success"}

\* The fields of a response that decide its order and its destination.  The
\* content is abstracted; it plays no role in either.
Response == [id : Nat, priority : Int, status : Status, verb : Verb, instance : Nat]

\* std::tie(a[1], a[2]) < std::tie(b[1], b[2]).
TieLess(a, b) == a[1] < b[1] \/ (a[1] = b[1] /\ a[2] < b[2])

\* Mutant of Less: the ids are not swapped.
LessUnswapped(r, s) == TieLess(<<r.priority, r.id>>, <<s.priority, s.id>>)

\* response::operator<.  The ids are swapped, so that a lower id is "larger".
Less(r, s) == TieLess(<<r.priority, s.id>>, <<s.priority, r.id>>)

\* response::operator>.
Greater(r, s) == Less(s, r)

\* r may be at the top of a std::priority_queue<response> that holds Q.
IsTop(r, Q) == r \in Q /\ \A s \in Q : ~Less(r, s)
=============================================================================
