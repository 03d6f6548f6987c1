---------------------------- MODULE SertopStream ----------------------------
(***************************************************************************)
(* What the read side of a worker promises (worker.h:103-110): every       *)
(* message that sertop has terminated is handed to the conductor, whole,   *)
(* once and in order, however the stream is cut into reads.                *)
(***************************************************************************)
EXTENDS SequencesExt, FiniteSetsExt

CONSTANTS
  Chars,        \* characters other than the null-terminator
  NUL,          \* the null-terminator
  MaxStream     \* bound on the characters sertop prints

VARIABLES
  sent,         \* everything sertop has printed
  delivered     \* the messages handed to on_response

\* Positions of the terminators, and of the k-th terminator.
Ends(s) == {p \in DOMAIN s : s[p] = NUL}
End(s, k) == CHOOSE p \in Ends(s) : Cardinality({q \in Ends(s) : q <= p}) = k

\* The terminated messages of a stream.
Messages(s) ==
  [k \in 1 .. Cardinality(Ends(s)) |->
     SubSeq(s, IF k = 1 THEN 1 ELSE End(s, k - 1) + 1, End(s, k) - 1)]

Init == sent = <<>> /\ delivered = <<>>

Emit(c) ==
  /\ Len(sent) < MaxStream
  /\ sent' = Append(sent, c)
  /\ UNCHANGED delivered

\* Any number of messages may be handed over at once.
Deliver ==
  /\ \E n \in Len(delivered) + 1 .. Len(Messages(sent)) :
       delivered' = SubSeq(Messages(sent), 1, n)
  /\ UNCHANGED sent

Next == (\E c \in Chars \union {NUL} : Emit(c)) \/ Deliver

Spec == Init /\ [][Next]_<<sent, delivered>>

AllDelivered == delivered = Messages(sent)
=============================================================================
