----------------------------- MODULE FrameStream -----------------------------
(***************************************************************************)
(* What a packet buffer promises to those behind it: the frames it has     *)
(* stored come out in the order they came in, word by word, each word      *)
(* once, and a frame is left only when all that is due of it is out.  The  *)
(* promise holds until sound is lost.                                      *)
(***************************************************************************)
EXTENDS Naturals, Sequences

CONSTANT NoWord   \* nothing comes out

VARIABLES
  queue,   \* the frames stored: [n, at, due], due the words still to come out
  word,    \* the word that came out last
  sound    \* the promise still holds

Init == queue = <<>> /\ word = NoWord /\ sound = TRUE

Wait == word' = NoWord

Due == queue # <<>> /\ Head(queue).due # <<>>

\* The next word of the oldest frame.
Deliver == Due /\ word' = Head(Head(queue).due)

\* rest is what was stored before, and at most one frame is new.
Grown(rest) ==
  /\ Len(queue') \in {Len(rest), Len(rest) + 1}
  /\ SubSeq(queue', 1, Len(rest)) = rest

Shorter == [queue EXCEPT ![1].due = Tail(@)]

Idle == Wait /\ Grown(queue)

Word == Deliver /\ Grown(Shorter)

\* The frame is left with its last word, or after it.
LastWord == Deliver /\ Len(Head(queue).due) = 1 /\ Grown(Tail(queue))

Leave == Wait /\ queue # <<>> /\ ~Due /\ Grown(Tail(queue))

Next ==
  \/ sound /\ sound' /\ (Idle \/ Word \/ LastWord \/ Leave)
  \/ ~sound'

Spec == Init /\ [][Next]_<<queue, word, sound>>
=============================================================================
