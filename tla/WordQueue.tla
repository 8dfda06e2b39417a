----------------------------- MODULE WordQueue -----------------------------
(***************************************************************************)
(* What the output buffer of the random generator promises to the readers  *)
(* of random words: the keystream blocks it accepted are kept in order,    *)
(* each block is cut into WORDS words, the words are offered one at a      *)
(* time, and a word is withdrawn only when it is taken or when everything  *)
(* is discarded.  TrngCsprngFifo is the hardware that is to implement it.  *)
(***************************************************************************)
EXTENDS Naturals, Sequences

CONSTANTS
    Depth,      \* blocks the queue can hold
    WORDS,      \* words per block
    Blocks,     \* possible contents of a block
    NoWord      \* nothing is offered

VARIABLES
    queue,      \* the blocks that still have words to give, oldest first
    taken,      \* how many words of the oldest block are gone
    offer       \* the word on offer, <<block, index>>, or NoWord

vars == <<queue, taken, offer>>

Init == /\ queue = <<>>
        /\ taken = 0
        /\ offer = NoWord

\* The blocks that a step may add: none or one.
Arrivals == {<<>>} \cup {<<b>> : b \in Blocks}

Wait(arrived) == /\ queue' = queue \o arrived
                 /\ UNCHANGED <<taken, offer>>

Offer(arrived) == /\ offer = NoWord
                  /\ queue # <<>>
                  /\ offer' = <<Head(queue), taken>>
                  /\ queue' = queue \o arrived
                  /\ UNCHANGED taken

Take(arrived) == /\ offer # NoWord
                 /\ offer' = NoWord
                 /\ IF taken = WORDS - 1
                      THEN /\ taken' = 0
                           /\ queue' = Tail(queue) \o arrived
                      ELSE /\ taken' = taken + 1
                           /\ queue' = queue \o arrived

\* The blocks go; the place reached inside a block stays (the word selector
\* of the hardware is not part of what a discard clears).
Discard == /\ queue' = <<>>
           /\ offer' = NoWord
           /\ UNCHANGED taken

\* Storing and serving happen in the same clock cycle, so one step does both.
Next == \/ \E arrived \in Arrivals :
             /\ Wait(arrived) \/ Offer(arrived) \/ Take(arrived)
             /\ Len(queue') <= Depth
        \/ Discard

Spec == Init /\ [][Next]_vars
=============================================================================
