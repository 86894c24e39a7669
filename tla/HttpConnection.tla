--------------------------- MODULE HttpConnection ---------------------------
(***************************************************************************)
(* What the server promises a client of one connection, whatever thread,   *)
(* timer or buffer is involved: the n-th answer on the connection is the   *)
(* answer to the n-th request the client sent; the server may also give up *)
(* with an unsolicited 400, which like any other closing answer is the     *)
(* last thing the client hears.                                            *)
(***************************************************************************)
EXTENDS Http, Naturals, Sequences

CONSTANTS Sessions, MaxItems

VARIABLES sent, outbox, over

vars == <<sent, outbox, over>>

Init ==
  /\ sent   = [s \in Sessions |-> <<>>]
  /\ outbox = [s \in Sessions |-> <<>>]
  /\ over   = [s \in Sessions |-> FALSE]

\* The last answer told the client that the connection ends.
SaidClose(s) == outbox[s] # <<>> /\ Closes(outbox[s][Len(outbox[s])])

Send(s, i) ==
  /\ ~over[s]
  /\ Len(sent[s]) < MaxItems
  /\ sent' = [sent EXCEPT ![s] = Append(@, i)]
  /\ UNCHANGED <<outbox, over>>

Respond(s, res) ==
  /\ ~over[s]
  /\ ~SaidClose(s)
  /\ outbox' = [outbox EXCEPT ![s] = Append(@, res)]
  /\ UNCHANGED <<sent, over>>

Reply(s) ==
  /\ Len(outbox[s]) < Len(sent[s])
  /\ Respond(s, Answer(sent[s][Len(outbox[s]) + 1]))

GiveUp(s) == Respond(s, BadRequest)

End(s) ==
  /\ ~over[s]
  /\ over' = [over EXCEPT ![s] = TRUE]
  /\ UNCHANGED <<sent, outbox>>

Next ==
  \E s \in Sessions :
    \/ \E i \in Items : Send(s, i)
    \/ Reply(s)
    \/ GiveUp(s)
    \/ End(s)

Spec == Init /\ [][Next]_vars
=============================================================================
