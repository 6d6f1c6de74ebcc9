---------------------------- MODULE CursorSpec ----------------------------
(***************************************************************************)
(* What a Result Cursor promises its consumers (spec section 4.6), without *)
(* pages, page numbers or totals: the cursor is Open until closed; each    *)
(* consumer of its lazy sequence takes the records of the result set one   *)
(* at a time, in order and each once, and may stop at any point; a         *)
(* consumer that stops leaves the cursor Closed; and a consumer that has   *)
(* begun pulling does not stall: it goes on taking records or ends.        *)
(*                                                                         *)
(* ResultCursor, the model of StaxResultSet and its generator, implements  *)
(* this specification under the mapping in ResultCursor (Abstract).        *)
(***************************************************************************)
EXTENDS Naturals, Sequences

CONSTANTS
    Consumers,  \* the lazy sequences (generator objects) over the cursor
    Results     \* the record sequences a result set may hold

VARIABLES
    records,    \* the result set, fixed when the cursor is created
    open,       \* TRUE while the cursor is Open
    status,     \* status[c]: "idle" (not pulled yet), "active", "ended"
    consumed    \* consumed[c]: the records consumer c has taken

avars == <<records, open, status, consumed>>

Init ==
    /\ records \in Results
    /\ open = TRUE
    /\ status = [c \in Consumers |-> "idle"]
    /\ consumed = [c \in Consumers |-> <<>>]

\* Consumer c takes the next record of the result set it has not taken.
Take(c) ==
    /\ status[c] \in {"idle", "active"}
    /\ Len(consumed[c]) < Len(records)
    /\ consumed' = [consumed EXCEPT ![c] = Append(@, records[Len(@) + 1])]
    /\ status' = [status EXCEPT ![c] = "active"]
    /\ UNCHANGED <<records, open>>

\* Consumer c's sequence ends (exhausted, stopped early, or failed); the
\* cursor is closed on the way out.
End(c) ==
    /\ status[c] \in {"idle", "active"}
    /\ status' = [status EXCEPT ![c] = "ended"]
    /\ open' = FALSE
    /\ UNCHANGED <<records, consumed>>

\* The owner closes the cursor.
Close ==
    /\ open' = FALSE
    /\ UNCHANGED <<records, status, consumed>>

Next == Close \/ \E c \in Consumers : Take(c) \/ End(c)

\* A consumer that has begun pulling is pulled until it ends.
Pull(c) == status[c] = "active" /\ (Take(c) \/ End(c))

Fairness == \A c \in Consumers : WF_avars(Pull(c))

Spec == Init /\ [][Next]_avars /\ Fairness
===========================================================================
