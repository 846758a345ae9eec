----------------------------- MODULE Scoreboard -----------------------------
(***************************************************************************)
(* What the substrate promises about each forecast: it may be closed once, *)
(* provisionally, and it is settled at most once; a settled outcome stays. *)
(***************************************************************************)
CONSTANTS
    Forecast,
    Provisional(_),     \* the outcomes that close a forecast without a verdict
    Settled(_),         \* the outcomes that settle it
    Nothing             \* no outcome yet

VARIABLE board          \* the outcome of every forecast

Init == board = [f \in Forecast |-> Nothing]

\* The horizon has passed and nothing is known.
Close(f) ==
    /\ board[f] = Nothing
    /\ \E o \in Provisional(f) : board' = [board EXCEPT ![f] = o]

\* A verdict, which may come after a provisional closure but never twice.
Settle(f) ==
    /\ board[f] \notin Settled(f)
    /\ \E o \in Settled(f) : board' = [board EXCEPT ![f] = o]

Next == \E f \in Forecast : Close(f) \/ Settle(f)

Spec == Init /\ [][Next]_board
=============================================================================
