-------------------------------- MODULE Turn --------------------------------
(***************************************************************************)
(* What a session promises about a turn, to the people who use Loop from   *)
(* outside (cmd/affentserve, cmd/affentctl): the contract that module      *)
(* AgentLoop is shown to implement.  One turn at a time; while it is open  *)
(* it asks the model and runs tools, at most ToolLimit of them; once it is *)
(* cancelled it starts neither; turn.end is published with no request in   *)
(* flight and before the next turn is accepted.  (That every turn gets     *)
(* there is TurnEnds of AgentLoop.)                                        *)
(***************************************************************************)
EXTENDS Integers

CONSTANT ToolLimit      \* maxToolCallsForTurn

VARIABLES
    turn,     \* idle -> running -> (cancelled ->) ended -> idle
    calling,  \* is a request to the model in flight
    ran       \* tool calls the turn has executed or refused

tvars == <<turn, calling, ran>>

TInit == turn = "idle" /\ calling = FALSE /\ ran = 0

Open == turn \in {"running", "cancelled"}

\* SendUserWithOptions registers the turn in l.current.
Accept ==
    /\ turn = "idle"
    /\ turn' = "running"
    /\ UNCHANGED <<calling, ran>>

\* A request to the model begins...
Ask ==
    /\ turn = "running" /\ ~calling
    /\ calling' = TRUE
    /\ UNCHANGED <<turn, ran>>

\* ...and returns, with a reply or an error.
Answer ==
    /\ Open /\ calling
    /\ calling' = FALSE
    /\ UNCHANGED <<turn, ran>>

RunTool ==
    /\ turn = "running" /\ ~calling
    /\ ran < ToolLimit
    /\ ran' = ran + 1
    /\ UNCHANGED <<turn, calling>>

CancelTurn ==
    /\ turn = "running"
    /\ turn' = "cancelled"
    /\ UNCHANGED <<calling, ran>>

\* turn.end is published.
Finish ==
    /\ Open /\ ~calling
    /\ turn' = "ended"
    /\ UNCHANGED <<calling, ran>>

\* takeTurn: l.current is free again.
Take ==
    /\ turn = "ended"
    /\ turn' = "idle"
    /\ ran' = 0
    /\ UNCHANGED calling

\* The process dies with the turn.
Die ==
    /\ turn # "idle"
    /\ turn' = "idle" /\ calling' = FALSE /\ ran' = 0

TNext ==
    \/ Accept \/ Ask \/ Answer \/ RunTool \/ CancelTurn \/ Finish \/ Take \/ Die

TurnSpec == TInit /\ [][TNext]_tvars
=============================================================================
