----------------------- MODULE NumberedPipesRefinement -----------------------
(***************************************************************************)
(* NumberedPipes implements CommandFlow.  The connections of the abstract  *)
(* specification are recomputed in every state from what the shell and the *)
(* kernel hold (which pipe each command writes, which pipe each entry of   *)
(* fd_table leads to), not from the number the user typed.                 *)
(***************************************************************************)
EXTENDS NumberedPipes

Started(c) == st[c] \in {"running", "zombie", "reaped"}

Writers == {c \in Cmds : Started(c) /\ out[c] # NoPipe}

Connections ==
    {e \in Writers \X (1 .. (MaxCmds + PipeNumMax)) : InPipe(e[2]) = out[e[1]]}

Life == [c \in Cmds |-> IF st[c] \in {"zombie", "reaped"} THEN "ended" ELSE st[c]]

Written == [c \in Cmds |-> IF Started(c) THEN Work - todo[c] ELSE 0]

Flow == INSTANCE CommandFlow WITH
    next <- pos,
    over <- mode = "exited",
    foreground <- fg,
    life <- Life,
    feeds <- Connections,
    written <- Written,
    complete <- {c \in Cmds : eof[c]}

\* Every step of the shell, of the kernel's pipes and of the commands is a
\* step of CommandFlow or leaves it alone: the table of descriptors, their
\* reuse and the pipes behave as the numbered connections the user asked for.
ImplementsFlow == Flow!FlowSpec
=============================================================================
