----------------------------- MODULE CommandFlow -----------------------------
(***************************************************************************)
(* What the user of npshell is promised, with no pipe, descriptor or table *)
(* in sight: commands are numbered as they are typed, |n connects command  *)
(* c to command c + n and to no other, what a command reads was written by *)
(* the commands connected to it, it sees the end of its input only when    *)
(* all of them have ended and all they wrote has arrived, and the shell    *)
(* starts nothing while a foreground command runs.                         *)
(***************************************************************************)
EXTENDS Naturals

CONSTANTS
    Offsets,   \* the n of |n
    MaxCmds,   \* bound: commands in a session
    Work       \* bound: units each command writes

Cmds == 1 .. MaxCmds

VARIABLES
    next,        \* number of the next command
    over,        \* the shell has gone
    foreground,  \* the command the shell waits for, or 0
    life,        \* "unborn", "running", "ended" or "builtin"
    feeds,       \* the connections <<from, to>>
    written,     \* units each command has written
    got,         \* got[c][d]: units of d that c has read
    complete     \* the commands that have seen the end of their input

flowVars == <<next, over, foreground, life, written, got, complete, feeds>>

Init ==
    /\ next = 1 /\ over = FALSE /\ foreground = 0
    /\ life = [c \in Cmds |-> "unborn"]
    /\ feeds = {}
    /\ written = [c \in Cmds |-> 0]
    /\ got = [c \in Cmds |-> [d \in Cmds |-> 0]]
    /\ complete = {}

Take(how) ==
    /\ ~ over /\ foreground = 0 /\ next \in Cmds
    /\ next' = next + 1
    /\ life' = [life EXCEPT ![next] = how]
    /\ UNCHANGED <<over, written, got, complete>>

\* A command whose output goes to the off-th next one.
Connect(off) ==
    /\ Take("running")
    /\ UNCHANGED foreground
    /\ feeds' = feeds \cup {<<next, next + off>>}

\* The last command of a line, which the user waits for.
Foreground ==
    /\ Take("running")
    /\ foreground' = next
    /\ UNCHANGED feeds

\* A built-in takes a number and ignores what was sent to it.
BuiltIn ==
    /\ Take("builtin")
    /\ UNCHANGED <<foreground, feeds>>

Return ==
    /\ foreground # 0 /\ life[foreground] = "ended"
    /\ foreground' = 0
    /\ UNCHANGED <<next, over, life, written, got, complete, feeds>>

\* The shell ends; connections to commands never typed go with it.
Leave ==
    /\ ~ over /\ foreground = 0
    /\ over' = TRUE
    /\ UNCHANGED <<next, foreground, life, written, got, complete>>
    /\ feeds' = {e \in feeds : e[2] < next}

Produce(c) ==
    /\ life[c] = "running" /\ written[c] < Work
    /\ written' = [written EXCEPT ![c] = @ + 1]
    /\ UNCHANGED <<next, over, foreground, life, got, complete, feeds>>

Consume(c, d) ==
    /\ life[c] = "running" /\ c \notin complete
    /\ got[c][d] < written[d]
    /\ got' = [got EXCEPT ![c][d] = @ + 1]
    /\ <<d, c>> \in feeds
    /\ UNCHANGED <<next, over, foreground, life, written, complete, feeds>>

Complete(c) ==
    /\ life[c] = "running" /\ c \notin complete
    /\ complete' = complete \cup {c}
    /\ \A d \in Cmds : <<d, c>> \in feeds => /\ life[d] = "ended"
                                             /\ got[c][d] = written[d]
    /\ UNCHANGED <<next, over, foreground, life, written, got, feeds>>

End(c) ==
    /\ life[c] = "running"
    /\ life' = [life EXCEPT ![c] = "ended"]
    /\ UNCHANGED <<next, over, foreground, written, got, complete, feeds>>

FlowNext ==
    \/ \E off \in Offsets : Connect(off)
    \/ Foreground \/ BuiltIn \/ Return \/ Leave
    \/ \E c \in Cmds : \/ Produce(c) \/ Complete(c) \/ End(c)
                       \/ \E d \in Cmds : Consume(c, d)

FlowSpec == Init /\ [][FlowNext]_flowVars
=============================================================================
