----------------------------- MODULE AnyClient ------------------------------
(***************************************************************************)
(* The server's side of a connection (Session) under any client at all: it *)
(* sends whatever message it likes whenever it likes, before, during and   *)
(* after a turn, and reads or stops reading as it likes.  What holds here  *)
(* holds for the shipped client and for every other one.                   *)
(***************************************************************************)
EXTENDS Session

vars == serverVars

\* MaxPrompts bounds the prompts sent, not the pace at which they are.
ClientWrites ==
    /\ \E m \in ClientMessages :
        /\ m.type = "prompt" => prompts + Len(c2s) < MaxPrompts
        /\ ClientSends(m)
    /\ UNCHANGED <<s2c, connUp, agentVars, sessionVars>>

ClientTakes ==
    /\ s2c # <<>>
    /\ s2c' = Tail(s2c)
    /\ UNCHANGED <<c2s, connUp, agentVars, sessionVars>>

ConnectionLost == ConnLost /\ UNCHANGED <<agentVars, sessionVars>>

Init == WireInit /\ AgentInit /\ SessionInit

Next ==
    \/ ServerStep
    \/ SubprocessStep
    \/ ClientWrites \/ ClientTakes \/ ConnectionLost

Spec == Init /\ [][Next]_vars
=============================================================================
