------------------------------- MODULE MCMouse -------------------------------
(***************************************************************************)
(* The assembly of packets in its two uses: in stream mode, with the timer *)
(* in the same notifications, and in remote mode, polled.                  *)
(***************************************************************************)
EXTENDS MouseTicks, RemotePoll

VARIABLE mode

mouseVars == <<mode, vars, tick, dropped, remote>>

(* In stream mode nothing is polled for. *)
MouseInit ==
    /\ mode \in {"stream", "remote"}
    /\ TicksInit
    /\ IF mode = "remote" THEN RemoteInit
       ELSE /\ pc = "done" /\ left = 0 /\ count = 0 /\ total_packets = 0
            /\ answered = 1 /\ hitEnd = FALSE /\ unasked = FALSE

Stream == mode = "stream" /\ TicksNext /\ UNCHANGED <<mode, remote>>

Remote == mode = "remote" /\ RemoteNext /\ UNCHANGED <<mode, tick, dropped>>

MouseNext == Stream \/ Remote

(* In stream mode the mouse is being moved; in remote mode the program     *)
(* runs and the mouse sends what it was asked for.                         *)
MouseSpec ==
    /\ MouseInit /\ [][MouseNext]_mouseVars
    /\ WF_mouseVars(mode = "stream" /\ MovedOn /\ UNCHANGED <<mode, remote>>)
    /\ WF_mouseVars(Remote)

(***************************************************************************)
(* The skipping of spoilt bytes (proj.c:181-186) ends as long as the mouse *)
(* sends bytes, which it does in stream mode.                              *)
(***************************************************************************)
RecoversOnBytes == mode = "stream" => Recovers
=============================================================================
