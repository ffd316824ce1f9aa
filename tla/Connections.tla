---------------------------- MODULE Connections ----------------------------
(***************************************************************************)
(* What the RPC server promises to those who hand it channels, without     *)
(* threads, locks or a queue (chrpc/include/chrpc/rpc_server.h): at most   *)
(* MaxConnections channels are connected, an answer only travels over a    *)
(* connected channel, a channel that left never comes back, and            *)
(* on_disconnect is called at most once for each that left.                *)
(***************************************************************************)
EXTENDS Naturals, FiniteSets

CONSTANTS Channels, MaxConnections

VARIABLES
    connected,  \* the channels the server owns
    gone,       \* the channels it destroyed
    answers,    \* how many answers went out over a channel
    reports     \* how many calls of on_disconnect there were

cvars == <<connected, gone, answers, reports>>

CInit ==
    /\ connected = {} /\ gone = {}
    /\ answers = [c \in Channels |-> 0]
    /\ reports = 0

Admit(c) ==
    /\ c \notin connected \cup gone
    /\ Cardinality(connected) < MaxConnections
    /\ connected' = connected \cup {c}
    /\ UNCHANGED <<gone, answers, reports>>

Answer(c) ==
    /\ c \in connected
    /\ answers' = [answers EXCEPT ![c] = @ + 1]
    /\ UNCHANGED <<connected, gone, reports>>

Leave(c) ==
    /\ c \in connected
    /\ connected' = connected \ {c}
    /\ gone' = gone \cup {c}
    /\ UNCHANGED <<answers, reports>>

Report ==
    /\ reports < Cardinality(gone)
    /\ reports' = reports + 1
    /\ UNCHANGED <<connected, gone, answers>>

CNext == (\E c \in Channels : Admit(c) \/ Answer(c) \/ Leave(c)) \/ Report

CSpec == CInit /\ [][CNext]_cvars
=============================================================================
