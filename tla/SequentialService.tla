------------------------- MODULE SequentialService -------------------------
(***************************************************************************)
(* What a server of this library promises its clients, with nothing said   *)
(* of sockets: clients queue up, are taken one at a time and in the order  *)
(* they came, and each is let go of in the end.                            *)
(*                                                                         *)
(* A client that is turned away at the head of the queue is not served.  A *)
(* service may be started without the means to take anybody, and one that  *)
(* dies lets go of everybody at once.                                      *)
(***************************************************************************)
EXTENDS Naturals, Sequences

CONSTANTS
    Client,   \* clients; a client may come again after it was let go of
    Backlog,  \* length of the queue
    Nobody    \* stands for the client when none is served

VARIABLES
    up,       \* the service has been started
    able,     \* it has the means to take a client
    queue,    \* clients waiting, the first first
    serving   \* the client being served

svars == <<up, able, queue, serving>>

Init ==
    /\ up = FALSE
    /\ able = TRUE
    /\ queue = <<>>
    /\ serving = Nobody

Waiting(c) == \E i \in DOMAIN queue : queue[i] = c

Start ==
    /\ ~up
    /\ up' = TRUE
    /\ able' \in BOOLEAN
    /\ UNCHANGED <<queue, serving>>

Arrive(c) ==
    /\ up
    /\ Len(queue) < Backlog
    /\ ~Waiting(c) /\ serving # c
    /\ queue' = Append(queue, c)
    /\ UNCHANGED <<up, able, serving>>

Take ==
    /\ up /\ able
    /\ queue # <<>>
    /\ serving = Nobody
    /\ serving' = Head(queue)
    /\ queue' = Tail(queue)
    /\ UNCHANGED <<up, able>>

TurnAway ==
    /\ up /\ able
    /\ queue # <<>>
    /\ serving = Nobody
    /\ queue' = Tail(queue)
    /\ UNCHANGED <<up, able, serving>>

Finish ==
    /\ up
    /\ serving # Nobody
    /\ serving' = Nobody
    /\ UNCHANGED <<up, able, queue>>

Die ==
    /\ up
    /\ up' = FALSE
    /\ queue' = <<>>
    /\ serving' = Nobody
    /\ UNCHANGED able

DieTaking ==
    /\ able
    /\ queue # <<>>
    /\ serving = Nobody
    /\ Die

\* What a service does while it lives.
ReliableNext ==
    \/ Start
    \/ \E c \in Client : Arrive(c)
    \/ Take
    \/ TurnAway
    \/ Finish

\* One that may die of a client it is about to take, and never of one it
\* serves ...
FragileNext  == ReliableNext \/ DieTaking
FragileSteps == Init /\ [][FragileNext]_svars

FragileSpec ==
    /\ FragileSteps
    /\ WF_svars(Take \/ TurnAway \/ DieTaking)
    /\ WF_svars(Finish)

\* ... and one that may die at any time.
MortalSteps == Init /\ [][ReliableNext \/ Die]_svars

MortalSpec ==
    /\ MortalSteps
    /\ WF_svars(Take \/ TurnAway \/ Die)
    /\ WF_svars(Finish \/ Die)
=============================================================================
