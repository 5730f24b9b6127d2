----------------------------- MODULE AtLeastOnce -----------------------------
(***************************************************************************)
(* What a queue and its consumer promise to the programs at both ends,     *)
(* with the broker, acknowledgements, retries and connections left out:    *)
(* messages are handled in the order they were sent, each at most once     *)
(* until something is lost, and after that perhaps again and by several    *)
(* executions at the same time.  A message given up is not handled again,  *)
(* unless something is lost.                                               *)
(***************************************************************************)
EXTENDS Integers, Sequences

CONSTANTS
    Messages,  \* what is sent
    Slots,     \* places an execution of the handler can run in
    None       \* an empty slot

VARIABLES
    sent,       \* the messages sent, in that order
    done,       \* the messages some execution has handled
    discarded,  \* the messages given up
    running,    \* the message each slot works on
    disturbed   \* whether a connection was lost or a process stopped

vars == <<sent, done, discarded, running, disturbed>>

Sent == {sent[i] : i \in 1 .. Len(sent)}

(* Everything sent before m has been handled or given up.                  *)
IsNext(m) ==
    \E i \in 1 .. Len(sent) :
        /\ sent[i] = m
        /\ \A j \in 1 .. i - 1 : sent[j] \in done \cup discarded

Init ==
    /\ sent = <<>>
    /\ done = {}
    /\ discarded = {}
    /\ running = [s \in Slots |-> None]
    /\ disturbed = FALSE

Send(m) ==
    /\ m \notin Sent
    /\ sent' = Append(sent, m)
    /\ UNCHANGED <<done, discarded, running, disturbed>>

Begin(s, m) ==
    /\ running[s] = None
    /\ IsNext(m)
    /\ \/ disturbed
       \/ m \notin done \cup discarded /\ \A t \in Slots : running[t] = None
    /\ running' = [running EXCEPT ![s] = m]
    /\ UNCHANGED <<sent, done, discarded, disturbed>>

Handle(s) ==
    /\ running[s] # None
    /\ running' = [running EXCEPT ![s] = None]
    /\ done' = done \cup {running[s]}
    /\ UNCHANGED <<sent, discarded, disturbed>>

Fail(s) ==
    /\ running[s] # None
    /\ running' = [running EXCEPT ![s] = None]
    /\ UNCHANGED <<sent, done, discarded, disturbed>>

(* The handler fails once too often for this message.                      *)
GiveUp(s) ==
    /\ running[s] # None
    /\ running' = [running EXCEPT ![s] = None]
    /\ discarded' = discarded \cup {running[s]}
    /\ UNCHANGED <<sent, done, disturbed>>

(* Something is lost; executions may go on or stop with their process.     *)
Disturb ==
    /\ disturbed' = TRUE
    /\ running' \in {running, [s \in Slots |-> None]}
    /\ UNCHANGED <<sent, done, discarded>>

Next ==
    \/ \E m \in Messages : Send(m)
    \/ \E s \in Slots : \/ \E m \in Messages : Begin(s, m)
                        \/ Handle(s)
                        \/ Fail(s)
                        \/ GiveUp(s)
    \/ Disturb

Spec == Init /\ [][Next]_vars
=============================================================================
