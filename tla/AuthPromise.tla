------------------------------ MODULE AuthPromise ------------------------------
(***************************************************************************)
(* What the authentication middleware promises its clients, without the    *)
(* bookkeeping: each client that has failed has a window of WindowMs from  *)
(* its first failure; within the window more than MaxFailures failures     *)
(* block it; a success forgets them; only the MaxTrackedClients clients    *)
(* seen last among those with a window are remembered.                     *)
(***************************************************************************)
EXTENDS MapEntries

CONSTANTS Clients, MaxFailures, WindowMs, MaxTrackedClients

VARIABLES
    clock,
    windows,    \* the windows not yet over, the client seen last at the end
    answer      \* of the last request

Window == [client : Clients, failures : Nat, windowEndsAt : Nat]

Of(c) == {i \in DOMAIN windows : windows[i].client = c}

OthersThan(c) == KeepOnly(windows, {w \in Window : w.client # c})

\* Room for one more: the client not seen for the longest time goes.
WithRoom(seq) ==
    IF Len(seq) < MaxTrackedClients THEN seq ELSE Tail(seq)

Init ==
    /\ clock = 0
    /\ windows = <<>>
    /\ answer = "none"

Tick ==
    /\ clock' = clock + 1
    /\ windows' = KeepOnly(windows, {w \in Window : clock' < w.windowEndsAt})
    /\ UNCHANGED answer

\* A client that is blocked is seen, whatever it sends.
Blocked(c) ==
    \E i \in Of(c) :
        /\ windows[i].failures > MaxFailures
        /\ windows' = Append(OthersThan(c), windows[i])
        /\ answer' = "rateLimited"

Succeed(c) ==
    /\ \A i \in Of(c) : windows[i].failures <= MaxFailures
    /\ windows' = OthersThan(c)
    /\ answer' = "ok"

FirstFailure(c) ==
    LET window == [client |-> c, failures |-> 1,
                   windowEndsAt |-> clock + WindowMs]
    IN  /\ Of(c) = {}
        /\ windows' = Append(WithRoom(windows), window)
        /\ answer' = IF MaxFailures = 0 THEN "rateLimited" ELSE "unauthorized"

FurtherFailure(c) ==
    \E i \in Of(c) :
        /\ windows[i].failures <= MaxFailures
        /\ windows' = Append(OthersThan(c),
                             [windows[i] EXCEPT !.failures = @ + 1])
        /\ answer' = IF windows[i].failures = MaxFailures THEN "rateLimited"
                                                          ELSE "unauthorized"

Request ==
    /\ \E c \in Clients :
        Blocked(c) \/ Succeed(c) \/ FirstFailure(c) \/ FurtherFailure(c)
    /\ UNCHANGED clock

Next == Tick \/ Request

Spec == Init /\ [][Next]_<<clock, windows, answer>>

===============================================================================
