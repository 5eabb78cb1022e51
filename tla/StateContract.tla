---------------------------- MODULE StateContract ----------------------------
(***************************************************************************)
(* What IStateStore.h and IPendingUpdateCompareAndSet promise: one value,  *)
(* the accepted release and the pending update.  Calls are served one at a *)
(* time, and a call changes the value at most once, as the last thing it   *)
(* does.  A pending update is created only where none is; it goes by an    *)
(* unconditional clear, or by a clear or a commit of a healthy version     *)
(* whose expected pending update is the one that is there when the value   *)
(* changes.  A change that was not acknowledged may be undone by a power   *)
(* failure.                                                                *)
(***************************************************************************)
EXTENDS Naturals

CONSTANTS
    Releases,
    None,
    Missing,    \* no state was ever saved
    Corrupt     \* a state that cannot be read

VARIABLES
    value,          \* Missing, Corrupt or the authoritative state
    restorable,     \* what a power failure may leave
    request         \* the call that is being served

State == [accepted: Releases \union {None}, pending: Releases \union {None}]

(* arg: the release to accept, to save or, for clearIf, the one expected.  *)
Requests == [kind: {"accept", "commit", "save", "clearIf", "clear"},
             arg: Releases \union {None}, expected: Releases \union {None}]
NoRequest == [kind |-> "none", arg |-> None, expected |-> None]

View(v) == IF v = Missing THEN [accepted |-> None, pending |-> None] ELSE v

Init == value \in State \union {Missing} /\ restorable = {value} /\ request = NoRequest

Begin(q) == request = NoRequest /\ request' = q /\ UNCHANGED <<value, restorable>>

(* A call that answers without a change, or fails, or whose process dies. *)
Finish == request' = NoRequest /\ UNCHANGED <<value, restorable>>

(* A change is acknowledged, or visible and not yet durable. *)
Publish(v) ==
    value' = v /\ restorable' \in {{v}, restorable \union {v}} /\ request' = NoRequest

Serves(kind) == request.kind = kind /\ value # Corrupt

Accept == Serves("accept") /\ Publish([View(value) EXCEPT !.accepted = request.arg])

SavePending ==
    /\ Serves("save") /\ View(value).pending = None
    /\ Publish([View(value) EXCEPT !.pending = request.arg])

(* The commit of a healthy version clears the pending update with it. *)
CommitHealthy ==
    /\ Serves("commit") /\ View(value).pending = request.expected
    /\ Publish([accepted |-> request.arg, pending |-> None])

ClearPendingIfMatches ==
    /\ Serves("clearIf") /\ View(value).pending = request.arg
    /\ Publish([View(value) EXCEPT !.pending = None])

ClearPending == Serves("clear") /\ Publish([View(value) EXCEPT !.pending = None])

(* The value as it is becomes durable: the repeated commit of a version    *)
(* that is already recorded, or the flush of another file beside it.       *)
Acknowledge ==
    /\ restorable' = {value} /\ UNCHANGED value
    /\ request' \in {request, NoRequest}

PowerFailure == value' \in restorable /\ restorable' = {value'} /\ request' = NoRequest

(* Another program deletes or destroys the state. *)
Interfere ==
    /\ value' \in {Missing, Corrupt} /\ restorable' = restorable \union {value'}
    /\ UNCHANGED request

Next ==
    \/ \E q \in Requests : Begin(q)
    \/ Accept \/ SavePending \/ CommitHealthy \/ ClearPendingIfMatches \/ ClearPending
    \/ Finish \/ Acknowledge \/ PowerFailure \/ Interfere

Spec == Init /\ [][Next]_<<value, restorable, request>>
=============================================================================
