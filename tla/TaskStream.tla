------------------------------ MODULE TaskStream ------------------------------
(***************************************************************************)
(* tasking/handler.py, run(): the loop that keeps a ListenAsAgent stream   *)
(* open on the reader thread.  It opens a stream, takes its messages until *)
(* the stream ends or breaks, waits, and opens the next one; the wait      *)
(* doubles up to a cap and is back at its base with every message.  The    *)
(* stop event is seen between messages and between streams only.           *)
(*                                                                         *)
(* What the messages are and what is done about them is TaskAgent's.       *)
(***************************************************************************)
EXTENDS Naturals

CONSTANTS
    ReconnectBase,  \* TaskHandler._reconnect_base
    ReconnectCap,   \* TaskHandler._reconnect_cap
    MaxOutages      \* streams and processes lost in a behaviour (a bound)

ASSUME ReconnectAssumption ==
    ReconnectBase \in Nat /\ ReconnectCap \in Nat /\ ReconnectBase <= ReconnectCap
ASSUME OutagesAssumption == MaxOutages \in Nat

VARIABLES
    link,       \* where the loop is: see Links
    delay,      \* the wait after the next outage
    connected,  \* TaskHandler._connected, what the health report says
    stopping,   \* the stop event of the runtime
    outages,    \* streams and processes lost so far
    silent      \* (history) of those, the streams lost since the last message

linkVars == <<link, delay, connected, stopping, outages, silent>>

Links == {
    "listen",    \* at the top of the loop
    "open",      \* waiting for the first message: the request is on its way
    "live",      \* a message has come
    "wait",      \* between two streams
    "stopped" }  \* the loop has ended

StreamTypeOK ==
    /\ link \in Links
    /\ delay \in Nat
    /\ connected \in BOOLEAN
    /\ stopping \in BOOLEAN
    /\ outages \in Nat
    /\ silent \in Nat

StreamInit ==
    /\ link = "listen"
    /\ delay = ReconnectBase
    /\ connected = FALSE
    /\ stopping = FALSE
    /\ outages = 0
    /\ silent = 0

Lesser(a, b) == IF a < b THEN a ELSE b

(* The top of the loop: a stream is asked for, or the loop ends.           *)
Listen ==
    /\ link = "listen"
    /\ link' = IF stopping THEN "stopped" ELSE "open"
    /\ UNCHANGED <<delay, connected, stopping, outages, silent>>

(* Mutant of Received: the wait is never set back.                         *)
ReceivedKeepsDelay ==
    /\ link \in {"open", "live"}
    /\ ~stopping
    /\ link' = "live"
    /\ connected' = TRUE
    /\ silent' = 0
    /\ UNCHANGED <<delay, stopping, outages>>

(* A message: it shows that the stream is live.                            *)
Received ==
    /\ link \in {"open", "live"}
    /\ ~stopping
    /\ link' = "live"
    /\ connected' = TRUE
    /\ delay' = ReconnectBase
    /\ silent' = 0
    /\ UNCHANGED <<stopping, outages>>

(* The same after the stop event: the message is dropped, the loop ends.   *)
ReceivedTooLate ==
    /\ link \in {"open", "live"}
    /\ stopping
    /\ link' = "stopped"
    /\ connected' = FALSE
    /\ delay' = ReconnectBase
    /\ silent' = 0
    /\ UNCHANGED <<stopping, outages>>

(* Mutant of Lost: an error ends the loop, as the end of the service does. *)
LostForGood ==
    /\ link \in {"open", "live"}
    /\ outages < MaxOutages
    /\ link' = "stopped"
    /\ connected' = FALSE
    /\ outages' = outages + 1
    /\ silent' = silent + 1
    /\ UNCHANGED <<delay, stopping>>

(* The stream ends, cannot be opened, or breaks.                           *)
Lost ==
    /\ link \in {"open", "live"}
    /\ outages < MaxOutages
    /\ link' = IF stopping THEN "stopped" ELSE "wait"
    /\ connected' = FALSE
    /\ outages' = outages + 1
    /\ silent' = silent + 1
    /\ UNCHANGED <<delay, stopping>>

(* stop.wait(jitter(delay)) is over: in time, or because of the stop event.*)
WaitOver ==
    /\ link = "wait"
    /\ link' = "listen"
    /\ delay' = Lesser(2 * delay, ReconnectCap)
    /\ UNCHANGED <<connected, stopping, outages, silent>>

(* Runtime.stop().                                                         *)
Stop ==
    /\ ~stopping
    /\ stopping' = TRUE
    /\ UNCHANGED <<link, delay, connected, outages, silent>>

(* Another process runs the loop from its beginning.                       *)
StreamRestarts ==
    /\ outages < MaxOutages
    /\ outages' = outages + 1
    /\ link' = "listen"
    /\ delay' = ReconnectBase
    /\ connected' = FALSE
    /\ stopping' = FALSE
    /\ silent' = 0

LoopStep == Listen \/ WaitOver

-----------------------------------------------------------------------------
(* Properties.                                                             *)

(* The wait the n-th silent outage in a row calls for.                     *)
Backoff[n \in Nat] ==
    IF n <= 1 THEN ReconnectBase ELSE Lesser(2 * Backoff[n - 1], ReconnectCap)

(* "With exponential backoff ... so a flapping endpoint is not hammered.   *)
(* The delay resets to the base once a message arrives" (handler.py:27-30):*)
(* each wait is as long as the number of streams lost since the last       *)
(* message calls for, and the health report never calls a stream connected *)
(* that has brought no message or is gone.                                 *)
BackoffFollowsOutages ==
    /\ link = "wait" => delay = Backoff[silent]
    /\ connected <=> link = "live"
=============================================================================
