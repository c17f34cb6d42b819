---------------------------- MODULE PublishTiming ----------------------------
(***************************************************************************)
(* How long things take: the token cache of lattice/auth.py under the      *)
(* calls of several threads, the publisher's 1 s loop (runtime.py), the    *)
(* expiry time stamped on every entity (entity/base.py), and the shutdown  *)
(* that waits for the publisher no longer than its join (runtime.py).      *)
(*                                                                         *)
(* Time is not a clock but what is left of each timer; Tick lets one unit  *)
(* pass, and may not pass the end of a timeout or of a wait.  The steps of *)
(* the program itself take no time, nor does the pipeline status a build   *)
(* reads when there is no health sampler (main.py:166, at most half a      *)
(* second, half of the unit).  The agent's stream, which has no timeout    *)
(* (lattice/tasks.py:57), is not one of the calls here.                    *)
(*                                                                         *)
(* With the static token of ENVIRONMENT_TOKEN nothing is ever fetched: a   *)
(* behaviour of this module without the fetches.                           *)
(***************************************************************************)
EXTENDS Integers

CONSTANTS
    Publisher,     \* the publisher thread
    Main,          \* the main thread, which publishes the offline entity
    Other,         \* the task workers and readers, which call Lattice too
    NoOne,         \* no entity has been published
    Interval,      \* PUBLISH_INTERVAL_SECONDS, 1
    CallTimeout,   \* PUBLISH_TIMEOUT_MS, 1 s
    OtherTimeout,  \* the longest timeout of the other calls, 30 s, the stream aside
    FetchTimeout,  \* the timeout of the token POST, 30 s
    Margin,        \* _TOKEN_REFRESH_MARGIN_SECONDS, 60
    Expiry,        \* ENTITY_EXPIRY_SECONDS, 10
    JoinTimeout,   \* SHUTDOWN_TIMEOUT_SECONDS, 30
    Lifetimes,     \* the expires_in the token endpoint may answer
    MaxMisses      \* publishes that fail in a row (a bound)

ASSUME CallersAssumption ==
    /\ Publisher # Main
    /\ Other \cap {Publisher, Main} = {}
    /\ NoOne \notin Other \cup {Publisher, Main}
ASSUME DurationAssumption ==
    {Interval, CallTimeout, OtherTimeout, FetchTimeout, Margin, Expiry, JoinTimeout}
        \subseteq Nat \ {0}
ASSUME LifetimesAssumption == Lifetimes \subseteq Nat
ASSUME MissesAssumption == MaxMisses \in Nat

(* 60 = 30 + 30: what the margin has to cover.                             *)
ASSUME MarginAssumption == Margin >= FetchTimeout + OtherTimeout
ASSUME CallAssumption == CallTimeout <= OtherTimeout

(* A token lives longer than its fetch and one call together.              *)
ASSUME LongEnoughAssumption == \A l \in Lifetimes : l > FetchTimeout + OtherTimeout

(* 30 > 10: whoever outlasts the join carries an entity that has expired.  *)
ASSUME JoinAssumption == JoinTimeout >= Expiry

Caller == Other \cup {Publisher, Main}

VARIABLES
    cached,      \* AuthProvider: what is left of the token's life, and of its use
    pc,          \* what each thread is doing
    due,         \* what is left of each thread's timeout or wait
    bearer,      \* what is left of the life of the token each thread got
    draft,       \* what is left until the expiry_time of the entity it has built
    publishing,  \* other threads whose call is a publish (publish_now)
    phase,       \* Runtime.run, _shutdown, main's finally
    shown,       \* the entity Lattice holds: who built it, what is left of it
    misses,      \* publishes of the publisher that failed in a row
    slow         \* auxiliary: time it spent in fetches, see Slowness

timingVars == <<cached, pc, due, bearer, draft, publishing, phase, shown, misses, slow>>
threadVars == <<pc, due, bearer, draft>>

Waits == {"wait", "fetch", "call"}
TimingPhases == {"serve", "join", "cleanup", "sign", "exit"}

TimingTypeOK ==
    /\ cached \in [left : Nat, fresh : Nat]
    /\ pc \in [Caller -> {"idle", "done"} \cup Waits]
    /\ due \in [Caller -> Nat]
    /\ bearer \in [Caller -> Nat]
    /\ draft \in [Caller -> Nat]
    /\ publishing \subseteq Other
    /\ phase \in TimingPhases
    /\ shown \in [by : Caller \cup {NoOne}, left : Nat]
    /\ misses \in Nat
    /\ slow \in [past : Nat, this : Nat]

NoToken == [left |-> 0, fresh |-> 0]
NotSlow == [past |-> 0, this |-> 0]

TimingInit ==
    /\ cached = NoToken
    /\ pc = [c \in Caller |-> IF c = Publisher THEN "wait" ELSE "idle"]
    /\ due = [c \in Caller |-> IF c = Publisher THEN Interval ELSE 0]
    /\ bearer = [c \in Caller |-> 0]
    /\ draft = [c \in Caller |-> 0]
    /\ publishing = {}
    /\ phase = "serve"
    /\ shown = [by |-> NoOne, left |-> 0]
    /\ misses = 0
    /\ slow = NotSlow

-----------------------------------------------------------------------------
(* AuthProvider.headers(): the token, then the call that carries it.       *)

(* Mutant of Limit: the publish keeps the clients' default timeout.        *)
LimitDefault(c) == OtherTimeout

(* The timeout of c's call.                                                *)
Limit(c) == IF c \in Other THEN OtherTimeout ELSE CallTimeout

(* Mutant of UsableFor: the token is used until the moment it expires.     *)
UsableForAll(expiresIn) == expiresIn

(* Mutant of UsableFor: a short life gives a moment in the past.           *)
UsableForUnclamped(expiresIn) == expiresIn - Margin

(* For how long a token just stored is handed out: max(0, expires_in - 60).*)
UsableFor(expiresIn) == IF expiresIn > Margin THEN expiresIn - Margin ELSE 0

(* The cached token while it is usable, else a fetch of one's own: other   *)
(* threads may be fetching at the same time, and nobody waits for them.    *)
Ask(c) ==
    IF cached.fresh > 0
    THEN /\ pc' = [pc EXCEPT ![c] = "call"]
         /\ due' = [due EXCEPT ![c] = Limit(c)]
         /\ bearer' = [bearer EXCEPT ![c] = cached.left]
         /\ UNCHANGED cached
    ELSE /\ pc' = [pc EXCEPT ![c] = "fetch"]
         /\ due' = [due EXCEPT ![c] = FetchTimeout]
         /\ UNCHANGED <<cached, bearer>>

(* The answer arrives with a token issued at some moment since the request *)
(* was sent: it is stored over whatever another thread stored, with a use  *)
(* counted from now, and carried by the call.                              *)
Receive(c) ==
    /\ pc[c] = "fetch"
    /\ \E l \in Lifetimes, age \in 0..(FetchTimeout - due[c]) :
        /\ bearer' = [bearer EXCEPT ![c] = l - age]
        /\ cached' = IF UsableFor(l) = 0 THEN NoToken
                     ELSE [left |-> l - age, fresh |-> UsableFor(l)]
    /\ pc' = [pc EXCEPT ![c] = "call"]
    /\ due' = [due EXCEPT ![c] = Limit(c)]
    /\ UNCHANGED <<draft, publishing, phase, shown, misses, slow>>

(* headers() and the call are over, well or not: the locals are gone.      *)
Ends(c, step, wait) ==
    /\ pc' = [pc EXCEPT ![c] = step]
    /\ due' = [due EXCEPT ![c] = wait]
    /\ bearer' = [bearer EXCEPT ![c] = 0]
    /\ draft' = [draft EXCEPT ![c] = 0]

-----------------------------------------------------------------------------
(* The publisher.                                                          *)

(* `while not self._stop.wait(1)`, then build() stamps the expiry time     *)
(* before publish_entity asks for the token.                               *)
PublisherBuilds ==
    /\ pc[Publisher] = "wait"
    /\ due[Publisher] = 0
    /\ phase = "serve"
    /\ draft' = [draft EXCEPT ![Publisher] = Expiry]
    /\ Ask(Publisher)
    /\ LET all == slow.past + slow.this
       IN slow' = [past |-> IF all < Expiry THEN all ELSE Expiry, this |-> 0]
    /\ UNCHANGED <<publishing, phase, shown, misses>>

PublisherStops ==
    /\ pc[Publisher] = "wait"
    /\ phase # "serve"
    /\ Ends(Publisher, "done", 0)
    /\ UNCHANGED <<cached, publishing, phase, shown, misses, slow>>

PublisherArrives ==
    /\ pc[Publisher] = "call"
    /\ shown' = [by |-> Publisher, left |-> draft[Publisher]]
    /\ misses' = 0
    /\ slow' = [slow EXCEPT !.past = 0]
    /\ Ends(Publisher, "wait", Interval)
    /\ UNCHANGED <<cached, publishing, phase>>

(* AuthError, or the publish fails or times out; _tick only counts it.     *)
(* A publish that timed out may have reached Lattice all the same.         *)
PublisherMisses ==
    /\ pc[Publisher] \in {"fetch", "call"}
    /\ misses < MaxMisses
    /\ misses' = misses + 1
    /\ \/ UNCHANGED shown
       \/ pc[Publisher] = "call" /\ shown' = [by |-> Publisher, left |-> draft[Publisher]]
    /\ Ends(Publisher, "wait", Interval)
    /\ UNCHANGED <<cached, publishing, phase, slow>>

-----------------------------------------------------------------------------
(* The other threads: any call at any time, or the publish at the end of a *)
(* transition: one transition at a time, and none once shutdown() has had  *)
(* the lock.                                                               *)

OtherAsks(c) ==
    /\ pc[c] = "idle"
    /\ \/ UNCHANGED <<publishing, draft>>
       \/ /\ phase \in {"serve", "join", "cleanup"}
          /\ publishing = {}
          /\ publishing' = {c}
          /\ draft' = [draft EXCEPT ![c] = Expiry]
    /\ Ask(c)
    /\ UNCHANGED <<phase, shown, misses, slow>>

(* It ends, well or not.                                                   *)
OtherEnds(c) ==
    /\ pc[c] \in {"fetch", "call"}
    /\ \/ UNCHANGED shown
       \/ pc[c] = "call" /\ c \in publishing /\ shown' = [by |-> c, left |-> draft[c]]
    /\ publishing' = publishing \ {c}
    /\ Ends(c, "idle", 0)
    /\ UNCHANGED <<cached, phase, misses, slow>>

-----------------------------------------------------------------------------
(* The shutdown.                                                           *)

Stop ==
    /\ phase = "serve"
    /\ phase' = "join"
    /\ due' = [due EXCEPT ![Main] = JoinTimeout]
    /\ slow' = NotSlow
    /\ UNCHANGED <<cached, pc, bearer, draft, publishing, shown, misses>>

(* Mutant of Joined: the publisher is not waited for.                      *)
JoinedAtOnce ==
    /\ phase = "join"
    /\ phase' = "cleanup"
    /\ UNCHANGED <<cached, threadVars, publishing, shown, misses, slow>>

(* join(timeout=30) returns: the publisher has ended, or the time is up.   *)
Joined ==
    /\ phase = "join"
    /\ pc[Publisher] = "done" \/ due[Main] = 0
    /\ phase' = "cleanup"
    /\ UNCHANGED <<cached, threadVars, publishing, shown, misses, slow>>

(* control.shutdown() has had the transition lock, however long it took;   *)
(* publish_offline builds its entity and asks for the token.               *)
SignOff ==
    /\ phase = "cleanup"
    /\ publishing = {}
    /\ phase' = "sign"
    /\ draft' = [draft EXCEPT ![Main] = Expiry]
    /\ Ask(Main)
    /\ UNCHANGED <<publishing, shown, misses, slow>>

(* It ends, well or not, and with it the process: the other threads are    *)
(* daemons.  Of their calls only a publish that is under way still counts. *)
SignedOff ==
    /\ phase = "sign"
    /\ pc[Main] \in {"fetch", "call"}
    /\ \/ UNCHANGED shown
       \/ pc[Main] = "call" /\ shown' = [by |-> Main, left |-> draft[Main]]
    /\ phase' = "exit"
    /\ LET InFlight(c) == c = Publisher /\ pc[c] = "call"
       IN /\ pc' = [c \in Caller |-> IF InFlight(c) THEN "call" ELSE "done"]
          /\ due' = [c \in Caller |-> IF InFlight(c) THEN due[c] ELSE 0]
          /\ bearer' = [c \in Caller |-> IF InFlight(c) THEN bearer[c] ELSE 0]
          /\ draft' = [c \in Caller |-> IF InFlight(c) THEN draft[c] ELSE 0]
    /\ cached' = NoToken
    /\ UNCHANGED <<publishing, misses, slow>>

-----------------------------------------------------------------------------
(* Time.                                                                   *)

Down(n) == IF n > 0 THEN n - 1 ELSE 0

CountDown(f) == [c \in Caller |-> Down(f[c])]

(* A timeout or a wait that has run out is acted upon before time goes on; *)
(* so is a stop event by the publisher that waits for it.  A cached token  *)
(* past its use is no longer looked at; `slow` need not grow past Expiry.  *)
Tick ==
    /\ \A c \in Caller : pc[c] \in Waits => due[c] > 0
    /\ phase = "join" => due[Main] > 0 /\ pc[Publisher] # "done"
    /\ phase # "serve" => pc[Publisher] # "wait"
    /\ cached' = [left |-> IF cached.fresh > 1 THEN cached.left - 1 ELSE 0,
                  fresh |-> Down(cached.fresh)]
    /\ due' = CountDown(due)
    /\ bearer' = CountDown(bearer)
    /\ draft' = CountDown(draft)
    /\ shown' = [shown EXCEPT !.left = Down(@)]
    /\ slow' = IF phase = "serve" /\ pc[Publisher] = "fetch" /\ slow.this < Expiry
               THEN [slow EXCEPT !.this = @ + 1] ELSE slow
    /\ UNCHANGED <<pc, publishing, phase, misses>>

TimingNext ==
    \/ \E c \in Caller : Receive(c)
    \/ PublisherBuilds \/ PublisherStops \/ PublisherArrives \/ PublisherMisses
    \/ \E c \in Other : OtherAsks(c) \/ OtherEnds(c)
    \/ Stop \/ Joined \/ SignOff \/ SignedOff
    \/ Tick

TimingSpec == TimingInit /\ [][TimingNext]_timingVars

-----------------------------------------------------------------------------
(* Properties.                                                             *)

(* No call with a timeout carries a token that has expired, at whatever    *)
(* moment before that timeout it reaches Lattice: the margin covers the    *)
(* fetch, the call, and an older fetch whose token replaces a newer one    *)
(* (auth.py:70-72 calls it harmless).                                      *)
TokenOutlivesCall == \A c \in Caller : pc[c] = "call" => bearer[c] > 0

(* How long the entity the publisher built may have been on show: the time *)
(* of its own fetches, of the ticks that failed since, and of one more.    *)
Slowness ==
    slow.past + slow.this + (misses + 1) * (CallTimeout + Interval) + CallTimeout

(* "Keep the entity live" (base.py:28): while the service runs its entity  *)
(* does not expire, unless the publisher's own fetches and failed ticks    *)
(* add up to the expiry; what the other threads do, and how long they      *)
(* fetch, is no excuse (auth.py:14-16).                                    *)
EntityStaysLive ==
    phase = "serve" /\ shown.by = Publisher /\ Slowness < Expiry => shown.left > 0

(* A tick that outlasts the join can overwrite the offline entity only     *)
(* with one that has expired: the camera does not come back to life on the *)
(* operators' map (runtime.py:110-114, main.py:302-303).                   *)
NoGhost == [][shown.by = Main /\ shown'.by # Main => shown'.left = 0]_timingVars
=============================================================================
