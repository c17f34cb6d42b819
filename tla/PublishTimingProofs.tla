------------------------- MODULE PublishTimingProofs -------------------------
(***************************************************************************)
(* Theorems about PublishTiming, for every choice of the durations that    *)
(* satisfies its assumptions, every number of threads, and tokens of every *)
(* lifetime the assumptions allow.                                         *)
(***************************************************************************)
EXTENDS PublishTiming, TLAPS

USE CallersAssumption, DurationAssumption, LifetimesAssumption, MissesAssumption DEF Caller

-----------------------------------------------------------------------------
(* The strengthening.                                                      *)

(* A cached token outlives its use by what the margin leaves after the     *)
(* fetch; the types rest on it, since the life is counted down with it.    *)
CacheKeeps == cached.fresh > 0 => cached.left >= cached.fresh + (Margin - FetchTimeout)

(* A call that is under way ends before the token it carries expires.      *)
BearerLasts == \A c \in Caller : pc[c] = "call" => due[c] <= Limit(c) /\ bearer[c] > due[c]

(* The main thread calls Lattice at the very end only.                     *)
MainWaits == phase \notin {"sign", "exit"} => pc[Main] = "idle"

TokenInv == TimingTypeOK /\ CacheKeeps /\ BearerLasts /\ MainWaits

-----------------------------------------------------------------------------
(* Types.                                                                  *)

(* A token is asked for with a timeout or a life that is a number.         *)
LEMMA AskTyped ==
    ASSUME TimingTypeOK, NEW c \in Caller, Ask(c)
    PROVE  /\ cached' \in [left : Nat, fresh : Nat]
           /\ pc' \in [Caller -> {"idle", "done"} \cup Waits]
           /\ due' \in [Caller -> Nat]
           /\ bearer' \in [Caller -> Nat]
BY DEF TimingTypeOK, Ask, Limit, Waits

(* So does the end of a call.                                              *)
LEMMA EndsTyped ==
    ASSUME TimingTypeOK, NEW c \in Caller, NEW step \in {"idle", "done"} \cup Waits,
           NEW wait \in Nat, Ends(c, step, wait)
    PROVE  /\ pc' \in [Caller -> {"idle", "done"} \cup Waits]
           /\ due' \in [Caller -> Nat]
           /\ bearer' \in [Caller -> Nat]
           /\ draft' \in [Caller -> Nat]
BY DEF TimingTypeOK, Ends, Waits

(* Every step of the program keeps the types.                              *)
LEMMA StepTyped ==
    ASSUME TimingTypeOK, CacheKeeps, TimingNext
    PROVE  TimingTypeOK'
<1> USE DEF TimingTypeOK
<1>1. CASE \E c \in Caller : Receive(c)
  <2>1. PICK c \in Caller : Receive(c)
    BY <1>1
  <2>2. PICK l \in Lifetimes, age \in 0..(FetchTimeout - due[c]) :
          /\ bearer' = [bearer EXCEPT ![c] = l - age]
          /\ cached' = IF UsableFor(l) = 0 THEN NoToken
                       ELSE [left |-> l - age, fresh |-> UsableFor(l)]
    BY <2>1 DEF Receive
  <2>3. l \in Nat /\ l - age \in Nat
    <3>1. due[c] \in Nat /\ FetchTimeout \in Nat /\ OtherTimeout \in Nat
      OBVIOUS
    <3>2. l \in Nat /\ l > FetchTimeout + OtherTimeout
      BY LongEnoughAssumption
    <3>3. age \in Nat /\ age <= FetchTimeout
      BY <3>1
    <3> QED
      BY <3>1, <3>2, <3>3
  <2>4. UsableFor(l) \in Nat
    BY <2>3 DEF UsableFor
  <2>5. cached' \in [left : Nat, fresh : Nat] /\ bearer' \in [Caller -> Nat]
    BY <2>2, <2>3, <2>4 DEF NoToken
  <2>6. due' \in [Caller -> Nat] /\ pc' \in [Caller -> {"idle", "done"} \cup Waits]
    BY <2>1 DEF Receive, Limit, Waits
  <2> QED
    BY <2>1, <2>5, <2>6 DEF Receive
<1>2. CASE PublisherBuilds
  <2>1. draft' \in [Caller -> Nat]
    BY <1>2 DEF PublisherBuilds
  <2>2. slow' \in [past : Nat, this : Nat]
    BY <1>2 DEF PublisherBuilds
  <2> QED
    BY <1>2, <2>1, <2>2, AskTyped DEF PublisherBuilds
<1>3. CASE PublisherStops
  BY <1>3, EndsTyped DEF PublisherStops
<1>4. CASE PublisherArrives
  <2>1. Ends(Publisher, "wait", Interval) /\ "wait" \in Waits
    BY <1>4 DEF PublisherArrives, Waits
  <2> QED
    BY <1>4, <2>1, EndsTyped DEF PublisherArrives
<1>5. CASE PublisherMisses
  <2>1. Ends(Publisher, "wait", Interval) /\ "wait" \in Waits
    BY <1>5 DEF PublisherMisses, Waits
  <2>2. shown' \in [by : Caller \cup {NoOne}, left : Nat]
    BY <1>5 DEF PublisherMisses
  <2>3. misses' \in Nat
    BY <1>5 DEF PublisherMisses
  <2> QED
    BY <1>5, <2>1, <2>2, <2>3, EndsTyped DEF PublisherMisses
<1>6. CASE \E c \in Other : OtherAsks(c)
  <2>1. PICK c \in Other : OtherAsks(c)
    BY <1>6
  <2>2. draft' \in [Caller -> Nat] /\ publishing' \subseteq Other
    BY <2>1 DEF OtherAsks
  <2> QED
    BY <2>1, <2>2, AskTyped DEF OtherAsks
<1>7. CASE \E c \in Other : OtherEnds(c)
  <2>1. PICK c \in Other : OtherEnds(c)
    BY <1>7
  <2>2. shown' \in [by : Caller \cup {NoOne}, left : Nat] /\ publishing' \subseteq Other
    BY <2>1 DEF OtherEnds
  <2> QED
    BY <2>1, <2>2, EndsTyped DEF OtherEnds
<1>8. CASE Stop \/ Joined
  BY <1>8 DEF Stop, Joined, NotSlow, TimingPhases, threadVars
<1>9. CASE SignOff
  <2>1. draft' \in [Caller -> Nat]
    BY <1>9 DEF SignOff
  <2> QED
    BY <1>9, <2>1, AskTyped DEF SignOff, TimingPhases
<1>10. CASE SignedOff
  <2>1. shown' \in [by : Caller \cup {NoOne}, left : Nat]
    BY <1>10 DEF SignedOff
  <2> QED
    BY <1>10, <2>1 DEF SignedOff, NoToken, TimingPhases
<1>11. CASE Tick
  <2>1. \A n \in Nat : Down(n) \in Nat
    BY DEF Down
  <2>2. /\ due' \in [Caller -> Nat]
        /\ bearer' \in [Caller -> Nat]
        /\ draft' \in [Caller -> Nat]
    BY <1>11, <2>1 DEF Tick, CountDown
  <2>3. cached' \in [left : Nat, fresh : Nat]
    <3>1. /\ cached.left \in Nat /\ cached.fresh \in Nat
          /\ cached.fresh > 1 => cached.left - 1 \in Nat
      BY MarginAssumption DEF CacheKeeps
    <3> QED
      BY <1>11, <2>1, <3>1 DEF Tick
  <2>4. shown' \in [by : Caller \cup {NoOne}, left : Nat] /\ slow' \in [past : Nat, this : Nat]
    BY <1>11, <2>1 DEF Tick
  <2> QED
    BY <1>11, <2>2, <2>3, <2>4 DEF Tick
<1> QED
  BY <1>1, <1>2, <1>3, <1>4, <1>5, <1>6, <1>7, <1>8, <1>9, <1>10, <1>11 DEF TimingNext

-----------------------------------------------------------------------------
(* Tokens.                                                                 *)

(* A thread that asks finds a token that lasts for its call, or fetches.   *)
LEMMA AskLasts ==
    ASSUME TokenInv, NEW c \in Caller, Ask(c)
    PROVE  CacheKeeps' /\ BearerLasts'
<1> USE DEF TokenInv, TimingTypeOK
<1>1. CASE cached.fresh > 0
  <2>1. cached.left > OtherTimeout
    BY <1>1, MarginAssumption DEF CacheKeeps
  <2>2. cached.left > Limit(c) /\ Limit(c) \in Nat
    BY <2>1, CallAssumption DEF Limit
  <2>3. /\ due' = [due EXCEPT ![c] = Limit(c)]
        /\ bearer' = [bearer EXCEPT ![c] = cached.left]
        /\ pc' = [pc EXCEPT ![c] = "call"]
        /\ UNCHANGED cached
    BY <1>1 DEF Ask
  <2> QED
    BY <2>2, <2>3 DEF CacheKeeps, BearerLasts, Limit
<1>2. CASE ~(cached.fresh > 0)
  <2>1. pc' = [pc EXCEPT ![c] = "fetch"] /\ due' = [due EXCEPT ![c] = FetchTimeout]
        /\ UNCHANGED <<cached, bearer>>
    BY <1>2 DEF Ask
  <2> QED
    BY <2>1 DEF CacheKeeps, BearerLasts, Limit
<1> QED
  BY <1>1, <1>2

(* A thread that ends its call carries nothing any more.                   *)
LEMMA EndsLasts ==
    ASSUME TokenInv, NEW c \in Caller, NEW step \in {"idle", "done", "wait"},
           NEW wait \in Nat, Ends(c, step, wait), UNCHANGED cached
    PROVE  CacheKeeps' /\ BearerLasts'
BY DEF TokenInv, TimingTypeOK, CacheKeeps, BearerLasts, Ends, Limit

(* The token a fetch brings lasts for the call, and is cached for no       *)
(* longer than its margin allows, however late the answer is.              *)
LEMMA ReceiveLasts ==
    ASSUME TokenInv, NEW c \in Caller, Receive(c)
    PROVE  CacheKeeps' /\ BearerLasts'
<1> USE DEF TokenInv, TimingTypeOK
<1>1. PICK l \in Lifetimes, age \in 0..(FetchTimeout - due[c]) :
        /\ bearer' = [bearer EXCEPT ![c] = l - age]
        /\ cached' = IF UsableFor(l) = 0 THEN NoToken
                     ELSE [left |-> l - age, fresh |-> UsableFor(l)]
  BY DEF Receive
<1>2. l \in Nat /\ age \in Nat /\ age <= FetchTimeout /\ l - age > OtherTimeout
  <2>1. due[c] \in Nat /\ FetchTimeout \in Nat /\ OtherTimeout \in Nat
    OBVIOUS
  <2>2. l \in Nat /\ l > FetchTimeout + OtherTimeout
    BY LongEnoughAssumption
  <2>3. age \in Nat /\ age <= FetchTimeout
    BY <2>1
  <2> QED
    BY <2>1, <2>2, <2>3
<1>3. CacheKeeps'
  <2>1. CASE UsableFor(l) = 0
    BY <1>1, <2>1 DEF CacheKeeps, NoToken
  <2>2. CASE UsableFor(l) # 0
    <3>1. UsableFor(l) = l - Margin
      BY <2>2 DEF UsableFor
    <3>2. cached'.left = l - age /\ cached'.fresh = l - Margin
      BY <1>1, <2>2, <3>1
    <3> QED
      BY <1>2, <3>2 DEF CacheKeeps
  <2> QED
    BY <2>1, <2>2
<1>4. BearerLasts'
  <2>1. Limit(c) \in Nat /\ l - age > Limit(c)
    BY <1>2, CallAssumption DEF Limit
  <2>2. due' = [due EXCEPT ![c] = Limit(c)] /\ pc' = [pc EXCEPT ![c] = "call"]
    BY DEF Receive
  <2> QED
    BY <1>1, <2>1, <2>2 DEF BearerLasts, Limit
<1> QED
  BY <1>3, <1>4

(* Time passes for the token and for the timeout of the call alike.        *)
LEMMA TickLasts ==
    ASSUME TokenInv, Tick
    PROVE  CacheKeeps' /\ BearerLasts'
<1> USE DEF TokenInv, TimingTypeOK
<1>1. CacheKeeps'
  <2>1. cached.left \in Nat /\ cached.fresh \in Nat
    OBVIOUS
  <2>2. cached'.fresh > 0 => /\ cached.fresh > 1
                            /\ cached'.left = cached.left - 1
                            /\ cached'.fresh = cached.fresh - 1
    BY <2>1 DEF Tick, Down
  <2> QED
    BY <2>1, <2>2 DEF CacheKeeps
<1>2. BearerLasts'
  <2> SUFFICES ASSUME NEW c \in Caller, pc'[c] = "call"
               PROVE  due'[c] <= Limit(c) /\ bearer'[c] > due'[c]
    BY DEF BearerLasts, Limit
  <2>1. pc[c] = "call" /\ due[c] > 0
    BY DEF Tick, Waits
  <2>2. due'[c] = due[c] - 1 /\ bearer'[c] = bearer[c] - 1
    BY <2>1 DEF Tick, CountDown, Down, BearerLasts
  <2> QED
    BY <2>1, <2>2 DEF BearerLasts, Limit
<1> QED
  BY <1>1, <1>2

(* The inductive step.                                                     *)
LEMMA TokenKept ==
    ASSUME TokenInv, TimingNext
    PROVE  TokenInv'
<1>1. TimingTypeOK'
  BY StepTyped DEF TokenInv
<1>2. CacheKeeps' /\ BearerLasts'
  <2>1. CASE \E c \in Caller : Receive(c)
    BY <2>1, ReceiveLasts
  <2>2. CASE PublisherBuilds
    BY <2>2, AskLasts DEF PublisherBuilds
  <2>3. CASE PublisherStops \/ PublisherArrives \/ PublisherMisses
    BY <2>3, EndsLasts DEF PublisherStops, PublisherArrives, PublisherMisses
  <2>4. CASE \E c \in Other : OtherAsks(c)
    BY <2>4, AskLasts DEF OtherAsks
  <2>5. CASE \E c \in Other : OtherEnds(c)
    BY <2>5, EndsLasts DEF OtherEnds
  <2>6. CASE SignOff
    BY <2>6, AskLasts DEF SignOff
  <2>7. CASE Stop
    <3>1. pc \in [Caller -> {"idle", "done"} \cup Waits] /\ UNCHANGED <<cached, pc, bearer>>
      BY <2>7 DEF Stop, TokenInv, TimingTypeOK
    <3>2. due' = [due EXCEPT ![Main] = JoinTimeout]
      BY <2>7 DEF Stop
    <3>3. pc[Main] # "call"
      BY <2>7 DEF Stop, TokenInv, MainWaits
    <3> QED
      BY <3>1, <3>2, <3>3 DEF TokenInv, TimingTypeOK, CacheKeeps, BearerLasts, Limit
  <2>8. CASE Joined
    BY <2>8 DEF Joined, threadVars, TokenInv, CacheKeeps, BearerLasts, Limit
  <2>9. CASE SignedOff
    BY <2>9 DEF SignedOff, NoToken, TokenInv, CacheKeeps, BearerLasts, Limit
  <2>10. CASE Tick
    BY <2>10, TickLasts
  <2> QED
    BY <2>1, <2>2, <2>3, <2>4, <2>5, <2>6, <2>7, <2>8, <2>9, <2>10 DEF TimingNext
<1>3. MainWaits'
  <2>1. pc \in [Caller -> {"idle", "done"} \cup Waits]
    BY DEF TokenInv, TimingTypeOK
  <2>2. CASE UNCHANGED pc \/ phase' \in {"sign", "exit"}
    BY <2>2, <2>1 DEF TokenInv, MainWaits, TimingNext, Receive, PublisherBuilds, PublisherStops,
       PublisherArrives, PublisherMisses, OtherAsks, OtherEnds, Stop, Joined, SignOff,
       SignedOff, Tick
  <2>3. CASE ~UNCHANGED pc /\ phase' \notin {"sign", "exit"}
    <3>1. UNCHANGED phase /\ pc[Main] = "idle"
      BY <2>3 DEF TokenInv, MainWaits, TimingNext, Receive, PublisherBuilds, PublisherStops,
         PublisherArrives, PublisherMisses, OtherAsks, OtherEnds, Stop, Joined, SignOff,
         SignedOff, Tick, threadVars
    <3>2. \/ \E c \in Caller : Receive(c)
          \/ PublisherBuilds \/ PublisherStops \/ PublisherArrives \/ PublisherMisses
          \/ \E c \in Other : OtherAsks(c) \/ OtherEnds(c)
      BY <2>3 DEF TimingNext, Stop, Joined, SignOff, SignedOff, Tick, threadVars
    <3>3. pc'[Main] = "idle"
      BY <3>1, <3>2, <2>1 DEF Receive, PublisherBuilds, PublisherStops, PublisherArrives,
         PublisherMisses, OtherAsks, OtherEnds, Ask, Ends
    <3> QED
      BY <3>3 DEF MainWaits
  <2> QED
    BY <2>2, <2>3
<1> QED
  BY <1>1, <1>2, <1>3 DEF TokenInv

(* The invariant holds of every behaviour.                                 *)
LEMMA TokenInvariant == TimingSpec => []TokenInv
<1>1. TimingInit => TokenInv
  <2> SUFFICES ASSUME TimingInit PROVE TokenInv
    OBVIOUS
  <2>1. TimingTypeOK
    BY DEF TimingInit, TimingTypeOK, NoToken, NotSlow, Waits, TimingPhases
  <2>2. CacheKeeps
    BY DEF TimingInit, CacheKeeps, NoToken
  <2>3. BearerLasts /\ MainWaits
    BY DEF TimingInit, BearerLasts, MainWaits
  <2> QED
    BY <2>1, <2>2, <2>3 DEF TokenInv
<1>2. TokenInv /\ [TimingNext]_timingVars => TokenInv'
  <2>1. TokenInv /\ UNCHANGED timingVars => TokenInv'
    BY DEF TokenInv, TimingTypeOK, CacheKeeps, BearerLasts, Limit, MainWaits, timingVars
  <2> QED
    BY <2>1, TokenKept
<1> QED
  BY <1>1, <1>2, PTL DEF TimingSpec

(* Every timer is a number that never runs below zero, and every state is  *)
(* well typed.                                                             *)
THEOREM TimingTypeCorrect == TimingSpec => []TimingTypeOK
<1>1. TokenInv => TimingTypeOK
  BY DEF TokenInv
<1> QED
  BY <1>1, TokenInvariant, PTL

(* No call ever carries a token that has expired: the margin is the length *)
(* of the longest fetch and the longest call together.                     *)
THEOREM TokenNeverExpires == TimingSpec => []TokenOutlivesCall
<1>1. TokenInv => TokenOutlivesCall
  <2> SUFFICES ASSUME TokenInv, NEW c \in Caller, pc[c] = "call" PROVE bearer[c] > 0
    BY DEF TokenOutlivesCall
  <2>1. due[c] \in Nat /\ bearer[c] \in Nat /\ bearer[c] > due[c]
    BY DEF TokenInv, TimingTypeOK, BearerLasts
  <2> QED
    BY <2>1
<1> QED
  BY <1>1, TokenInvariant, PTL

-----------------------------------------------------------------------------
(* The offline entity.                                                     *)

(* The entity the publisher carries expires before the join gives up.      *)
DraftEnds ==
    /\ draft[Publisher] <= Expiry
    /\ pc[Publisher] = "done" => draft[Publisher] = 0
    /\ phase = "join" => draft[Publisher] <= due[Main]
    /\ phase \in {"cleanup", "sign", "exit"} => draft[Publisher] = 0

(* After the offline entity no thread but the publisher has a call.        *)
OthersGone ==
    /\ shown.by = Main => phase = "exit"
    /\ phase = "exit" => \A c \in Caller \ {Publisher} : pc[c] = "done"

GhostInv == DraftEnds /\ OthersGone

(* The inductive step, of the publisher's draft.                           *)
LEMMA DraftKept ==
    ASSUME TokenInv, DraftEnds, TimingNext
    PROVE  DraftEnds'
<1> USE DEF TokenInv, TimingTypeOK, DraftEnds
<1>1. CASE \E c \in Caller : Receive(c)
  <2>1. PICK c \in Caller : Receive(c)
    BY <1>1
  <2>2. phase = "join" => c # Main
    BY <2>1 DEF Receive, MainWaits
  <2>3. UNCHANGED <<draft, phase>> /\ (phase = "join" => due'[Main] = due[Main])
    BY <2>1, <2>2 DEF Receive
  <2>4. pc'[Publisher] = "done" => pc[Publisher] = "done"
    BY <2>1 DEF Receive
  <2> QED
    BY <2>3, <2>4
<1>2. CASE PublisherBuilds
  <2>1. phase' = "serve" /\ draft'[Publisher] = Expiry /\ pc'[Publisher] # "done"
    BY <1>2 DEF PublisherBuilds, Ask
  <2> QED
    BY <2>1
<1>3. CASE PublisherStops \/ PublisherArrives \/ PublisherMisses
  <2>1. draft'[Publisher] = 0 /\ due'[Main] = due[Main] /\ UNCHANGED phase /\ due[Main] \in Nat
    BY <1>3 DEF PublisherStops, PublisherArrives, PublisherMisses, Ends
  <2> QED
    BY <2>1
<1>4. CASE \E c \in Other : OtherAsks(c) \/ OtherEnds(c)
  <2>1. PICK c \in Other : OtherAsks(c) \/ OtherEnds(c)
    BY <1>4
  <2>2. c # Publisher /\ c # Main
    OBVIOUS
  <2>3. /\ draft'[Publisher] = draft[Publisher] /\ pc'[Publisher] = pc[Publisher]
        /\ due'[Main] = due[Main]
    BY <2>1, <2>2 DEF OtherAsks, OtherEnds, Ask, Ends
  <2>4. UNCHANGED phase
    BY <2>1 DEF OtherAsks, OtherEnds
  <2> QED
    BY <2>3, <2>4
<1>5. CASE Stop
  <2>1. due'[Main] = JoinTimeout /\ phase' = "join" /\ UNCHANGED <<pc, draft>>
    BY <1>5 DEF Stop
  <2>2. draft[Publisher] <= JoinTimeout
    BY JoinAssumption
  <2> QED
    BY <2>1, <2>2
<1>6. CASE Joined
  <2>1. draft[Publisher] = 0
    <3>1. CASE pc[Publisher] = "done"
      BY <3>1
    <3>2. CASE due[Main] = 0
      BY <1>6, <3>2 DEF Joined
    <3> QED
      BY <1>6, <3>1, <3>2 DEF Joined
  <2> QED
    BY <1>6, <2>1 DEF Joined, threadVars
<1>7. CASE SignOff
  <2>1. draft'[Publisher] = draft[Publisher] /\ pc'[Publisher] = pc[Publisher]
    BY <1>7 DEF SignOff, Ask
  <2> QED
    BY <1>7, <2>1 DEF SignOff
<1>8. CASE SignedOff
  <2>1. draft[Publisher] = 0 /\ phase' = "exit"
    BY <1>8 DEF SignedOff
  <2>2. draft'[Publisher] = 0
    BY <1>8, <2>1 DEF SignedOff
  <2> QED
    BY <2>1, <2>2
<1>9. CASE Tick
  <2>1. /\ draft'[Publisher] = Down(draft[Publisher])
        /\ due'[Main] = Down(due[Main])
        /\ UNCHANGED <<pc, phase>>
    BY <1>9 DEF Tick, CountDown
  <2>2. draft[Publisher] \in Nat /\ due[Main] \in Nat
    OBVIOUS
  <2> QED
    BY <2>1, <2>2 DEF Down
<1> QED
  BY <1>1, <1>2, <1>3, <1>4, <1>5, <1>6, <1>7, <1>8, <1>9 DEF TimingNext

(* The inductive step, of who may still overwrite what is shown.           *)
LEMMA GoneKept ==
    ASSUME TokenInv, OthersGone, TimingNext
    PROVE  OthersGone'
<1> USE DEF TokenInv, TimingTypeOK, OthersGone
<1>1. CASE \E c \in Caller : Receive(c)
  BY <1>1 DEF Receive
<1>2. CASE PublisherBuilds \/ PublisherStops \/ PublisherArrives \/ PublisherMisses
  BY <1>2 DEF PublisherBuilds, PublisherStops, PublisherArrives, PublisherMisses, Ask, Ends
<1>3. CASE \E c \in Other : OtherAsks(c) \/ OtherEnds(c)
  <2>1. PICK c \in Other : OtherAsks(c) \/ OtherEnds(c)
    BY <1>3
  <2>2. c # Publisher /\ c # Main /\ c \in Caller
    OBVIOUS
  <2>3. pc[c] # "done"
    BY <2>1 DEF OtherAsks, OtherEnds
  <2>4. phase # "exit" /\ UNCHANGED phase
    BY <2>1, <2>2, <2>3 DEF OtherAsks, OtherEnds
  <2>5. shown' = shown \/ shown'.by = c
    BY <2>1 DEF OtherAsks, OtherEnds
  <2> QED
    BY <2>2, <2>4, <2>5
<1>4. CASE Stop \/ Joined \/ SignOff
  BY <1>4 DEF Stop, Joined, SignOff, threadVars
<1>5. CASE SignedOff
  BY <1>5 DEF SignedOff
<1>6. CASE Tick
  <2>1. shown'.by = shown.by /\ UNCHANGED <<pc, phase>>
    BY <1>6 DEF Tick
  <2> QED
    BY <2>1
<1> QED
  BY <1>1, <1>2, <1>3, <1>4, <1>5, <1>6 DEF TimingNext

(* Once the offline entity is shown, only an entity that has expired can   *)
(* still overwrite it.                                                     *)
THEOREM NoGhostAppears == TimingSpec => NoGhost
<1> DEFINE Overwritten == shown.by = Main /\ shown'.by # Main => shown'.left = 0
<1>1. TimingInit => GhostInv
  BY DEF TimingInit, GhostInv, DraftEnds, OthersGone
<1>2. TokenInv /\ GhostInv /\ [TimingNext]_timingVars => GhostInv'
  <2>1. GhostInv /\ UNCHANGED timingVars => GhostInv'
    BY DEF GhostInv, DraftEnds, OthersGone, timingVars
  <2> QED
    BY <2>1, DraftKept, GoneKept DEF GhostInv
<1>3. TokenInv /\ GhostInv /\ [TimingNext]_timingVars => [Overwritten]_timingVars
  <2> SUFFICES ASSUME TokenInv, GhostInv, TimingNext, shown.by = Main, shown'.by # Main
               PROVE  shown'.left = 0
    OBVIOUS
  <2> USE DEF TokenInv, TimingTypeOK, GhostInv
  <2>1. phase = "exit" /\ draft[Publisher] = 0
    BY DEF DraftEnds, OthersGone
  <2>2. \A c \in Other : ~OtherAsks(c) /\ ~OtherEnds(c)
    BY <2>1 DEF OthersGone, OtherAsks, OtherEnds
  <2>3. ~Stop /\ ~Joined /\ ~SignOff /\ ~SignedOff
    BY <2>1 DEF Stop, Joined, SignOff, SignedOff
  <2>4. CASE PublisherArrives \/ PublisherMisses
    BY <2>1, <2>4 DEF PublisherArrives, PublisherMisses
  <2>5. CASE Tick
    BY <2>5 DEF Tick
  <2>6. (\E c \in Caller : Receive(c)) \/ PublisherBuilds \/ PublisherStops => UNCHANGED shown
    BY DEF Receive, PublisherBuilds, PublisherStops
  <2> QED
    BY <2>2, <2>3, <2>4, <2>5, <2>6 DEF TimingNext
<1> QED
  BY <1>1, <1>2, <1>3, TokenInvariant, PTL DEF TimingSpec, NoGhost

-----------------------------------------------------------------------------
(* The entity stays live.                                                  *)

(* What the fetches, and the failed ticks, have cost.                      *)
Cost == slow.past + slow.this + misses * (CallTimeout + Interval)

(* What the publisher has spent of the present tick: the wait before it,   *)
(* and then its call; the fetch is counted by `slow`.                      *)
Spent ==
    IF pc[Publisher] = "wait" THEN CallTimeout + Interval - due[Publisher]
    ELSE IF pc[Publisher] = "fetch" THEN CallTimeout + Interval
    ELSE CallTimeout + Interval + CallTimeout - due[Publisher]

(* The age of the entity it is building: its fetch and its call.           *)
DraftAge ==
    IF pc[Publisher] = "call" THEN slow.this + CallTimeout - due[Publisher] ELSE slow.this

(* While the service runs the publisher waits, fetches or calls; the       *)
(* entity on show, and the one on its way, are no older than that.         *)
FreshInv ==
    phase = "serve" =>
        /\ pc[Publisher] \in Waits
        /\ pc[Publisher] = "wait" => due[Publisher] <= Interval
        /\ pc[Publisher] = "call" => due[Publisher] <= CallTimeout
        /\ pc[Publisher] # "wait" => draft[Publisher] + DraftAge >= Expiry
        /\ shown.by = Publisher => shown.left + Cost + Spent >= Expiry

(* One more failed tick costs a call and a wait.                           *)
LEMMA OneMoreMiss ==
    ASSUME TimingTypeOK
    PROVE  /\ misses * (CallTimeout + Interval) \in Nat
           /\ (misses + 1) * (CallTimeout + Interval)
                = misses * (CallTimeout + Interval) + CallTimeout + Interval
<1> DEFINE K == CallTimeout + Interval
<1>1. misses \in Nat /\ K \in Nat
  BY DEF TimingTypeOK
<1> HIDE DEF K
<1>2. misses * K \in Nat /\ (misses + 1) * K = misses * K + K
  BY <1>1
<1> QED
  BY <1>2 DEF K

(* Where only the other threads move, nothing of this changes.             *)
LEMMA OthersKeepFresh ==
    ASSUME TimingTypeOK, FreshInv, UNCHANGED <<phase, misses, slow>>,
           pc'[Publisher] = pc[Publisher], due'[Publisher] = due[Publisher],
           draft'[Publisher] = draft[Publisher],
           shown' = shown \/ shown'.by # Publisher
    PROVE  FreshInv'
BY DEF TimingTypeOK, FreshInv, Cost, Spent, DraftAge

(* The inductive step.                                                     *)
LEMMA FreshKept ==
    ASSUME TimingTypeOK, MainWaits, FreshInv, TimingNext
    PROVE  FreshInv'
<1> USE DEF TimingTypeOK
<1>0. /\ misses * (CallTimeout + Interval) \in Nat
      /\ due[Publisher] \in Nat /\ draft[Publisher] \in Nat /\ shown.left \in Nat
      /\ slow.past \in Nat /\ slow.this \in Nat
      /\ Interval \in Nat /\ CallTimeout \in Nat /\ Expiry \in Nat
  BY OneMoreMiss
<1>a. Limit(Publisher) = CallTimeout
  BY DEF Limit
<1>1. CASE \E c \in Caller : Receive(c)
  <2>1. PICK c \in Caller : Receive(c)
    BY <1>1
  <2>2. CASE c # Publisher
    <3>1. pc'[Publisher] = pc[Publisher] /\ due'[Publisher] = due[Publisher]
      BY <2>1, <2>2 DEF Receive
    <3> QED
      BY <2>1, <3>1, OthersKeepFresh DEF Receive
  <2>3. CASE c = Publisher
    <3>1. /\ pc[Publisher] = "fetch" /\ pc'[Publisher] = "call"
          /\ due'[Publisher] = CallTimeout
          /\ UNCHANGED <<draft, phase, shown, misses, slow>>
      BY <1>a, <2>1, <2>3 DEF Receive
    <3> QED
      BY <1>0, <3>1 DEF FreshInv, Cost, Spent, DraftAge, Waits
  <2> QED
    BY <2>2, <2>3
<1>2. CASE PublisherBuilds
  <2>1. /\ pc[Publisher] = "wait" /\ due[Publisher] = 0 /\ phase = "serve"
        /\ draft'[Publisher] = Expiry
        /\ UNCHANGED <<phase, shown, misses>>
    BY <1>2 DEF PublisherBuilds
  <2>2. \/ pc'[Publisher] = "call" /\ due'[Publisher] = CallTimeout
        \/ pc'[Publisher] = "fetch"
    BY <1>2, <1>a DEF PublisherBuilds, Ask
  <2>3. /\ slow'.this = 0
        /\ slow'.past = slow.past + slow.this \/ slow'.past = Expiry
    BY <1>2 DEF PublisherBuilds
  <2>4. shown.by = Publisher => shown.left + Cost' + Spent' >= Expiry
    <3>1. CASE slow'.past = slow.past + slow.this
      BY <1>0, <2>1, <2>2, <2>3, <3>1 DEF FreshInv, Cost, Spent
    <3>2. CASE slow'.past = Expiry
      BY <1>0, <2>1, <2>2, <2>3, <3>2 DEF FreshInv, Cost, Spent
    <3> QED
      BY <2>3, <3>1, <3>2
  <2> QED
    BY <1>0, <2>1, <2>2, <2>3, <2>4 DEF FreshInv, DraftAge, Waits
<1>3. CASE PublisherStops
  BY <1>3 DEF PublisherStops, FreshInv
<1>4. CASE PublisherArrives
  <2>1. /\ pc[Publisher] = "call" /\ pc'[Publisher] = "wait" /\ due'[Publisher] = Interval
        /\ shown'.left = draft[Publisher] /\ misses' = 0
        /\ slow'.past = 0 /\ slow'.this = slow.this /\ UNCHANGED phase
    BY <1>4 DEF PublisherArrives, Ends
  <2> QED
    BY <1>0, <2>1 DEF FreshInv, Cost, Spent, DraftAge, Waits
<1>5. CASE PublisherMisses
  <2>1. /\ pc[Publisher] \in {"fetch", "call"} /\ pc'[Publisher] = "wait"
        /\ due'[Publisher] = Interval /\ misses' = misses + 1 /\ UNCHANGED <<slow, phase>>
        /\ \/ UNCHANGED shown
           \/ pc[Publisher] = "call" /\ shown'.left = draft[Publisher]
    BY <1>5 DEF PublisherMisses, Ends
  <2>2. Cost' = Cost + CallTimeout + Interval /\ Cost \in Nat
    BY <1>0, <2>1, OneMoreMiss DEF Cost
  <2>3. Cost >= slow.this
    BY <1>0 DEF Cost
  <2>4. phase = "serve" /\ shown'.by = Publisher => shown'.left + Cost' + Spent' >= Expiry
    <3>1. CASE UNCHANGED shown
      BY <1>0, <2>1, <2>2, <3>1 DEF FreshInv, Spent
    <3>2. CASE pc[Publisher] = "call" /\ shown'.left = draft[Publisher]
      BY <1>0, <2>1, <2>2, <2>3, <3>2 DEF FreshInv, Spent, DraftAge
    <3> QED
      BY <2>1, <3>1, <3>2
  <2> QED
    BY <1>0, <2>1, <2>4 DEF FreshInv, Waits
<1>6. CASE \E c \in Other : OtherAsks(c) \/ OtherEnds(c)
  <2>1. PICK c \in Other : OtherAsks(c) \/ OtherEnds(c)
    BY <1>6
  <2>2. c # Publisher
    OBVIOUS
  <2>3. /\ pc'[Publisher] = pc[Publisher] /\ due'[Publisher] = due[Publisher]
        /\ draft'[Publisher] = draft[Publisher]
    BY <2>1, <2>2 DEF OtherAsks, OtherEnds, Ask, Ends
  <2>4. /\ shown' = shown \/ shown'.by # Publisher
        /\ UNCHANGED <<phase, misses, slow>>
    BY <2>1, <2>2 DEF OtherAsks, OtherEnds
  <2> QED
    BY <2>3, <2>4, OthersKeepFresh
<1>7. CASE Stop \/ Joined \/ SignOff \/ SignedOff
  BY <1>7 DEF Stop, Joined, SignOff, SignedOff, FreshInv
<1>8. CASE Tick
  <2> SUFFICES ASSUME phase = "serve" PROVE FreshInv'
    BY <1>8 DEF Tick, FreshInv
  <2>1. /\ due'[Publisher] = Down(due[Publisher])
        /\ draft'[Publisher] = Down(draft[Publisher])
        /\ shown'.left = Down(shown.left) /\ shown'.by = shown.by
        /\ UNCHANGED <<pc, phase, misses>>
    BY <1>8 DEF Tick, CountDown
  <2>2. pc[Publisher] \in Waits /\ due[Publisher] > 0
    BY <1>8 DEF Tick, FreshInv
  <2>3. due'[Publisher] = due[Publisher] - 1
    BY <1>0, <2>1, <2>2 DEF Down
  <2>4. CASE pc[Publisher] = "fetch"
    <3>1. /\ slow'.past = slow.past
          /\ \/ slow'.this = slow.this + 1
             \/ slow'.this = slow.this /\ slow.this >= Expiry
      BY <1>8, <2>4, <1>0 DEF Tick
    <3>2. /\ draft'[Publisher] \in Nat /\ draft'[Publisher] >= draft[Publisher] - 1
          /\ shown'.left \in Nat /\ shown'.left >= shown.left - 1
      BY <1>0, <2>1 DEF Down
    <3>3. draft'[Publisher] + slow'.this >= Expiry
      BY <1>0, <2>4, <3>1, <3>2 DEF FreshInv, DraftAge
    <3>4. shown.by = Publisher => shown'.left + Cost' + Spent' >= Expiry
      BY <1>0, <2>1, <2>4, <3>1, <3>2 DEF FreshInv, Cost, Spent
    <3> QED
      BY <2>1, <2>4, <3>3, <3>4 DEF FreshInv, DraftAge, Waits
  <2>5. CASE pc[Publisher] # "fetch"
    <3>1. UNCHANGED slow
      BY <1>8, <2>5 DEF Tick
    <3>2. /\ draft'[Publisher] \in Nat /\ draft'[Publisher] >= draft[Publisher] - 1
          /\ shown'.left \in Nat /\ shown'.left >= shown.left - 1
      BY <1>0, <2>1 DEF Down
    <3> QED
      BY <1>0, <2>1, <2>2, <2>3, <2>5, <3>1, <3>2 DEF FreshInv, Cost, Spent, DraftAge, Waits
  <2> QED
    BY <2>4, <2>5
<1> QED
  BY <1>1, <1>2, <1>3, <1>4, <1>5, <1>6, <1>7, <1>8 DEF TimingNext

(* The entity of a running service expires only if the publisher's own     *)
(* fetches and failed ticks add up to its life.                            *)
THEOREM EntityLives == TimingSpec => []EntityStaysLive
<1>1. TimingInit => FreshInv
  BY DEF TimingInit, FreshInv, Waits
<1>2. TokenInv /\ FreshInv /\ [TimingNext]_timingVars => FreshInv'
  <2>1. FreshInv /\ UNCHANGED timingVars => FreshInv'
    BY DEF FreshInv, Cost, Spent, DraftAge, timingVars
  <2> QED
    BY <2>1, FreshKept DEF TokenInv
<1>3. TokenInv /\ FreshInv => EntityStaysLive
  <2> SUFFICES ASSUME TokenInv, FreshInv, phase = "serve", shown.by = Publisher,
                      Slowness < Expiry
               PROVE  shown.left > 0
    BY DEF EntityStaysLive
  <2>1. /\ misses * (CallTimeout + Interval) \in Nat
        /\ (misses + 1) * (CallTimeout + Interval)
             = misses * (CallTimeout + Interval) + CallTimeout + Interval
    BY OneMoreMiss DEF TokenInv
  <2>2. /\ due[Publisher] \in Nat /\ shown.left \in Nat
        /\ slow.past \in Nat /\ slow.this \in Nat
        /\ Interval \in Nat /\ CallTimeout \in Nat /\ Expiry \in Nat
    BY DEF TokenInv, TimingTypeOK
  <2>3. Spent <= CallTimeout + Interval + CallTimeout
    BY <2>2 DEF FreshInv, Spent
  <2>4. shown.left + Cost + Spent >= Expiry
    BY DEF FreshInv
  <2>5. Slowness = Cost + CallTimeout + Interval + CallTimeout /\ Cost \in Nat
    BY <2>1, <2>2 DEF Slowness, Cost
  <2>6. Spent \in Int
    BY <2>2 DEF Spent
  <2> QED
    BY <2>2, <2>3, <2>4, <2>5, <2>6
<1> QED
  BY <1>1, <1>2, <1>3, TokenInvariant, PTL DEF TimingSpec
=============================================================================
