------------------------- MODULE WasmRuntimeProofs --------------------------
(***************************************************************************)
(* Proofs about WasmRuntime, for any number of threads, calls and          *)
(* configurations, and for both kinds of engines.                          *)
(*                                                                         *)
(* The inductive invariant says what each place of a thread means: which   *)
(* places have the guest, which have marked their call active, and what a  *)
(* thread in stop has already made sure of.                                *)
(***************************************************************************)
EXTENDS WasmRuntime, FiniteSetTheorems, TLAPS

HoldsForCall ==
  {"took", "recheck", "begin", "inGuest", "inHost", "afterHost", "ended", "put"}
HoldsForStop == {"stopBegin", "inStop", "stopEnded"}
\* The places at which the call of the thread is the active one
Marked == {"recheck", "begin", "inGuest", "inHost", "afterHost", "ended"}
StopPlaces == {"stopLookUp", "stopEnter", "stopAsleep"} \cup HoldsForStop
Places ==
  {"idle", "enter", "asleep", "notify", "commit", "return", "cas", "engine", "drain"}
  \cup HoldsForCall \cup StopPlaces

\* Thread t is in stop and has not dropped the guest.
Stopping(t) == pc[t] \in StopPlaces \/ (pc[t] \in {"cas", "engine"} /\ op[t] = "stop")

WaTypes ==
  /\ mode \in {"direct", "handle"} /\ life \in Lives
  /\ holder \in {"free", "mine", "rival"}
  /\ guard \in {"none", "installed", "revoked"}
  /\ activated \in BOOLEAN /\ accepting \in BOOLEAN /\ alive \in BOOLEAN
  /\ slot \in BOOLEAN /\ stopped \in BOOLEAN
  /\ interrupt \in BOOLEAN /\ gstopped \in BOOLEAN
  /\ config \in Updates \cup {FirstConfig}
  /\ active \in {NoCall} \cup Calls /\ nextCall \in 1..(MaxCalls + 1)
  /\ cancelled \in [Calls -> BOOLEAN]
  /\ lockedBy \in Callers \cup {Nobody}
  /\ pc \in [Callers -> Places]
  /\ call \in [Callers -> {NoCall} \cup Calls]
  /\ op \in [Callers -> {"none", "init", "call", "cancel", "stop"} \cup Updates]
  /\ ok \in [Callers -> BOOLEAN]

\* What holds of a thread at each of its places
ThreadInv(t) ==
  /\ pc[t] # "idle" => life = "live"
  /\ pc[t] \in HoldsForCall => ~slot /\ ~stopped /\ alive
  /\ pc[t] \in HoldsForStop => ~slot /\ stopped /\ alive
  /\ pc[t] \in {"stopBegin", "inStop"} => ~gstopped
  /\ Stopping(t) => ~accepting
  /\ pc[t] \in StopPlaces => op[t] = "stop"
  /\ pc[t] \in Marked => active = call[t]
  /\ pc[t] \in {"enter", "asleep", "cas", "engine"} \cup HoldsForCall => call[t] \in Calls
  /\ pc[t] = "commit" => op[t] \in Updates

\* Two threads never have the guest; and a stop that has made its attempt to
\* cancel has caught the call that has the guest.
PairInv(t, u) ==
  /\ pc[t] \in Holding /\ pc[u] \in Holding => t = u
  /\ pc[t] = "cas" /\ op[t] = "stop" /\ pc[u] \in Running => call[u] = call[t]
  /\ \/ pc[t] \in {"stopEnter", "stopAsleep"}
     \/ pc[t] = "engine" /\ op[t] = "stop"
     => (pc[u] \in Running => cancelled[call[u]])

\* Where the guest and the mark are
GuestInv ==
  /\ active # NoCall => \E t \in Callers : pc[t] \in Marked /\ call[t] = active
  /\ life = "live" /\ ~slot /\ ~(stopped /\ ~alive) => \E t \in Callers : pc[t] \in Holding
  /\ life = "live" /\ ~accepting /\ alive => \E t \in Callers : Stopping(t)
  /\ life = "live" /\ ~alive => stopped
  /\ stopped => ~slot /\ ~accepting
  /\ gstopped => stopped

\* The instance before it is built and after it is dropped
LifeInv ==
  /\ life \in {"none", "reserved", "hooked"} =>
       ~accepting /\ ~alive /\ ~slot /\ ~stopped /\ active = NoCall
  /\ life = "building" => ~accepting /\ alive /\ ~slot /\ ~stopped /\ active = NoCall
  /\ life \in {"dropped", "failed", "gone"} => ~alive \/ ~slot
  /\ holder # "mine" => life \in {"none", "gone"}
  /\ life \in {"none", "reserved", "failed", "gone"} \/ mode = "direct" =>
       guard # "installed"

WaInv ==
  /\ WaTypes
  /\ \A t \in Callers : ThreadInv(t)
  /\ \A t, u \in Callers : PairInv(t, u)
  /\ GuestInv
  /\ LifeInv

-----------------------------------------------------------------------------
\* Calls are numbered from one, so that no call is not one of them.
LEMMA CallFacts ==
  /\ NoCall \notin Calls
  /\ \A n \in 1..(MaxCalls + 1) : n <= MaxCalls => n \in Calls /\ n + 1 \in 1..(MaxCalls + 1)
  /\ 1 \in 1..(MaxCalls + 1)
BY WasmAssumption DEF NoCall, Calls

\* Every run starts in the invariant: nothing is built and nobody calls.
LEMMA InitWaInv == WaInit => WaInv
<1> SUFFICES ASSUME WaInit PROVE WaInv
  OBVIOUS
<1> USE CallFacts, WasmAssumption DEF WaInit
<1>1. WaTypes
  BY DEF WaTypes, Places, HoldsForCall, HoldsForStop, StopPlaces, Lives
<1>2. \A t \in Callers : ThreadInv(t)
  BY DEF ThreadInv, HoldsForCall, HoldsForStop, StopPlaces, Marked, Stopping
<1>3. \A t, u \in Callers : PairInv(t, u)
  BY DEF PairInv, Holding, Running
<1>4. GuestInv /\ LifeInv
  BY DEF GuestInv, LifeInv
<1> QED
  BY <1>1, <1>2, <1>3, <1>4 DEF WaInv

\* The id is reserved before anything is built.
LEMMA AllocateKeeps ==
  ASSUME WaInv, Allocate
  PROVE  WaInv'
<1> USE CallFacts, WasmAssumption DEF WaInv, Allocate, instVars, lifeVars, guestVars, threadVars, Goto, Rest
<1>1. WaTypes'
  BY DEF WaTypes, Places, HoldsForCall, HoldsForStop, StopPlaces, Lives
<1>2. ASSUME NEW u \in Callers PROVE ThreadInv(u)'
  BY DEF WaTypes, ThreadInv, PairInv, GuestInv, LifeInv, HoldsForCall, HoldsForStop, StopPlaces, Marked, Stopping, Holding
<1>3. ASSUME NEW u \in Callers, NEW v \in Callers PROVE PairInv(u, v)'
  BY DEF WaTypes, ThreadInv, PairInv, HoldsForCall, HoldsForStop, StopPlaces, Marked, Stopping, Holding, Running
<1>4. GuestInv'
  BY DEF WaTypes, ThreadInv, PairInv, GuestInv, LifeInv, HoldsForCall, HoldsForStop, StopPlaces, Marked, Stopping, Holding
<1>5. LifeInv'
  BY DEF WaTypes, ThreadInv, GuestInv, LifeInv, HoldsForCall, HoldsForStop, StopPlaces, Stopping, Lives
<1> QED
  BY <1>1, <1>2, <1>3, <1>4, <1>5

\* The lifecycle hook is installed, or fails.
LEMMA InstallKeeps ==
  ASSUME WaInv, Install
  PROVE  WaInv'
<1> USE CallFacts, WasmAssumption DEF WaInv, Install, instVars, lifeVars, guestVars, threadVars, Goto, Rest
<1>1. WaTypes'
  BY DEF WaTypes, Places, HoldsForCall, HoldsForStop, StopPlaces, Lives
<1>2. ASSUME NEW u \in Callers PROVE ThreadInv(u)'
  BY DEF WaTypes, ThreadInv, PairInv, GuestInv, LifeInv, HoldsForCall, HoldsForStop, StopPlaces, Marked, Stopping, Holding
<1>3. ASSUME NEW u \in Callers, NEW v \in Callers PROVE PairInv(u, v)'
  BY DEF WaTypes, ThreadInv, PairInv, HoldsForCall, HoldsForStop, StopPlaces, Marked, Stopping, Holding, Running
<1>4. GuestInv'
  BY DEF WaTypes, ThreadInv, PairInv, GuestInv, LifeInv, HoldsForCall, HoldsForStop, StopPlaces, Marked, Stopping, Holding
<1>5. LifeInv'
  BY DEF WaTypes, ThreadInv, GuestInv, LifeInv, HoldsForCall, HoldsForStop, StopPlaces, Stopping, Lives
<1> QED
  BY <1>1, <1>2, <1>3, <1>4, <1>5

\* The bindings are alive before the engine makes the guest.
LEMMA BindKeeps ==
  ASSUME WaInv, Bind
  PROVE  WaInv'
<1> USE CallFacts, WasmAssumption DEF WaInv, Bind, Reserved, instVars, lifeVars, guestVars, threadVars, Goto
<1>1. WaTypes'
  BY DEF WaTypes, Places, HoldsForCall, HoldsForStop, StopPlaces, Lives
<1>2. ASSUME NEW u \in Callers PROVE ThreadInv(u)'
  BY DEF WaTypes, ThreadInv, PairInv, GuestInv, LifeInv, HoldsForCall, HoldsForStop, StopPlaces, Marked, Stopping, Holding
<1>3. ASSUME NEW u \in Callers, NEW v \in Callers PROVE PairInv(u, v)'
  BY DEF WaTypes, ThreadInv, PairInv, HoldsForCall, HoldsForStop, StopPlaces, Marked, Stopping, Holding, Running
<1>4. GuestInv'
  BY DEF WaTypes, ThreadInv, PairInv, GuestInv, LifeInv, HoldsForCall, HoldsForStop, StopPlaces, Marked, Stopping, Holding
<1>5. LifeInv'
  BY DEF WaTypes, ThreadInv, GuestInv, LifeInv, HoldsForCall, HoldsForStop, StopPlaces, Stopping, Lives
<1> QED
  BY <1>1, <1>2, <1>3, <1>4, <1>5

\* The instance is built with its guest in the slot.
LEMMA BuildKeeps ==
  ASSUME WaInv, Build
  PROVE  WaInv'
<1> USE CallFacts, WasmAssumption DEF WaInv, Build, instVars, lifeVars, guestVars, threadVars, Goto
<1>1. WaTypes'
  BY DEF WaTypes, Places, HoldsForCall, HoldsForStop, StopPlaces, Lives
<1>2. ASSUME NEW u \in Callers PROVE ThreadInv(u)'
  BY DEF WaTypes, ThreadInv, PairInv, GuestInv, LifeInv, HoldsForCall, HoldsForStop, StopPlaces, Marked, Stopping, Holding
<1>3. ASSUME NEW u \in Callers, NEW v \in Callers PROVE PairInv(u, v)'
  BY DEF WaTypes, ThreadInv, PairInv, HoldsForCall, HoldsForStop, StopPlaces, Marked, Stopping, Holding, Running
<1>4. GuestInv'
  BY DEF WaTypes, ThreadInv, PairInv, GuestInv, LifeInv, HoldsForCall, HoldsForStop, StopPlaces, Marked, Stopping, Holding
<1>5. LifeInv'
  BY DEF WaTypes, ThreadInv, GuestInv, LifeInv, HoldsForCall, HoldsForStop, StopPlaces, Stopping, Lives
<1> QED
  BY <1>1, <1>2, <1>3, <1>4, <1>5

\* A build that fails leaves the guard, if there is one, to be revoked.
LEMMA BuildFailsKeeps ==
  ASSUME WaInv, BuildFails
  PROVE  WaInv'
<1> USE CallFacts, WasmAssumption DEF WaInv, BuildFails, Reserved, AfterBuildError, instVars, lifeVars, guestVars, threadVars, Goto, Rest
<1>1. WaTypes'
  BY DEF WaTypes, Places, HoldsForCall, HoldsForStop, StopPlaces, Lives
<1>2. ASSUME NEW u \in Callers PROVE ThreadInv(u)'
  BY DEF WaTypes, ThreadInv, PairInv, GuestInv, LifeInv, HoldsForCall, HoldsForStop, StopPlaces, Marked, Stopping, Holding
<1>3. ASSUME NEW u \in Callers, NEW v \in Callers PROVE PairInv(u, v)'
  BY DEF WaTypes, ThreadInv, PairInv, HoldsForCall, HoldsForStop, StopPlaces, Marked, Stopping, Holding, Running
<1>4. GuestInv'
  BY DEF WaTypes, ThreadInv, PairInv, GuestInv, LifeInv, HoldsForCall, HoldsForStop, StopPlaces, Marked, Stopping, Holding
<1>5. LifeInv'
  BY DEF WaTypes, ThreadInv, GuestInv, LifeInv, HoldsForCall, HoldsForStop, StopPlaces, Stopping, Lives
<1> QED
  BY <1>1, <1>2, <1>3, <1>4, <1>5

\* The instance is dropped when nobody uses it: a stop has run to its end, or nobody has asked for one.
LEMMA DropKeeps ==
  ASSUME WaInv, Drop
  PROVE  WaInv'
<1> USE CallFacts, WasmAssumption DEF WaInv, Drop, Revoked, Idle, instVars, lifeVars, guestVars, threadVars, Goto
<1>1. WaTypes'
  <2>1. /\ activated' \in BOOLEAN /\ accepting' \in BOOLEAN /\ alive' \in BOOLEAN
        /\ slot' \in BOOLEAN /\ stopped' \in BOOLEAN
        /\ interrupt' \in BOOLEAN /\ gstopped' \in BOOLEAN
    BY Zenon DEF WaTypes
  <2>2. pc' \in [Callers -> Places]
    BY DEF WaTypes, Places, HoldsForCall, HoldsForStop, StopPlaces
  <2>3. ok' \in [Callers -> BOOLEAN] /\ cancelled' \in [Calls -> BOOLEAN]
    BY DEF WaTypes, ThreadInv, HoldsForCall
  <2>4. /\ mode' \in {"direct", "handle"} /\ life' \in Lives
        /\ holder' \in {"free", "mine", "rival"}
        /\ guard' \in {"none", "installed", "revoked"}
        /\ config' \in Updates \cup {FirstConfig}
        /\ active' \in {NoCall} \cup Calls /\ nextCall' \in 1..(MaxCalls + 1)
        /\ lockedBy' \in Callers \cup {Nobody}
        /\ call' \in [Callers -> {NoCall} \cup Calls]
        /\ op' \in [Callers -> {"none", "init", "call", "cancel", "stop"} \cup Updates]
    BY DEF WaTypes, ThreadInv, Lives
  <2> QED
    BY <2>1, <2>2, <2>3, <2>4 DEF WaTypes
<1>2. ASSUME NEW u \in Callers PROVE ThreadInv(u)'
  BY DEF WaTypes, ThreadInv, PairInv, GuestInv, LifeInv, HoldsForCall, HoldsForStop, StopPlaces, Marked, Stopping, Holding
<1>3. ASSUME NEW u \in Callers, NEW v \in Callers PROVE PairInv(u, v)'
  BY DEF WaTypes, ThreadInv, PairInv, HoldsForCall, HoldsForStop, StopPlaces, Marked, Stopping, Holding, Running
<1>4. GuestInv'
  BY DEF WaTypes, ThreadInv, PairInv, GuestInv, LifeInv, HoldsForCall, HoldsForStop, StopPlaces, Marked, Stopping, Holding
<1>5. LifeInv'
  BY DEF WaTypes, ThreadInv, GuestInv, LifeInv, HoldsForCall, HoldsForStop, StopPlaces, Stopping, Lives
<1> QED
  BY <1>1, <1>2, <1>3, <1>4, <1>5

\* The handle revokes its guard before the id goes.
LEMMA RevokeGuardKeeps ==
  ASSUME WaInv, RevokeGuard
  PROVE  WaInv'
<1> USE CallFacts, WasmAssumption DEF WaInv, RevokeGuard, instVars, lifeVars, guestVars, threadVars, Goto, Rest
<1>1. WaTypes'
  BY DEF WaTypes, Places, HoldsForCall, HoldsForStop, StopPlaces, Lives
<1>2. ASSUME NEW u \in Callers PROVE ThreadInv(u)'
  BY DEF WaTypes, ThreadInv, PairInv, GuestInv, LifeInv, HoldsForCall, HoldsForStop, StopPlaces, Marked, Stopping, Holding
<1>3. ASSUME NEW u \in Callers, NEW v \in Callers PROVE PairInv(u, v)'
  BY DEF WaTypes, ThreadInv, PairInv, HoldsForCall, HoldsForStop, StopPlaces, Marked, Stopping, Holding, Running
<1>4. GuestInv'
  BY DEF WaTypes, ThreadInv, PairInv, GuestInv, LifeInv, HoldsForCall, HoldsForStop, StopPlaces, Marked, Stopping, Holding
<1>5. LifeInv'
  BY DEF WaTypes, ThreadInv, GuestInv, LifeInv, HoldsForCall, HoldsForStop, StopPlaces, Stopping, Lives
<1> QED
  BY <1>1, <1>2, <1>3, <1>4, <1>5

\* The id is given back when the bindings are dead or there is no guest.
LEMMA ReleaseIdKeeps ==
  ASSUME WaInv, ReleaseId
  PROVE  WaInv'
<1> USE CallFacts, WasmAssumption DEF WaInv, ReleaseId, Rest, instVars, lifeVars, guestVars, threadVars, Goto
<1>1. WaTypes'
  <2>1. /\ activated' \in BOOLEAN /\ accepting' \in BOOLEAN /\ alive' \in BOOLEAN
        /\ slot' \in BOOLEAN /\ stopped' \in BOOLEAN
        /\ interrupt' \in BOOLEAN /\ gstopped' \in BOOLEAN
    BY Zenon DEF WaTypes
  <2>2. pc' \in [Callers -> Places]
    BY DEF WaTypes, Places, HoldsForCall, HoldsForStop, StopPlaces
  <2>3. ok' \in [Callers -> BOOLEAN] /\ cancelled' \in [Calls -> BOOLEAN]
    BY DEF WaTypes, ThreadInv, HoldsForCall
  <2>4. /\ mode' \in {"direct", "handle"} /\ life' \in Lives
        /\ holder' \in {"free", "mine", "rival"}
        /\ guard' \in {"none", "installed", "revoked"}
        /\ config' \in Updates \cup {FirstConfig}
        /\ active' \in {NoCall} \cup Calls /\ nextCall' \in 1..(MaxCalls + 1)
        /\ lockedBy' \in Callers \cup {Nobody}
        /\ call' \in [Callers -> {NoCall} \cup Calls]
        /\ op' \in [Callers -> {"none", "init", "call", "cancel", "stop"} \cup Updates]
    BY DEF WaTypes, ThreadInv, Lives
  <2> QED
    BY <2>1, <2>2, <2>3, <2>4 DEF WaTypes
<1>2. ASSUME NEW u \in Callers PROVE ThreadInv(u)'
  BY DEF WaTypes, ThreadInv, PairInv, GuestInv, LifeInv, HoldsForCall, HoldsForStop, StopPlaces, Marked, Stopping, Holding
<1>3. ASSUME NEW u \in Callers, NEW v \in Callers PROVE PairInv(u, v)'
  BY DEF WaTypes, ThreadInv, PairInv, HoldsForCall, HoldsForStop, StopPlaces, Marked, Stopping, Holding, Running
<1>4. GuestInv'
  BY DEF WaTypes, ThreadInv, PairInv, GuestInv, LifeInv, HoldsForCall, HoldsForStop, StopPlaces, Marked, Stopping, Holding
<1>5. LifeInv'
  BY DEF WaTypes, ThreadInv, GuestInv, LifeInv, HoldsForCall, HoldsForStop, StopPlaces, Stopping, Lives
<1> QED
  BY <1>1, <1>2, <1>3, <1>4, <1>5

\* The guest of a dropped instance goes.
LEMMA DropGuestKeeps ==
  ASSUME WaInv, DropGuest
  PROVE  WaInv'
<1> USE CallFacts, WasmAssumption DEF WaInv, DropGuest, instVars, lifeVars, guestVars, threadVars, Goto
<1>1. WaTypes'
  <2>1. /\ activated' \in BOOLEAN /\ accepting' \in BOOLEAN /\ alive' \in BOOLEAN
        /\ slot' \in BOOLEAN /\ stopped' \in BOOLEAN
        /\ interrupt' \in BOOLEAN /\ gstopped' \in BOOLEAN
    BY Zenon DEF WaTypes
  <2>2. pc' \in [Callers -> Places]
    BY DEF WaTypes, Places, HoldsForCall, HoldsForStop, StopPlaces
  <2>3. ok' \in [Callers -> BOOLEAN] /\ cancelled' \in [Calls -> BOOLEAN]
    BY DEF WaTypes, ThreadInv, HoldsForCall
  <2>4. /\ mode' \in {"direct", "handle"} /\ life' \in Lives
        /\ holder' \in {"free", "mine", "rival"}
        /\ guard' \in {"none", "installed", "revoked"}
        /\ config' \in Updates \cup {FirstConfig}
        /\ active' \in {NoCall} \cup Calls /\ nextCall' \in 1..(MaxCalls + 1)
        /\ lockedBy' \in Callers \cup {Nobody}
        /\ call' \in [Callers -> {NoCall} \cup Calls]
        /\ op' \in [Callers -> {"none", "init", "call", "cancel", "stop"} \cup Updates]
    BY DEF WaTypes, ThreadInv, Lives
  <2> QED
    BY <2>1, <2>2, <2>3, <2>4 DEF WaTypes
<1>2. ASSUME NEW u \in Callers PROVE ThreadInv(u)'
  BY DEF WaTypes, ThreadInv, PairInv, GuestInv, LifeInv, HoldsForCall, HoldsForStop, StopPlaces, Marked, Stopping, Holding
<1>3. ASSUME NEW u \in Callers, NEW v \in Callers PROVE PairInv(u, v)'
  BY DEF WaTypes, ThreadInv, PairInv, HoldsForCall, HoldsForStop, StopPlaces, Marked, Stopping, Holding, Running
<1>4. GuestInv'
  BY DEF WaTypes, ThreadInv, PairInv, GuestInv, LifeInv, HoldsForCall, HoldsForStop, StopPlaces, Marked, Stopping, Holding
<1>5. LifeInv'
  BY DEF WaTypes, ThreadInv, GuestInv, LifeInv, HoldsForCall, HoldsForStop, StopPlaces, Stopping, Lives
<1> QED
  BY <1>1, <1>2, <1>3, <1>4, <1>5

\* Somebody else reserves the id.
LEMMA RivalReservesKeeps ==
  ASSUME WaInv, RivalReserves
  PROVE  WaInv'
<1> USE CallFacts, WasmAssumption DEF WaInv, RivalReserves, instVars, lifeVars, guestVars, threadVars, Goto, Rest
<1>1. WaTypes'
  BY DEF WaTypes, Places, HoldsForCall, HoldsForStop, StopPlaces, Lives
<1>2. ASSUME NEW u \in Callers PROVE ThreadInv(u)'
  BY DEF WaTypes, ThreadInv, PairInv, GuestInv, LifeInv, HoldsForCall, HoldsForStop, StopPlaces, Marked, Stopping, Holding
<1>3. ASSUME NEW u \in Callers, NEW v \in Callers PROVE PairInv(u, v)'
  BY DEF WaTypes, ThreadInv, PairInv, HoldsForCall, HoldsForStop, StopPlaces, Marked, Stopping, Holding, Running
<1>4. GuestInv'
  BY DEF WaTypes, ThreadInv, PairInv, GuestInv, LifeInv, HoldsForCall, HoldsForStop, StopPlaces, Marked, Stopping, Holding
<1>5. LifeInv'
  BY DEF WaTypes, ThreadInv, GuestInv, LifeInv, HoldsForCall, HoldsForStop, StopPlaces, Stopping, Lives
<1> QED
  BY <1>1, <1>2, <1>3, <1>4, <1>5

\* A new call waits for the guest.
LEMMA InvokeKeeps ==
  ASSUME WaInv, NEW t \in Callers, NEW what \in {"init", "call"} \cup Updates, Invoke(t, what)
  PROVE  WaInv'
<1> USE CallFacts, WasmAssumption DEF WaInv, Invoke, May, instVars, lifeVars, guestVars, threadVars, Goto
<1>1. WaTypes'
  BY DEF WaTypes, Places, HoldsForCall, HoldsForStop, StopPlaces, Lives
<1>2. ASSUME NEW u \in Callers PROVE ThreadInv(u)'
  BY DEF WaTypes, ThreadInv, PairInv, GuestInv, LifeInv, HoldsForCall, HoldsForStop, StopPlaces, Marked, Stopping, Holding
<1>3. ASSUME NEW u \in Callers, NEW v \in Callers PROVE PairInv(u, v)'
  BY DEF WaTypes, ThreadInv, PairInv, HoldsForCall, HoldsForStop, StopPlaces, Marked, Stopping, Holding, Running
<1>4. GuestInv'
  BY DEF WaTypes, ThreadInv, PairInv, GuestInv, LifeInv, HoldsForCall, HoldsForStop, StopPlaces, Marked, Stopping, Holding
<1>5. LifeInv'
  BY DEF WaTypes, ThreadInv, GuestInv, LifeInv, HoldsForCall, HoldsForStop, StopPlaces, Stopping, Lives
<1> QED
  BY <1>1, <1>2, <1>3, <1>4, <1>5

\* A call finds no guest and sleeps.
LEMMA SleepKeeps ==
  ASSUME WaInv, NEW t \in Callers, Sleep(t)
  PROVE  WaInv'
<1> USE CallFacts, WasmAssumption DEF WaInv, Sleep, MustSleep, instVars, lifeVars, guestVars, threadVars, Goto
<1>1. WaTypes'
  BY DEF WaTypes, Places, HoldsForCall, HoldsForStop, StopPlaces, Lives
<1>2. ASSUME NEW u \in Callers PROVE ThreadInv(u)'
  BY DEF WaTypes, ThreadInv, PairInv, GuestInv, LifeInv, HoldsForCall, HoldsForStop, StopPlaces, Marked, Stopping, Holding
<1>3. ASSUME NEW u \in Callers, NEW v \in Callers PROVE PairInv(u, v)'
  BY DEF WaTypes, ThreadInv, PairInv, HoldsForCall, HoldsForStop, StopPlaces, Marked, Stopping, Holding, Running
<1>4. GuestInv'
  BY DEF WaTypes, ThreadInv, PairInv, GuestInv, LifeInv, HoldsForCall, HoldsForStop, StopPlaces, Marked, Stopping, Holding
<1>5. LifeInv'
  BY DEF WaTypes, ThreadInv, GuestInv, LifeInv, HoldsForCall, HoldsForStop, StopPlaces, Stopping, Lives
<1> QED
  BY <1>1, <1>2, <1>3, <1>4, <1>5

\* A call is refused by an instance that stops.
LEMMA EnterRefusedKeeps ==
  ASSUME WaInv, NEW t \in Callers, EnterRefused(t)
  PROVE  WaInv'
<1> USE CallFacts, WasmAssumption DEF WaInv, EnterRefused, instVars, lifeVars, guestVars, threadVars, Goto
<1>1. WaTypes'
  BY DEF WaTypes, Places, HoldsForCall, HoldsForStop, StopPlaces, Lives
<1>2. ASSUME NEW u \in Callers PROVE ThreadInv(u)'
  BY DEF WaTypes, ThreadInv, PairInv, GuestInv, LifeInv, HoldsForCall, HoldsForStop, StopPlaces, Marked, Stopping, Holding
<1>3. ASSUME NEW u \in Callers, NEW v \in Callers PROVE PairInv(u, v)'
  BY DEF WaTypes, ThreadInv, PairInv, HoldsForCall, HoldsForStop, StopPlaces, Marked, Stopping, Holding, Running
<1>4. GuestInv'
  BY DEF WaTypes, ThreadInv, PairInv, GuestInv, LifeInv, HoldsForCall, HoldsForStop, StopPlaces, Marked, Stopping, Holding
<1>5. LifeInv'
  BY DEF WaTypes, ThreadInv, GuestInv, LifeInv, HoldsForCall, HoldsForStop, StopPlaces, Stopping, Lives
<1> QED
  BY <1>1, <1>2, <1>3, <1>4, <1>5

\* A call takes the guest out of its slot.
LEMMA TakeGuestKeeps ==
  ASSUME WaInv, NEW t \in Callers, TakeGuest(t)
  PROVE  WaInv'
<1> USE CallFacts, WasmAssumption DEF WaInv, TakeGuest, instVars, lifeVars, guestVars, threadVars, Goto
<1>1. WaTypes'
  <2>1. /\ activated' \in BOOLEAN /\ accepting' \in BOOLEAN /\ alive' \in BOOLEAN
        /\ slot' \in BOOLEAN /\ stopped' \in BOOLEAN
        /\ interrupt' \in BOOLEAN /\ gstopped' \in BOOLEAN
    BY Zenon DEF WaTypes
  <2>2. pc' \in [Callers -> Places]
    BY DEF WaTypes, Places, HoldsForCall, HoldsForStop, StopPlaces
  <2>3. ok' \in [Callers -> BOOLEAN] /\ cancelled' \in [Calls -> BOOLEAN]
    BY DEF WaTypes, ThreadInv, HoldsForCall
  <2>4. /\ mode' \in {"direct", "handle"} /\ life' \in Lives
        /\ holder' \in {"free", "mine", "rival"}
        /\ guard' \in {"none", "installed", "revoked"}
        /\ config' \in Updates \cup {FirstConfig}
        /\ active' \in {NoCall} \cup Calls /\ nextCall' \in 1..(MaxCalls + 1)
        /\ lockedBy' \in Callers \cup {Nobody}
        /\ call' \in [Callers -> {NoCall} \cup Calls]
        /\ op' \in [Callers -> {"none", "init", "call", "cancel", "stop"} \cup Updates]
    BY DEF WaTypes, ThreadInv, Lives
  <2> QED
    BY <2>1, <2>2, <2>3, <2>4 DEF WaTypes
<1>2. ASSUME NEW u \in Callers PROVE ThreadInv(u)'
  BY DEF WaTypes, ThreadInv, PairInv, GuestInv, LifeInv, HoldsForCall, HoldsForStop, StopPlaces, Marked, Stopping, Holding
<1>3. ASSUME NEW u \in Callers, NEW v \in Callers PROVE PairInv(u, v)'
  BY DEF WaTypes, ThreadInv, PairInv, HoldsForCall, HoldsForStop, StopPlaces, Marked, Stopping, Holding, Running
<1>4. GuestInv'
  BY DEF WaTypes, ThreadInv, PairInv, GuestInv, LifeInv, HoldsForCall, HoldsForStop, StopPlaces, Marked, Stopping, Holding
<1>5. LifeInv'
  BY DEF WaTypes, ThreadInv, GuestInv, LifeInv, HoldsForCall, HoldsForStop, StopPlaces, Stopping, Lives
<1> QED
  BY <1>1, <1>2, <1>3, <1>4, <1>5

\* The call with the guest becomes the active one.
LEMMA SetActiveKeeps ==
  ASSUME WaInv, NEW t \in Callers, SetActive(t)
  PROVE  WaInv'
<1> USE CallFacts, WasmAssumption DEF WaInv, SetActive, instVars, lifeVars, guestVars, threadVars, Goto
<1>1. WaTypes'
  BY DEF WaTypes, Places, HoldsForCall, HoldsForStop, StopPlaces, Lives
<1>2. ASSUME NEW u \in Callers PROVE ThreadInv(u)'
  BY DEF WaTypes, ThreadInv, PairInv, GuestInv, LifeInv, HoldsForCall, HoldsForStop, StopPlaces, Marked, Stopping, Holding
<1>3. ASSUME NEW u \in Callers, NEW v \in Callers PROVE PairInv(u, v)'
  BY DEF WaTypes, ThreadInv, PairInv, HoldsForCall, HoldsForStop, StopPlaces, Marked, Stopping, Holding, Running
<1>4. GuestInv'
  BY DEF WaTypes, ThreadInv, PairInv, GuestInv, LifeInv, HoldsForCall, HoldsForStop, StopPlaces, Marked, Stopping, Holding
<1>5. LifeInv'
  BY DEF WaTypes, ThreadInv, GuestInv, LifeInv, HoldsForCall, HoldsForStop, StopPlaces, Stopping, Lives
<1> QED
  BY <1>1, <1>2, <1>3, <1>4, <1>5

\* The call reads accepting again, and gives the guest back if a stop came in between.
LEMMA RecheckKeeps ==
  ASSUME WaInv, NEW t \in Callers, Recheck(t)
  PROVE  WaInv'
<1> USE CallFacts, WasmAssumption DEF WaInv, Recheck, StillAccepting, instVars, lifeVars, guestVars, threadVars, Goto
<1>1. WaTypes'
  <2>1. /\ activated' \in BOOLEAN /\ accepting' \in BOOLEAN /\ alive' \in BOOLEAN
        /\ slot' \in BOOLEAN /\ stopped' \in BOOLEAN
        /\ interrupt' \in BOOLEAN /\ gstopped' \in BOOLEAN
    BY Zenon DEF WaTypes
  <2>2. pc' \in [Callers -> Places]
    BY DEF WaTypes, Places, HoldsForCall, HoldsForStop, StopPlaces
  <2>3. ok' \in [Callers -> BOOLEAN] /\ cancelled' \in [Calls -> BOOLEAN]
    BY DEF WaTypes, ThreadInv, HoldsForCall
  <2>4. /\ mode' \in {"direct", "handle"} /\ life' \in Lives
        /\ holder' \in {"free", "mine", "rival"}
        /\ guard' \in {"none", "installed", "revoked"}
        /\ config' \in Updates \cup {FirstConfig}
        /\ active' \in {NoCall} \cup Calls /\ nextCall' \in 1..(MaxCalls + 1)
        /\ lockedBy' \in Callers \cup {Nobody}
        /\ call' \in [Callers -> {NoCall} \cup Calls]
        /\ op' \in [Callers -> {"none", "init", "call", "cancel", "stop"} \cup Updates]
    BY DEF WaTypes, ThreadInv, Lives
  <2> QED
    BY <2>1, <2>2, <2>3, <2>4 DEF WaTypes
<1>2. ASSUME NEW u \in Callers PROVE ThreadInv(u)'
  BY DEF WaTypes, ThreadInv, PairInv, GuestInv, LifeInv, HoldsForCall, HoldsForStop, StopPlaces, Marked, Stopping, Holding
<1>3. ASSUME NEW u \in Callers, NEW v \in Callers PROVE PairInv(u, v)'
  BY DEF WaTypes, ThreadInv, PairInv, HoldsForCall, HoldsForStop, StopPlaces, Marked, Stopping, Holding, Running
<1>4. GuestInv'
  BY DEF WaTypes, ThreadInv, PairInv, GuestInv, LifeInv, HoldsForCall, HoldsForStop, StopPlaces, Marked, Stopping, Holding
<1>5. LifeInv'
  BY DEF WaTypes, ThreadInv, GuestInv, LifeInv, HoldsForCall, HoldsForStop, StopPlaces, Stopping, Lives
<1> QED
  BY <1>1, <1>2, <1>3, <1>4, <1>5

\* The engine begins, or fails a call it keeps a cancellation for.
LEMMA BeginKeeps ==
  ASSUME WaInv, NEW t \in Callers, Begin(t)
  PROVE  WaInv'
<1> USE CallFacts, WasmAssumption DEF WaInv, Begin, instVars, lifeVars, guestVars, threadVars, Goto
<1>1. WaTypes'
  <2>1. /\ activated' \in BOOLEAN /\ accepting' \in BOOLEAN /\ alive' \in BOOLEAN
        /\ slot' \in BOOLEAN /\ stopped' \in BOOLEAN
        /\ interrupt' \in BOOLEAN /\ gstopped' \in BOOLEAN
    BY Zenon DEF WaTypes
  <2>2. pc' \in [Callers -> Places]
    BY DEF WaTypes, Places, HoldsForCall, HoldsForStop, StopPlaces
  <2>3. ok' \in [Callers -> BOOLEAN] /\ cancelled' \in [Calls -> BOOLEAN]
    BY DEF WaTypes, ThreadInv, HoldsForCall
  <2>4. /\ mode' \in {"direct", "handle"} /\ life' \in Lives
        /\ holder' \in {"free", "mine", "rival"}
        /\ guard' \in {"none", "installed", "revoked"}
        /\ config' \in Updates \cup {FirstConfig}
        /\ active' \in {NoCall} \cup Calls /\ nextCall' \in 1..(MaxCalls + 1)
        /\ lockedBy' \in Callers \cup {Nobody}
        /\ call' \in [Callers -> {NoCall} \cup Calls]
        /\ op' \in [Callers -> {"none", "init", "call", "cancel", "stop"} \cup Updates]
    BY DEF WaTypes, ThreadInv, Lives
  <2> QED
    BY <2>1, <2>2, <2>3, <2>4 DEF WaTypes
<1>2. ASSUME NEW u \in Callers PROVE ThreadInv(u)'
  BY DEF WaTypes, ThreadInv, PairInv, GuestInv, LifeInv, HoldsForCall, HoldsForStop, StopPlaces, Marked, Stopping, Holding
<1>3. ASSUME NEW u \in Callers, NEW v \in Callers PROVE PairInv(u, v)'
  BY DEF WaTypes, ThreadInv, PairInv, HoldsForCall, HoldsForStop, StopPlaces, Marked, Stopping, Holding, Running
<1>4. GuestInv'
  BY DEF WaTypes, ThreadInv, PairInv, GuestInv, LifeInv, HoldsForCall, HoldsForStop, StopPlaces, Marked, Stopping, Holding
<1>5. LifeInv'
  BY DEF WaTypes, ThreadInv, GuestInv, LifeInv, HoldsForCall, HoldsForStop, StopPlaces, Stopping, Lives
<1> QED
  BY <1>1, <1>2, <1>3, <1>4, <1>5

\* The guest calls a host function.
LEMMA HostCallKeeps ==
  ASSUME WaInv, NEW t \in Callers, HostCall(t)
  PROVE  WaInv'
<1> USE CallFacts, WasmAssumption DEF WaInv, HostCall, instVars, lifeVars, guestVars, threadVars, Goto
<1>1. WaTypes'
  BY DEF WaTypes, Places, HoldsForCall, HoldsForStop, StopPlaces, Lives
<1>2. ASSUME NEW u \in Callers PROVE ThreadInv(u)'
  BY DEF WaTypes, ThreadInv, PairInv, GuestInv, LifeInv, HoldsForCall, HoldsForStop, StopPlaces, Marked, Stopping, Holding
<1>3. ASSUME NEW u \in Callers, NEW v \in Callers PROVE PairInv(u, v)'
  BY DEF WaTypes, ThreadInv, PairInv, HoldsForCall, HoldsForStop, StopPlaces, Marked, Stopping, Holding, Running
<1>4. GuestInv'
  BY DEF WaTypes, ThreadInv, PairInv, GuestInv, LifeInv, HoldsForCall, HoldsForStop, StopPlaces, Marked, Stopping, Holding
<1>5. LifeInv'
  BY DEF WaTypes, ThreadInv, GuestInv, LifeInv, HoldsForCall, HoldsForStop, StopPlaces, Stopping, Lives
<1> QED
  BY <1>1, <1>2, <1>3, <1>4, <1>5

\* A host function returns.
LEMMA HostReturnsKeeps ==
  ASSUME WaInv, NEW t \in Callers, HostReturns(t)
  PROVE  WaInv'
<1> USE CallFacts, WasmAssumption DEF WaInv, HostReturns, instVars, lifeVars, guestVars, threadVars, Goto
<1>1. WaTypes'
  BY DEF WaTypes, Places, HoldsForCall, HoldsForStop, StopPlaces, Lives
<1>2. ASSUME NEW u \in Callers PROVE ThreadInv(u)'
  BY DEF WaTypes, ThreadInv, PairInv, GuestInv, LifeInv, HoldsForCall, HoldsForStop, StopPlaces, Marked, Stopping, Holding
<1>3. ASSUME NEW u \in Callers, NEW v \in Callers PROVE PairInv(u, v)'
  BY DEF WaTypes, ThreadInv, PairInv, HoldsForCall, HoldsForStop, StopPlaces, Marked, Stopping, Holding, Running
<1>4. GuestInv'
  BY DEF WaTypes, ThreadInv, PairInv, GuestInv, LifeInv, HoldsForCall, HoldsForStop, StopPlaces, Marked, Stopping, Holding
<1>5. LifeInv'
  BY DEF WaTypes, ThreadInv, GuestInv, LifeInv, HoldsForCall, HoldsForStop, StopPlaces, Stopping, Lives
<1> QED
  BY <1>1, <1>2, <1>3, <1>4, <1>5

\* The guest returns to call_guest.
LEMMA GuestReturnsKeeps ==
  ASSUME WaInv, NEW t \in Callers, NEW good \in BOOLEAN, GuestReturns(t, good)
  PROVE  WaInv'
<1> USE CallFacts, WasmAssumption DEF WaInv, GuestReturns, Kept, instVars, lifeVars, guestVars, threadVars, Goto
<1>1. WaTypes'
  <2>1. /\ activated' \in BOOLEAN /\ accepting' \in BOOLEAN /\ alive' \in BOOLEAN
        /\ slot' \in BOOLEAN /\ stopped' \in BOOLEAN
        /\ interrupt' \in BOOLEAN /\ gstopped' \in BOOLEAN
    BY Zenon DEF WaTypes
  <2>2. pc' \in [Callers -> Places]
    BY DEF WaTypes, Places, HoldsForCall, HoldsForStop, StopPlaces
  <2>3. ok' \in [Callers -> BOOLEAN] /\ cancelled' \in [Calls -> BOOLEAN]
    BY DEF WaTypes, ThreadInv, HoldsForCall
  <2>4. /\ mode' \in {"direct", "handle"} /\ life' \in Lives
        /\ holder' \in {"free", "mine", "rival"}
        /\ guard' \in {"none", "installed", "revoked"}
        /\ config' \in Updates \cup {FirstConfig}
        /\ active' \in {NoCall} \cup Calls /\ nextCall' \in 1..(MaxCalls + 1)
        /\ lockedBy' \in Callers \cup {Nobody}
        /\ call' \in [Callers -> {NoCall} \cup Calls]
        /\ op' \in [Callers -> {"none", "init", "call", "cancel", "stop"} \cup Updates]
    BY DEF WaTypes, ThreadInv, Lives
  <2> QED
    BY <2>1, <2>2, <2>3, <2>4 DEF WaTypes
<1>2. ASSUME NEW u \in Callers PROVE ThreadInv(u)'
  BY DEF WaTypes, ThreadInv, PairInv, GuestInv, LifeInv, HoldsForCall, HoldsForStop, StopPlaces, Marked, Stopping, Holding
<1>3. ASSUME NEW u \in Callers, NEW v \in Callers PROVE PairInv(u, v)'
  BY DEF WaTypes, ThreadInv, PairInv, HoldsForCall, HoldsForStop, StopPlaces, Marked, Stopping, Holding, Running
<1>4. GuestInv'
  BY DEF WaTypes, ThreadInv, PairInv, GuestInv, LifeInv, HoldsForCall, HoldsForStop, StopPlaces, Marked, Stopping, Holding
<1>5. LifeInv'
  BY DEF WaTypes, ThreadInv, GuestInv, LifeInv, HoldsForCall, HoldsForStop, StopPlaces, Stopping, Lives
<1> QED
  BY <1>1, <1>2, <1>3, <1>4, <1>5

\* The call stops being the active one.
LEMMA ClearActiveKeeps ==
  ASSUME WaInv, NEW t \in Callers, ClearActive(t)
  PROVE  WaInv'
<1> USE CallFacts, WasmAssumption DEF WaInv, ClearActive, instVars, lifeVars, guestVars, threadVars, Goto
<1>1. WaTypes'
  BY DEF WaTypes, Places, HoldsForCall, HoldsForStop, StopPlaces, Lives
<1>2. ASSUME NEW u \in Callers PROVE ThreadInv(u)'
  BY DEF WaTypes, ThreadInv, PairInv, GuestInv, LifeInv, HoldsForCall, HoldsForStop, StopPlaces, Marked, Stopping, Holding
<1>3. ASSUME NEW u \in Callers, NEW v \in Callers PROVE PairInv(u, v)'
  BY DEF WaTypes, ThreadInv, PairInv, HoldsForCall, HoldsForStop, StopPlaces, Marked, Stopping, Holding, Running
<1>4. GuestInv'
  BY DEF WaTypes, ThreadInv, PairInv, GuestInv, LifeInv, HoldsForCall, HoldsForStop, StopPlaces, Marked, Stopping, Holding
<1>5. LifeInv'
  BY DEF WaTypes, ThreadInv, GuestInv, LifeInv, HoldsForCall, HoldsForStop, StopPlaces, Stopping, Lives
<1> QED
  BY <1>1, <1>2, <1>3, <1>4, <1>5

\* The guest goes back into its slot.
LEMMA PutBackKeeps ==
  ASSUME WaInv, NEW t \in Callers, PutBack(t)
  PROVE  WaInv'
<1> USE CallFacts, WasmAssumption DEF WaInv, PutBack, instVars, lifeVars, guestVars, threadVars, Goto
<1>1. WaTypes'
  BY DEF WaTypes, Places, HoldsForCall, HoldsForStop, StopPlaces, Lives
<1>2. ASSUME NEW u \in Callers PROVE ThreadInv(u)'
  BY DEF WaTypes, ThreadInv, PairInv, GuestInv, LifeInv, HoldsForCall, HoldsForStop, StopPlaces, Marked, Stopping, Holding
<1>3. ASSUME NEW u \in Callers, NEW v \in Callers PROVE PairInv(u, v)'
  BY DEF WaTypes, ThreadInv, PairInv, HoldsForCall, HoldsForStop, StopPlaces, Marked, Stopping, Holding, Running
<1>4. GuestInv'
  BY DEF WaTypes, ThreadInv, PairInv, GuestInv, LifeInv, HoldsForCall, HoldsForStop, StopPlaces, Marked, Stopping, Holding
<1>5. LifeInv'
  BY DEF WaTypes, ThreadInv, GuestInv, LifeInv, HoldsForCall, HoldsForStop, StopPlaces, Stopping, Lives
<1> QED
  BY <1>1, <1>2, <1>3, <1>4, <1>5

\* Everybody who sleeps is woken.
LEMMA NotifyKeeps ==
  ASSUME WaInv, NEW t \in Callers, Notify(t)
  PROVE  WaInv'
<1> USE CallFacts, WasmAssumption DEF WaInv, Notify, Wake, NotifyAll, Awake, AfterCall, IsUpdate, instVars, lifeVars, guestVars, threadVars, Goto
<1>1. WaTypes'
  BY DEF WaTypes, Places, HoldsForCall, HoldsForStop, StopPlaces, Lives
<1>2. ASSUME NEW u \in Callers PROVE ThreadInv(u)'
  BY DEF WaTypes, ThreadInv, PairInv, GuestInv, LifeInv, HoldsForCall, HoldsForStop, StopPlaces, Marked, Stopping, Holding
<1>3. ASSUME NEW u \in Callers, NEW v \in Callers PROVE PairInv(u, v)'
  BY DEF WaTypes, ThreadInv, PairInv, HoldsForCall, HoldsForStop, StopPlaces, Marked, Stopping, Holding, Running
<1>4. GuestInv'
  BY ZenonT(60) DEF WaTypes, ThreadInv, PairInv, GuestInv, LifeInv, HoldsForCall, HoldsForStop, StopPlaces, Marked, Stopping, Holding
<1>5. LifeInv'
  BY DEF WaTypes, ThreadInv, GuestInv, LifeInv, HoldsForCall, HoldsForStop, StopPlaces, Stopping, Lives
<1> QED
  BY <1>1, <1>2, <1>3, <1>4, <1>5

\* The configuration of a successful update is committed.
LEMMA CommitConfigKeeps ==
  ASSUME WaInv, NEW t \in Callers, CommitConfig(t)
  PROVE  WaInv'
<1> USE CallFacts, WasmAssumption DEF WaInv, CommitConfig, instVars, lifeVars, guestVars, threadVars, Goto
<1>1. WaTypes'
  <2>1. /\ activated' \in BOOLEAN /\ accepting' \in BOOLEAN /\ alive' \in BOOLEAN
        /\ slot' \in BOOLEAN /\ stopped' \in BOOLEAN
        /\ interrupt' \in BOOLEAN /\ gstopped' \in BOOLEAN
    BY Zenon DEF WaTypes
  <2>2. pc' \in [Callers -> Places]
    BY DEF WaTypes, Places, HoldsForCall, HoldsForStop, StopPlaces
  <2>3. ok' \in [Callers -> BOOLEAN] /\ cancelled' \in [Calls -> BOOLEAN]
    BY DEF WaTypes, ThreadInv, HoldsForCall
  <2>4. /\ mode' \in {"direct", "handle"} /\ life' \in Lives
        /\ holder' \in {"free", "mine", "rival"}
        /\ guard' \in {"none", "installed", "revoked"}
        /\ config' \in Updates \cup {FirstConfig}
        /\ active' \in {NoCall} \cup Calls /\ nextCall' \in 1..(MaxCalls + 1)
        /\ lockedBy' \in Callers \cup {Nobody}
        /\ call' \in [Callers -> {NoCall} \cup Calls]
        /\ op' \in [Callers -> {"none", "init", "call", "cancel", "stop"} \cup Updates]
    BY DEF WaTypes, ThreadInv, Lives
  <2> QED
    BY <2>1, <2>2, <2>3, <2>4 DEF WaTypes
<1>2. ASSUME NEW u \in Callers PROVE ThreadInv(u)'
  BY DEF WaTypes, ThreadInv, PairInv, GuestInv, LifeInv, HoldsForCall, HoldsForStop, StopPlaces, Marked, Stopping, Holding
<1>3. ASSUME NEW u \in Callers, NEW v \in Callers PROVE PairInv(u, v)'
  BY DEF WaTypes, ThreadInv, PairInv, HoldsForCall, HoldsForStop, StopPlaces, Marked, Stopping, Holding, Running
<1>4. GuestInv'
  BY DEF WaTypes, ThreadInv, PairInv, GuestInv, LifeInv, HoldsForCall, HoldsForStop, StopPlaces, Marked, Stopping, Holding
<1>5. LifeInv'
  BY DEF WaTypes, ThreadInv, GuestInv, LifeInv, HoldsForCall, HoldsForStop, StopPlaces, Stopping, Lives
<1> QED
  BY <1>1, <1>2, <1>3, <1>4, <1>5

\* cancel_current looks up the active call.
LEMMA CancelCurrentKeeps ==
  ASSUME WaInv, NEW t \in Callers, CancelCurrent(t)
  PROVE  WaInv'
<1> USE CallFacts, WasmAssumption DEF WaInv, CancelCurrent, LookUp, AfterCancel, instVars, lifeVars, guestVars, threadVars, Goto
<1>1. WaTypes'
  BY DEF WaTypes, Places, HoldsForCall, HoldsForStop, StopPlaces, Lives
<1>2. ASSUME NEW u \in Callers PROVE ThreadInv(u)'
  BY DEF WaTypes, ThreadInv, PairInv, GuestInv, LifeInv, HoldsForCall, HoldsForStop, StopPlaces, Marked, Stopping, Holding
<1>3. ASSUME NEW u \in Callers, NEW v \in Callers PROVE PairInv(u, v)'
  BY DEF WaTypes, ThreadInv, PairInv, HoldsForCall, HoldsForStop, StopPlaces, Marked, Stopping, Holding, Running
<1>4. GuestInv'
  BY DEF WaTypes, ThreadInv, PairInv, GuestInv, LifeInv, HoldsForCall, HoldsForStop, StopPlaces, Marked, Stopping, Holding
<1>5. LifeInv'
  BY DEF WaTypes, ThreadInv, GuestInv, LifeInv, HoldsForCall, HoldsForStop, StopPlaces, Stopping, Lives
<1> QED
  BY <1>1, <1>2, <1>3, <1>4, <1>5

\* The first canceller of a call wins.
LEMMA CasKeeps ==
  ASSUME WaInv, NEW t \in Callers, Cas(t)
  PROVE  WaInv'
<1> USE CallFacts, WasmAssumption DEF WaInv, Cas, AfterCancel, instVars, lifeVars, guestVars, threadVars, Goto
<1>1. WaTypes'
  <2>1. /\ activated' \in BOOLEAN /\ accepting' \in BOOLEAN /\ alive' \in BOOLEAN
        /\ slot' \in BOOLEAN /\ stopped' \in BOOLEAN
        /\ interrupt' \in BOOLEAN /\ gstopped' \in BOOLEAN
    BY Zenon DEF WaTypes
  <2>2. pc' \in [Callers -> Places]
    BY DEF WaTypes, Places, HoldsForCall, HoldsForStop, StopPlaces
  <2>3. ok' \in [Callers -> BOOLEAN] /\ cancelled' \in [Calls -> BOOLEAN]
    BY DEF WaTypes, ThreadInv, HoldsForCall
  <2>4. /\ mode' \in {"direct", "handle"} /\ life' \in Lives
        /\ holder' \in {"free", "mine", "rival"}
        /\ guard' \in {"none", "installed", "revoked"}
        /\ config' \in Updates \cup {FirstConfig}
        /\ active' \in {NoCall} \cup Calls /\ nextCall' \in 1..(MaxCalls + 1)
        /\ lockedBy' \in Callers \cup {Nobody}
        /\ call' \in [Callers -> {NoCall} \cup Calls]
        /\ op' \in [Callers -> {"none", "init", "call", "cancel", "stop"} \cup Updates]
    BY DEF WaTypes, ThreadInv, Lives
  <2> QED
    BY <2>1, <2>2, <2>3, <2>4 DEF WaTypes
<1>2. ASSUME NEW u \in Callers PROVE ThreadInv(u)'
  BY DEF WaTypes, ThreadInv, PairInv, GuestInv, LifeInv, HoldsForCall, HoldsForStop, StopPlaces, Marked, Stopping, Holding
<1>3. ASSUME NEW u \in Callers, NEW v \in Callers PROVE PairInv(u, v)'
  BY DEF WaTypes, ThreadInv, PairInv, HoldsForCall, HoldsForStop, StopPlaces, Marked, Stopping, Holding, Running
<1>4. GuestInv'
  BY DEF WaTypes, ThreadInv, PairInv, GuestInv, LifeInv, HoldsForCall, HoldsForStop, StopPlaces, Marked, Stopping, Holding
<1>5. LifeInv'
  BY DEF WaTypes, ThreadInv, GuestInv, LifeInv, HoldsForCall, HoldsForStop, StopPlaces, Stopping, Lives
<1> QED
  BY <1>1, <1>2, <1>3, <1>4, <1>5

\* The winner interrupts the engine.
LEMMA InterruptEngineKeeps ==
  ASSUME WaInv, NEW t \in Callers, InterruptEngine(t)
  PROVE  WaInv'
<1> USE CallFacts, WasmAssumption DEF WaInv, InterruptEngine, AfterCancel, instVars, lifeVars, guestVars, threadVars, Goto
<1>1. WaTypes'
  BY DEF WaTypes, Places, HoldsForCall, HoldsForStop, StopPlaces, Lives
<1>2. ASSUME NEW u \in Callers PROVE ThreadInv(u)'
  BY DEF WaTypes, ThreadInv, PairInv, GuestInv, LifeInv, HoldsForCall, HoldsForStop, StopPlaces, Marked, Stopping, Holding
<1>3. ASSUME NEW u \in Callers, NEW v \in Callers PROVE PairInv(u, v)'
  BY DEF WaTypes, ThreadInv, PairInv, HoldsForCall, HoldsForStop, StopPlaces, Marked, Stopping, Holding, Running
<1>4. GuestInv'
  BY DEF WaTypes, ThreadInv, PairInv, GuestInv, LifeInv, HoldsForCall, HoldsForStop, StopPlaces, Marked, Stopping, Holding
<1>5. LifeInv'
  BY DEF WaTypes, ThreadInv, GuestInv, LifeInv, HoldsForCall, HoldsForStop, StopPlaces, Stopping, Lives
<1> QED
  BY <1>1, <1>2, <1>3, <1>4, <1>5

\* The first stop closes the instance for new calls.
LEMMA StopBeginsKeeps ==
  ASSUME WaInv, NEW t \in Callers, StopBegins(t)
  PROVE  WaInv'
<1> USE CallFacts, WasmAssumption DEF WaInv, StopBegins, May, instVars, lifeVars, guestVars, threadVars, Goto
<1>1. WaTypes'
  <2>1. /\ activated' \in BOOLEAN /\ accepting' \in BOOLEAN /\ alive' \in BOOLEAN
        /\ slot' \in BOOLEAN /\ stopped' \in BOOLEAN
        /\ interrupt' \in BOOLEAN /\ gstopped' \in BOOLEAN
    BY Zenon DEF WaTypes
  <2>2. pc' \in [Callers -> Places]
    BY DEF WaTypes, Places, HoldsForCall, HoldsForStop, StopPlaces
  <2>3. ok' \in [Callers -> BOOLEAN] /\ cancelled' \in [Calls -> BOOLEAN]
    BY DEF WaTypes, ThreadInv, HoldsForCall
  <2>4. /\ mode' \in {"direct", "handle"} /\ life' \in Lives
        /\ holder' \in {"free", "mine", "rival"}
        /\ guard' \in {"none", "installed", "revoked"}
        /\ config' \in Updates \cup {FirstConfig}
        /\ active' \in {NoCall} \cup Calls /\ nextCall' \in 1..(MaxCalls + 1)
        /\ lockedBy' \in Callers \cup {Nobody}
        /\ call' \in [Callers -> {NoCall} \cup Calls]
        /\ op' \in [Callers -> {"none", "init", "call", "cancel", "stop"} \cup Updates]
    BY DEF WaTypes, ThreadInv, Lives
  <2> QED
    BY <2>1, <2>2, <2>3, <2>4 DEF WaTypes
<1>2. ASSUME NEW u \in Callers PROVE ThreadInv(u)'
  BY DEF WaTypes, ThreadInv, PairInv, GuestInv, LifeInv, HoldsForCall, HoldsForStop, StopPlaces, Marked, Stopping, Holding
<1>3. ASSUME NEW u \in Callers, NEW v \in Callers PROVE PairInv(u, v)'
  BY DEF WaTypes, ThreadInv, PairInv, HoldsForCall, HoldsForStop, StopPlaces, Marked, Stopping, Holding, Running
<1>4. GuestInv'
  BY DEF WaTypes, ThreadInv, PairInv, GuestInv, LifeInv, HoldsForCall, HoldsForStop, StopPlaces, Marked, Stopping, Holding
<1>5. LifeInv'
  BY DEF WaTypes, ThreadInv, GuestInv, LifeInv, HoldsForCall, HoldsForStop, StopPlaces, Stopping, Lives
<1> QED
  BY <1>1, <1>2, <1>3, <1>4, <1>5

\* stop looks up the active call: whoever has the guest is the active one.
LEMMA StopCancelsKeeps ==
  ASSUME WaInv, NEW t \in Callers, StopCancels(t)
  PROVE  WaInv'
<1> USE CallFacts, WasmAssumption DEF WaInv, StopCancels, LookUp, AfterCancel, instVars, lifeVars, guestVars, threadVars, Goto
<1>1. WaTypes'
  BY DEF WaTypes, Places, HoldsForCall, HoldsForStop, StopPlaces, Lives
<1>2. ASSUME NEW u \in Callers PROVE ThreadInv(u)'
  BY DEF WaTypes, ThreadInv, PairInv, GuestInv, LifeInv, HoldsForCall, HoldsForStop, StopPlaces, Marked, Stopping, Holding
<1>3. ASSUME NEW u \in Callers, NEW v \in Callers PROVE PairInv(u, v)'
  BY DEF WaTypes, ThreadInv, PairInv, HoldsForCall, HoldsForStop, StopPlaces, Marked, Stopping, Holding, Running
<1>4. GuestInv'
  BY DEF WaTypes, ThreadInv, PairInv, GuestInv, LifeInv, HoldsForCall, HoldsForStop, StopPlaces, Marked, Stopping, Holding
<1>5. LifeInv'
  BY DEF WaTypes, ThreadInv, GuestInv, LifeInv, HoldsForCall, HoldsForStop, StopPlaces, Stopping, Lives
<1> QED
  BY <1>1, <1>2, <1>3, <1>4, <1>5

\* stop takes the guest or sleeps for it.
LEMMA StopEnterKeeps ==
  ASSUME WaInv, NEW t \in Callers, StopEnter(t)
  PROVE  WaInv'
<1> USE CallFacts, WasmAssumption DEF WaInv, StopEnter, StopTakes, instVars, lifeVars, guestVars, threadVars, Goto
<1>1. WaTypes'
  <2>1. /\ activated' \in BOOLEAN /\ accepting' \in BOOLEAN /\ alive' \in BOOLEAN
        /\ slot' \in BOOLEAN /\ stopped' \in BOOLEAN
        /\ interrupt' \in BOOLEAN /\ gstopped' \in BOOLEAN
    BY Zenon DEF WaTypes
  <2>2. pc' \in [Callers -> Places]
    BY DEF WaTypes, Places, HoldsForCall, HoldsForStop, StopPlaces
  <2>3. ok' \in [Callers -> BOOLEAN] /\ cancelled' \in [Calls -> BOOLEAN]
    BY DEF WaTypes, ThreadInv, HoldsForCall
  <2>4. /\ mode' \in {"direct", "handle"} /\ life' \in Lives
        /\ holder' \in {"free", "mine", "rival"}
        /\ guard' \in {"none", "installed", "revoked"}
        /\ config' \in Updates \cup {FirstConfig}
        /\ active' \in {NoCall} \cup Calls /\ nextCall' \in 1..(MaxCalls + 1)
        /\ lockedBy' \in Callers \cup {Nobody}
        /\ call' \in [Callers -> {NoCall} \cup Calls]
        /\ op' \in [Callers -> {"none", "init", "call", "cancel", "stop"} \cup Updates]
    BY DEF WaTypes, ThreadInv, Lives
  <2> QED
    BY <2>1, <2>2, <2>3, <2>4 DEF WaTypes
<1>2. ASSUME NEW u \in Callers PROVE ThreadInv(u)'
  BY DEF WaTypes, ThreadInv, PairInv, GuestInv, LifeInv, HoldsForCall, HoldsForStop, StopPlaces, Marked, Stopping, Holding
<1>3. ASSUME NEW u \in Callers, NEW v \in Callers PROVE PairInv(u, v)'
  BY DEF WaTypes, ThreadInv, PairInv, HoldsForCall, HoldsForStop, StopPlaces, Marked, Stopping, Holding, Running
<1>4. GuestInv'
  BY DEF WaTypes, ThreadInv, PairInv, GuestInv, LifeInv, HoldsForCall, HoldsForStop, StopPlaces, Marked, Stopping, Holding
<1>5. LifeInv'
  BY DEF WaTypes, ThreadInv, GuestInv, LifeInv, HoldsForCall, HoldsForStop, StopPlaces, Stopping, Lives
<1> QED
  BY <1>1, <1>2, <1>3, <1>4, <1>5

\* The stop export of the guest returns.
LEMMA StopReturnsKeeps ==
  ASSUME WaInv, NEW t \in Callers, StopReturns(t)
  PROVE  WaInv'
<1> USE CallFacts, WasmAssumption DEF WaInv, StopReturns, Kept, instVars, lifeVars, guestVars, threadVars, Goto
<1>1. WaTypes'
  <2>1. /\ activated' \in BOOLEAN /\ accepting' \in BOOLEAN /\ alive' \in BOOLEAN
        /\ slot' \in BOOLEAN /\ stopped' \in BOOLEAN
        /\ interrupt' \in BOOLEAN /\ gstopped' \in BOOLEAN
    BY Zenon DEF WaTypes
  <2>2. pc' \in [Callers -> Places]
    BY DEF WaTypes, Places, HoldsForCall, HoldsForStop, StopPlaces
  <2>3. ok' \in [Callers -> BOOLEAN] /\ cancelled' \in [Calls -> BOOLEAN]
    BY DEF WaTypes, ThreadInv, HoldsForCall
  <2>4. /\ mode' \in {"direct", "handle"} /\ life' \in Lives
        /\ holder' \in {"free", "mine", "rival"}
        /\ guard' \in {"none", "installed", "revoked"}
        /\ config' \in Updates \cup {FirstConfig}
        /\ active' \in {NoCall} \cup Calls /\ nextCall' \in 1..(MaxCalls + 1)
        /\ lockedBy' \in Callers \cup {Nobody}
        /\ call' \in [Callers -> {NoCall} \cup Calls]
        /\ op' \in [Callers -> {"none", "init", "call", "cancel", "stop"} \cup Updates]
    BY DEF WaTypes, ThreadInv, Lives
  <2> QED
    BY <2>1, <2>2, <2>3, <2>4 DEF WaTypes
<1>2. ASSUME NEW u \in Callers PROVE ThreadInv(u)'
  BY DEF WaTypes, ThreadInv, PairInv, GuestInv, LifeInv, HoldsForCall, HoldsForStop, StopPlaces, Marked, Stopping, Holding
<1>3. ASSUME NEW u \in Callers, NEW v \in Callers PROVE PairInv(u, v)'
  BY DEF WaTypes, ThreadInv, PairInv, HoldsForCall, HoldsForStop, StopPlaces, Marked, Stopping, Holding, Running
<1>4. GuestInv'
  BY DEF WaTypes, ThreadInv, PairInv, GuestInv, LifeInv, HoldsForCall, HoldsForStop, StopPlaces, Marked, Stopping, Holding
<1>5. LifeInv'
  BY DEF WaTypes, ThreadInv, GuestInv, LifeInv, HoldsForCall, HoldsForStop, StopPlaces, Stopping, Lives
<1> QED
  BY <1>1, <1>2, <1>3, <1>4, <1>5

\* stop drops the guest and the bindings die.
LEMMA StopDropsKeeps ==
  ASSUME WaInv, NEW t \in Callers, StopDrops(t)
  PROVE  WaInv'
<1> USE CallFacts, WasmAssumption DEF WaInv, StopDrops, Wake, NotifyAll, Awake, BindingsAfterStop, instVars, lifeVars, guestVars, threadVars, Goto
<1>1. WaTypes'
  <2>1. /\ activated' \in BOOLEAN /\ accepting' \in BOOLEAN /\ alive' \in BOOLEAN
        /\ slot' \in BOOLEAN /\ stopped' \in BOOLEAN
        /\ interrupt' \in BOOLEAN /\ gstopped' \in BOOLEAN
    BY Zenon DEF WaTypes
  <2>2. pc' \in [Callers -> Places]
    BY DEF WaTypes, Places, HoldsForCall, HoldsForStop, StopPlaces
  <2>3. ok' \in [Callers -> BOOLEAN] /\ cancelled' \in [Calls -> BOOLEAN]
    BY DEF WaTypes, ThreadInv, HoldsForCall
  <2>4. /\ mode' \in {"direct", "handle"} /\ life' \in Lives
        /\ holder' \in {"free", "mine", "rival"}
        /\ guard' \in {"none", "installed", "revoked"}
        /\ config' \in Updates \cup {FirstConfig}
        /\ active' \in {NoCall} \cup Calls /\ nextCall' \in 1..(MaxCalls + 1)
        /\ lockedBy' \in Callers \cup {Nobody}
        /\ call' \in [Callers -> {NoCall} \cup Calls]
        /\ op' \in [Callers -> {"none", "init", "call", "cancel", "stop"} \cup Updates]
    BY DEF WaTypes, ThreadInv, Lives
  <2> QED
    BY <2>1, <2>2, <2>3, <2>4 DEF WaTypes
<1>2. ASSUME NEW u \in Callers PROVE ThreadInv(u)'
  BY DEF WaTypes, ThreadInv, PairInv, GuestInv, LifeInv, HoldsForCall, HoldsForStop, StopPlaces, Marked, Stopping, Holding
<1>3. ASSUME NEW u \in Callers, NEW v \in Callers PROVE PairInv(u, v)'
  BY DEF WaTypes, ThreadInv, PairInv, HoldsForCall, HoldsForStop, StopPlaces, Marked, Stopping, Holding, Running
<1>4. GuestInv'
  BY DEF WaTypes, ThreadInv, PairInv, GuestInv, LifeInv, HoldsForCall, HoldsForStop, StopPlaces, Marked, Stopping, Holding
<1>5. LifeInv'
  BY DEF WaTypes, ThreadInv, GuestInv, LifeInv, HoldsForCall, HoldsForStop, StopPlaces, Stopping, Lives
<1> QED
  BY <1>1, <1>2, <1>3, <1>4, <1>5

\* The guard of a handle is drained and revoked.
LEMMA DrainGuardKeeps ==
  ASSUME WaInv, NEW t \in Callers, DrainGuard(t)
  PROVE  WaInv'
<1> USE CallFacts, WasmAssumption DEF WaInv, DrainGuard, instVars, lifeVars, guestVars, threadVars, Goto
<1>1. WaTypes'
  BY DEF WaTypes, Places, HoldsForCall, HoldsForStop, StopPlaces, Lives
<1>2. ASSUME NEW u \in Callers PROVE ThreadInv(u)'
  BY DEF WaTypes, ThreadInv, PairInv, GuestInv, LifeInv, HoldsForCall, HoldsForStop, StopPlaces, Marked, Stopping, Holding
<1>3. ASSUME NEW u \in Callers, NEW v \in Callers PROVE PairInv(u, v)'
  BY DEF WaTypes, ThreadInv, PairInv, HoldsForCall, HoldsForStop, StopPlaces, Marked, Stopping, Holding, Running
<1>4. GuestInv'
  BY DEF WaTypes, ThreadInv, PairInv, GuestInv, LifeInv, HoldsForCall, HoldsForStop, StopPlaces, Marked, Stopping, Holding
<1>5. LifeInv'
  BY DEF WaTypes, ThreadInv, GuestInv, LifeInv, HoldsForCall, HoldsForStop, StopPlaces, Stopping, Lives
<1> QED
  BY <1>1, <1>2, <1>3, <1>4, <1>5

\* A thread returns to its caller.
LEMMA ReturnKeeps ==
  ASSUME WaInv, NEW t \in Callers, Return(t)
  PROVE  WaInv'
<1> USE CallFacts, WasmAssumption DEF WaInv, Return, instVars, lifeVars, guestVars, threadVars, Goto
<1>1. WaTypes'
  BY DEF WaTypes, Places, HoldsForCall, HoldsForStop, StopPlaces, Lives
<1>2. ASSUME NEW u \in Callers PROVE ThreadInv(u)'
  BY DEF WaTypes, ThreadInv, PairInv, GuestInv, LifeInv, HoldsForCall, HoldsForStop, StopPlaces, Marked, Stopping, Holding
<1>3. ASSUME NEW u \in Callers, NEW v \in Callers PROVE PairInv(u, v)'
  BY DEF WaTypes, ThreadInv, PairInv, HoldsForCall, HoldsForStop, StopPlaces, Marked, Stopping, Holding, Running
<1>4. GuestInv'
  BY DEF WaTypes, ThreadInv, PairInv, GuestInv, LifeInv, HoldsForCall, HoldsForStop, StopPlaces, Marked, Stopping, Holding
<1>5. LifeInv'
  BY DEF WaTypes, ThreadInv, GuestInv, LifeInv, HoldsForCall, HoldsForStop, StopPlaces, Stopping, Lives
<1> QED
  BY <1>1, <1>2, <1>3, <1>4, <1>5

\* Every step of a thread and of the life of the instance keeps the invariant.
LEMMA StepWaInv == WaInv /\ [WaNext]_wvars => WaInv'
<1> SUFFICES ASSUME WaInv, [WaNext]_wvars PROVE WaInv'
  OBVIOUS
<1>1. CASE Lifecycle
  BY <1>1, AllocateKeeps, InstallKeeps, BindKeeps, BuildKeeps, BuildFailsKeeps, DropKeeps,
     RevokeGuardKeeps, ReleaseIdKeeps, DropGuestKeeps, RivalReservesKeeps DEF Lifecycle
<1>2. ASSUME NEW t \in Callers, NEW what \in {"init", "call"} \cup Updates,
             Invoke(t, what)
      PROVE  WaInv'
  BY <1>2, InvokeKeeps
<1>3. ASSUME NEW t \in Callers, CancelCurrent(t) \/ StopBegins(t) \/ HostCall(t)
      PROVE  WaInv'
  BY <1>3, CancelCurrentKeeps, StopBeginsKeeps, HostCallKeeps
<1>4. ASSUME NEW t \in Callers, Step(t) PROVE WaInv'
  <2>1. CASE \/ Sleep(t) \/ EnterRefused(t) \/ TakeGuest(t) \/ SetActive(t)
             \/ Recheck(t) \/ Begin(t) \/ HostReturns(t) \/ ClearActive(t)
             \/ PutBack(t) \/ Notify(t)
    BY <2>1, SleepKeeps, EnterRefusedKeeps, TakeGuestKeeps, SetActiveKeeps,
       RecheckKeeps, BeginKeeps, HostReturnsKeeps, ClearActiveKeeps,
       PutBackKeeps, NotifyKeeps
  <2>2. CASE \/ CommitConfig(t) \/ Cas(t) \/ InterruptEngine(t) \/ StopCancels(t)
             \/ StopEnter(t) \/ StopReturns(t) \/ StopDrops(t) \/ DrainGuard(t)
             \/ Return(t)
    BY <2>2, CommitConfigKeeps, CasKeeps, InterruptEngineKeeps, StopCancelsKeeps,
       StopEnterKeeps, StopReturnsKeeps, StopDropsKeeps, DrainGuardKeeps, ReturnKeeps
  <2>3. CASE \E good \in BOOLEAN : GuestReturns(t, good)
    BY <2>3, GuestReturnsKeeps
  <2> QED
    BY <1>4, <2>1, <2>2, <2>3 DEF Step
<1>5. CASE UNCHANGED wvars
  BY <1>5 DEF wvars, instVars, lifeVars, guestVars, threadVars, WaInv, WaTypes,
     ThreadInv, PairInv, GuestInv, LifeInv, Stopping
<1> QED
  BY <1>1, <1>2, <1>3, <1>4, <1>5 DEF WaNext

\* In every state of every run, with any number of threads and calls, each
\* thread is where its view of the guest allows.
THEOREM WasmInvariance == WaFairSpec => []WaInv
BY InitWaInv, StepWaInv, PTL DEF WaFairSpec

\* The guest is in its slot or with exactly one thread, and it is gone only
\* with the instance or after its stop.
LEMMA OneHolder == WaInv => GuestIsHeldOnce
<1> SUFFICES ASSUME WaInv PROVE GuestIsHeldOnce
  OBVIOUS
<1> DEFINE Away == slot \/ life # "live" \/ (stopped /\ ~alive)
<1>1. CASE Away
  <2>1. Holders = {}
    BY <1>1 DEF WaInv, WaTypes, ThreadInv, Holders, Holding, HoldsForCall, HoldsForStop
  <2> QED
    BY <1>1, <2>1, FS_EmptySet DEF WaInv, GuestInv, GuestIsHeldOnce, Holders, Marked, Holding
<1>2. CASE ~Away
  <2>1. PICK t \in Callers : pc[t] \in Holding
    BY <1>2 DEF WaInv, GuestInv
  <2>2. Holders = {t}
    BY <2>1 DEF WaInv, PairInv, Holders
  <2>3. Cardinality(Holders) = 1
    BY <2>2, FS_Singleton
  <2> QED
    BY <1>2, <2>3 DEF WaInv, GuestInv, GuestIsHeldOnce, Holders, Marked, Holding
<1> QED
  BY <1>1, <1>2

\* However calls, cancellations and stop interleave, they share one guest, and
\* its stop export is the last thing it does.
THEOREM OneGuest == WaFairSpec => []WasmInv
<1>1. WaInv => WaTypeOK
  BY DEF WaInv, WaTypes, WaTypeOK
<1>2. WaInv => StopIsLast
  BY DEF WaInv, WaTypes, ThreadInv, PairInv, GuestInv, StopIsLast, InGuest, Running,
     HoldsForCall, HoldsForStop, Holding
<1>3. WaInv => WasmInv
  BY <1>1, <1>2, OneHolder DEF WasmInv
<1> QED
  BY <1>3, WasmInvariance, PTL

\* No call slips past a stop: TakeGuest, SetActive and the second look at
\* accepting leave no order in which stop misses a call and then waits for it.
THEOREM NoCallSlipsPast == WaFairSpec => []StopIsPrompt
<1>1. WaInv => StopIsPrompt
  BY DEF WaInv, PairInv, StopIsPrompt
<1> QED
  BY <1>1, WasmInvariance, PTL

\* An id is free for another instance only when no guest of this one can use
\* it any more: after a build that failed there is none, and after a drop the
\* bindings are dead although the guest is still to be dropped.
THEOREM IdIsReleasedLast == WaFairSpec => []IdOutlivesUse
<1>1. ASSUME WaInv, holder # "mine"
      PROVE  ~(alive /\ GuestExists) /\ guard # "installed"
  <2>1. life \in {"none", "gone"} /\ (~alive \/ ~slot) /\ guard # "installed"
    BY <1>1 DEF WaInv, LifeInv
  <2>2. Holders = {}
    BY <1>1, <2>1 DEF WaInv, ThreadInv, Holders, Holding
  <2> QED
    BY <2>1, <2>2 DEF GuestExists
<1>2. WaInv => IdOutlivesUse
  BY <1>1 DEF IdOutlivesUse
<1> QED
  BY <1>2, WasmInvariance, PTL

=============================================================================
