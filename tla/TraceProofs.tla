---------------------------- MODULE TraceProofs ----------------------------
(***************************************************************************)
(* Theorems about Trace, for any number of emitters, controllers, sessions *)
(* and events.                                                             *)
(***************************************************************************)
EXTENDS Trace, SequenceTheorems, TLAPS

\* What the ring buffer's capacity is.
LEMMA RingCapPositive == RingCap \in Nat \ {0}
BY TraceAssumption DEF RingCap

\* Push never outgrows the capacity and keeps the element type.
LEMMA PushType ==
  ASSUME NEW S, NEW b \in Seq(S), NEW n \in S, Len(b) <= RingCap
  PROVE  Push(b, n) \in Seq(S) /\ Len(Push(b, n)) <= RingCap
<1> USE RingCapPositive
<1>1. CASE Len(b) = RingCap
  <2>1. b # <<>>  BY <1>1
  <2>2. Tail(b) \in Seq(S) /\ Len(Tail(b)) = Len(b) - 1  BY <2>1
  <2>3. QED BY <1>1, <2>2 DEF Push
<1>2. CASE Len(b) # RingCap
  BY <1>2 DEF Push
<1>3. QED BY <1>1, <1>2

----------------------------------------------------------------------------
(***************************************************************************)
(* The state stays well typed; in particular no ring buffer ever exceeds   *)
(* its capacity.                                                           *)
(***************************************************************************)
THEOREM TypeCorrect == Spec => []TypeOK
<1> USE TraceAssumption DEF Threads, SessionIds, Places, emitVars, sinkVars, ctlVars
<1>0. NoNumber \in Number  BY DEF NoNumber, Number
<1>1. Init => TypeOK
  <2> SUFFICES ASSUME Init PROVE TypeOK  OBVIOUS
  <2>1. \A s \in SessionIds : buf[s] = <<>> /\ Len(buf[s]) <= RingCap
    BY RingCapPositive DEF Init
  <2>2. 0 \in 0 .. MaxEmits /\ sessions \in Seq(Filters) /\ Len(sessions) <= MaxSessions
    BY DEF Init
  <2>3. /\ buf \in [SessionIds -> Seq(Number)]
        /\ stream \in [SessionIds -> Seq(Number)]
    BY DEF Init
  <2>4. /\ pc \in [Threads -> Places] /\ ev \in [Emitters -> Events \cup {None}]
        /\ held \in [Emitters -> SessionIds \cup {None}]
        /\ num \in [Emitters -> Number]
        /\ mine \in [Controllers -> SessionIds \cup {None}]
    BY <1>0 DEF Init
  <2>5. QED BY <2>1, <2>2, <2>3, <2>4 DEF Init, TypeOK
<1>2. TypeOK /\ [Next]_vars => TypeOK'
  <2> SUFFICES ASSUME TypeOK, [Next]_vars PROVE TypeOK'  OBVIOUS
  <2>0. RingCap' = RingCap  BY DEF RingCap
  <2> USE <2>0 DEF TypeOK
  <2>1. ASSUME NEW t \in Emitters, NEW e \in Events, EmitCheck(t, e) PROVE TypeOK'
    <3>1. calls' \in 0 .. MaxEmits  BY <2>1 DEF EmitCheck
    <3>2. CASE enabled
      <4>1. pc' \in [Threads -> Places]  BY <2>1, <3>2 DEF EmitCheck, Goto
      <4>2. ev' \in [Emitters -> Events \cup {None}]  BY <2>1, <3>2 DEF EmitCheck
      <4>3. QED BY <2>1, <3>1, <4>1, <4>2 DEF EmitCheck
    <3>3. CASE ~enabled
      BY <2>1, <3>1, <3>3 DEF EmitCheck
    <3>4. QED BY <3>2, <3>3
  <2>2. ASSUME NEW t \in Emitters, EmitLock(t) PROVE TypeOK'
    <3>1. CASE Recorded(t)
      BY <2>2, <3>1 DEF EmitLock, Proceed, Goto
    <3>2. CASE ~Recorded(t)
      <4>1. pc' \in [Threads -> Places] /\ ev' \in [Emitters -> Events \cup {None}]
        BY <2>2, <3>2 DEF EmitLock, Return, Goto
      <4>2. held' \in [Emitters -> SessionIds \cup {None}]
        BY <2>2, <3>2 DEF EmitLock, Return
      <4>3. num' = [num EXCEPT ![t] = NoNumber]
        BY <2>2, <3>2 DEF EmitLock, Return
      <4>4. num' \in [Emitters -> Number]
        BY <1>0, <4>3
      <4>5. QED BY <2>2, <3>2, <4>1, <4>2, <4>4 DEF EmitLock
    <3>3. QED BY <3>1, <3>2
  <2>3. ASSUME NEW t \in Emitters, EmitFetch(t) PROVE TypeOK'
    <3>1. [seq |-> seq, epoch |-> epoch] \in Number  BY DEF Number
    <3>2. num' \in [Emitters -> Number]  BY <2>3, <3>1 DEF EmitFetch
    <3>3. QED BY <2>3, <3>2 DEF EmitFetch, Goto
  <2>4. ASSUME NEW t \in Emitters, EmitDeliver(t) PROVE TypeOK'
    <3>1. num[t] \in Number  OBVIOUS
    <3>2. \A s \in SessionIds : /\ Append(stream[s], num[t]) \in Seq(Number)
                                /\ Push(buf[s], num[t]) \in Seq(Number)
                                /\ Len(Push(buf[s], num[t])) <= RingCap
      BY <3>1, PushType
    <3>3. stream' \in [SessionIds -> Seq(Number)]
      BY <2>4, <3>2 DEF EmitDeliver
    <3>4. /\ buf' \in [SessionIds -> Seq(Number)]
          /\ \A s \in SessionIds : Len(buf'[s]) <= RingCap'
      BY <2>4, <3>2 DEF EmitDeliver, RingCap
    <3>5. /\ pc' \in [Threads -> Places] /\ ev' \in [Emitters -> Events \cup {None}]
          /\ held' \in [Emitters -> SessionIds \cup {None}]
          /\ num' \in [Emitters -> Number]
      BY <1>0, <2>4 DEF EmitDeliver, Return, Goto
    <3>6. QED BY <2>4, <3>3, <3>4, <3>5 DEF EmitDeliver
  <2>5. ASSUME NEW t \in Emitters, EmitPanic(t) PROVE TypeOK'
    BY <2>5 DEF EmitPanic, Goto
  <2>6. ASSUME NEW c \in Controllers, NEW f \in Filters, SetReset(c, f) PROVE TypeOK'
    <3>1. /\ Len(sessions) + 1 \in SessionIds
          /\ sessions' \in Seq(Filters) /\ Len(sessions') <= MaxSessions
      BY <2>6 DEF SetReset
    <3>2. mine' \in [Controllers -> SessionIds \cup {None}]
      BY <2>6, <3>1 DEF SetReset
    <3>3. quiet' \in SUBSET SessionIds  BY <2>6, <3>1 DEF SetReset
    <3>4. pc' \in [Threads -> Places] /\ seq' \in Nat /\ epoch' \in Nat
      BY <2>6 DEF SetReset, Goto
    <3>5. QED BY <2>6, <3>1, <3>2, <3>3, <3>4 DEF SetReset
  <2>7. ASSUME NEW c \in Controllers, ClearDisable(c) \/ ControlStep(c) PROVE TypeOK'
    BY <2>7 DEF ClearDisable, ControlStep, SetInstall, SetEnable, ClearDrop, Goto
  <2>8. ASSUME NEW t \in Threads, LockPoisoned(t) PROVE TypeOK'
    BY <2>8 DEF LockPoisoned, Goto
  <2>9. CASE UNCHANGED vars
    BY <2>9 DEF vars, RingCap
  <2>10. QED
    BY <2>1, <2>2, <2>3, <2>4, <2>5, <2>6, <2>7, <2>8, <2>9 DEF Next, EmitStep, Terminated
<1>3. QED BY <1>1, <1>2, PTL DEF Spec

----------------------------------------------------------------------------
(***************************************************************************)
(* However set_session and clear_session calls interleave, an installed    *)
(* session is enabled once the calls have returned.  The invariant is      *)
(* inductive given the type of pc alone: only a controller between its two *)
(* writes can find the session installed and the flag down.                *)
(***************************************************************************)
THEOREM SwitchSafe == Spec => []InstalledIsEnabled
<1>1. Init => InstalledIsEnabled
  BY DEF Init, InstalledIsEnabled
<1>2. TypeOK /\ InstalledIsEnabled /\ [Next]_vars => InstalledIsEnabled'
  <2> SUFFICES ASSUME TypeOK, InstalledIsEnabled, [Next]_vars,
                      cell' # None, ~enabled', ~poisoned'
               PROVE  \E c \in Controllers : pc'[c] \in {"enable", "drop"}
    BY DEF InstalledIsEnabled
  <2> USE DEF TypeOK, InstalledIsEnabled, Goto, emitVars, sinkVars, ctlVars
  <2>0. \A t \in Emitters : t \in Threads /\ t \notin Controllers
    BY TraceAssumption DEF Threads
  <2>1. ASSUME NEW t \in Emitters, (\E e \in Events : EmitCheck(t, e)) \/ EmitStep(t)
        PROVE  \E c \in Controllers : pc'[c] \in {"enable", "drop"}
    <3>1. UNCHANGED <<cell, enabled>> /\ (poisoned => poisoned')
      BY <2>1 DEF EmitCheck, EmitStep, EmitLock, EmitFetch, EmitDeliver, EmitPanic
    <3>2. UNCHANGED pc \/ \E place \in Places : pc' = [pc EXCEPT ![t] = place]
      <4>1. ASSUME NEW e \in Events, EmitCheck(t, e) PROVE  UNCHANGED pc \/ \E place \in Places : pc' = [pc EXCEPT ![t] = place]
        BY <4>1 DEF EmitCheck, Places
      <4>2. CASE EmitLock(t)
        BY <4>2 DEF EmitLock, Return, Proceed, Places
      <4>3. CASE EmitFetch(t) \/ EmitDeliver(t) \/ EmitPanic(t)
        BY <4>3 DEF EmitFetch, EmitDeliver, EmitPanic, Return, Places
      <4>4. QED BY <2>1, <4>1, <4>2, <4>3 DEF EmitStep
    <3>3. ASSUME NEW c \in Controllers PROVE pc'[c] = pc[c]
      <4>1. c # t /\ c \in Threads  BY <2>0 DEF Threads
      <4>2. QED BY <3>2, <4>1
    <3>4. QED BY <3>1, <3>3
  <2>2. ASSUME NEW c \in Controllers, NEW f \in Filters, SetReset(c, f)
        PROVE  \E d \in Controllers : pc'[d] \in {"enable", "drop"}
    BY <2>2 DEF SetReset, Threads
  <2>3. ASSUME NEW c \in Controllers, ClearDisable(c)
        PROVE  \E d \in Controllers : pc'[d] \in {"enable", "drop"}
    BY <2>3 DEF ClearDisable, Threads
  <2>4. ASSUME NEW c \in Controllers, ControlStep(c)
        PROVE  \E d \in Controllers : pc'[d] \in {"enable", "drop"}
    BY <2>4 DEF ControlStep, SetInstall, SetEnable, ClearDrop, Threads
  <2>5. ASSUME NEW t \in Threads, LockPoisoned(t)
        PROVE  \E d \in Controllers : pc'[d] \in {"enable", "drop"}
    BY <2>5 DEF LockPoisoned
  <2>6. CASE UNCHANGED vars
    BY <2>6 DEF vars
  <2>7. QED
    BY <2>1, <2>2, <2>3, <2>4, <2>5, <2>6 DEF Next, Terminated
<1>3. QED BY <1>1, <1>2, TypeCorrect, PTL DEF Spec

----------------------------------------------------------------------------
(***************************************************************************)
(* Numbers.  An emitter holds the mutex from the moment it found a session *)
(* until it has delivered, so at most one number is out at a time; and the *)
(* numbers delivered in the current epoch are below SEQ.                   *)
(***************************************************************************)
MutexInv ==
  \A t \in Emitters : pc[t] \in {"fetch", "deliver"} => lock = t

\* n was taken no later than now, and before the number SEQ holds.
Taken(n) == n.epoch <= epoch /\ (n.epoch = epoch => n.seq < seq)

\* m precedes n if they belong to one epoch.
Precedes(m, n) == m.epoch = n.epoch => m.seq < n.seq

NumberInv ==
  /\ \A s \in SessionIds : \A i \in DOMAIN stream[s] : Taken(stream[s][i])
  /\ \A t \in Emitters : pc[t] = "deliver" =>
       /\ Taken(num[t])
       /\ \A s \in SessionIds : \A i \in DOMAIN stream[s] : Precedes(stream[s][i], num[t])
  /\ NumbersOrdered

LEMMA MutexHolds == Spec => []MutexInv
<1>1. Init => MutexInv
  BY DEF Init, MutexInv, Threads
<1>2. TypeOK /\ MutexInv /\ [Next]_vars => MutexInv'
  <2> SUFFICES ASSUME TypeOK, MutexInv, [Next]_vars,
                      NEW u \in Emitters, pc'[u] \in {"fetch", "deliver"}
               PROVE  lock' = u
    BY DEF MutexInv
  <2> USE DEF MutexInv, Goto
  <2>0. pc \in [Threads -> Places] /\ u \in Threads /\ u # Free /\ u \notin Controllers
    BY TraceAssumption DEF TypeOK, Threads
  <2>1. ASSUME NEW t \in Emitters, NEW e \in Events, EmitCheck(t, e) PROVE lock' = u
    BY <2>0, <2>1 DEF EmitCheck
  <2>2. ASSUME NEW t \in Emitters, EmitLock(t) PROVE lock' = u
    BY <2>0, <2>2 DEF EmitLock, Return, Proceed
  <2>3. ASSUME NEW t \in Emitters, EmitFetch(t) PROVE lock' = u
    BY <2>0, <2>3 DEF EmitFetch
  <2>4. ASSUME NEW t \in Emitters, EmitDeliver(t) \/ EmitPanic(t) PROVE lock' = u
    BY <2>0, <2>4 DEF EmitDeliver, EmitPanic, Return
  <2>5. ASSUME NEW c \in Controllers,
               (\E f \in Filters : SetReset(c, f)) \/ ClearDisable(c) \/ ControlStep(c)
        PROVE  lock' = u
    BY <2>0, <2>5 DEF SetReset, ClearDisable, ControlStep, SetInstall, SetEnable, ClearDrop
  <2>6. ASSUME NEW t \in Threads, LockPoisoned(t) PROVE lock' = u
    BY <2>0, <2>6 DEF LockPoisoned
  <2>7. CASE UNCHANGED vars
    BY <2>7 DEF vars
  <2>8. QED
    BY <2>1, <2>2, <2>3, <2>4, <2>5, <2>6, <2>7 DEF Next, EmitStep, Terminated
<1>3. QED BY <1>1, <1>2, TypeCorrect, PTL DEF Spec

\* Appending to one session's stream adds one entry and keeps the others.
LEMMA AppendedEntries ==
  ASSUME TypeOK, NEW t \in Emitters,
         stream' = [stream EXCEPT ![held[t]] = Append(@, num[t])],
         NEW s \in SessionIds, NEW i \in DOMAIN stream'[s]
  PROVE  \/ i \in DOMAIN stream[s] /\ stream'[s][i] = stream[s][i]
         \/ s = held[t] /\ i = Len(stream[s]) + 1 /\ stream'[s][i] = num[t]
<1>1. num[t] \in Number /\ stream \in [SessionIds -> Seq(Number)]
  BY DEF TypeOK
<1>2. CASE s = held[t]
  <2>1. stream'[s] = Append(stream[s], num[t])  BY <1>1, <1>2
  <2>2. QED BY <1>1, <1>2, <2>1
<1>3. CASE s # held[t]
  BY <1>1, <1>3
<1>4. QED BY <1>2, <1>3

(***************************************************************************)
(* No number is delivered twice between two resets, and each session's     *)
(* numbers increase, for any number of threads and sessions.               *)
(***************************************************************************)
THEOREM NumbersSafe == Spec => []NumbersOrdered
<1>1. Init => NumberInv
  BY DEF Init, NumberInv, NumbersOrdered, Threads
<1>2. TypeOK /\ MutexInv /\ NumberInv /\ [Next]_vars => NumberInv'
  <2> SUFFICES ASSUME TypeOK, MutexInv, NumberInv, [Next]_vars PROVE NumberInv'
    OBVIOUS
  <2> USE DEF NumberInv
  <2>0. /\ pc \in [Threads -> Places] /\ num \in [Emitters -> Number]
        /\ stream \in [SessionIds -> Seq(Number)] /\ seq \in Nat /\ epoch \in Nat
        /\ \A t \in Emitters : t \in Threads /\ t \notin Controllers
    BY TraceAssumption DEF TypeOK, Threads
  <2>a. \A s \in SessionIds : \A i \in DOMAIN stream[s] : stream[s][i] \in Number
    BY <2>0
  <2>1. ASSUME UNCHANGED <<stream, seq, epoch, num>>,
               \A t \in Emitters : pc'[t] = "deliver" => pc[t] = "deliver"
        PROVE  NumberInv'
    BY <2>1 DEF NumbersOrdered, Taken, Precedes
  <2>2. ASSUME NEW t \in Emitters, EmitFetch(t) PROVE NumberInv'
    <3>1. /\ UNCHANGED <<stream, epoch>> /\ seq' = seq + 1
          /\ num' = [num EXCEPT ![t] = [seq |-> seq, epoch |-> epoch]]
          /\ pc' = [pc EXCEPT ![t] = "deliver"]
      BY <2>2 DEF EmitFetch, sinkVars, ctlVars, Goto
    <3>2. \A s \in SessionIds : \A i \in DOMAIN stream'[s] : Taken(stream[s][i])'
      BY <2>0, <2>a, <3>1 DEF Taken, Number
    <3>3. ASSUME NEW u \in Emitters, pc'[u] = "deliver"
          PROVE  /\ Taken(num[u])'
                 /\ \A s \in SessionIds : \A i \in DOMAIN stream'[s] :
                      Precedes(stream'[s][i], num'[u])
      <4>1. lock = t  BY <2>2 DEF EmitFetch, MutexInv
      <4>2. u = t  BY <2>0, <3>1, <3>3, <4>1 DEF MutexInv
      <4>3. num'[u] = [seq |-> seq, epoch |-> epoch]  BY <2>0, <3>1, <4>2
      <4>4. QED BY <2>0, <2>a, <3>1, <4>3 DEF Taken, Precedes, Number
    <3>4. NumbersOrdered'  BY <3>1 DEF NumbersOrdered
    <3>5. QED BY <3>2, <3>3, <3>4
  <2>3. ASSUME NEW t \in Emitters, EmitDeliver(t) PROVE NumberInv'
    <3>1. /\ UNCHANGED <<seq, epoch>> /\ pc' = [pc EXCEPT ![t] = "idle"]
          /\ stream' = [stream EXCEPT ![held[t]] = Append(@, num[t])]
      BY <2>3 DEF EmitDeliver, ctlVars, Return, Goto
    <3>2. pc[t] = "deliver" /\ lock = t  BY <2>3 DEF EmitDeliver, MutexInv
    <3>3. \A u \in Emitters : pc'[u] # "deliver"
      BY <2>0, <3>1, <3>2 DEF MutexInv
    <3>4. \A s \in SessionIds : \A i \in DOMAIN stream'[s] :
            \/ i \in DOMAIN stream[s] /\ stream'[s][i] = stream[s][i]
            \/ s = held[t] /\ i = Len(stream[s]) + 1 /\ stream'[s][i] = num[t]
      BY <3>1, AppendedEntries
    <3>5. \A s \in SessionIds : \A i \in DOMAIN stream'[s] : Taken(stream[s][i])'
      BY <3>1, <3>2, <3>4 DEF Taken
    <3>6. \A s \in SessionIds : \A i \in DOMAIN stream[s] :
            i \in 1 .. Len(stream[s]) /\ Precedes(stream[s][i], num[t])
      BY <2>0, <3>2
    <3>7. num[t].seq \in Nat /\ \A s \in SessionIds : \A i \in DOMAIN stream[s] :
            stream[s][i].seq \in Nat
      BY <2>0, <2>a DEF Number
    <3>8. NumbersOrdered'
      <4> SUFFICES ASSUME NEW s \in SessionIds, NEW u \in SessionIds,
                          NEW i \in DOMAIN stream'[s], NEW j \in DOMAIN stream'[u],
                          stream'[s][i].epoch = stream'[u][j].epoch
                   PROVE  /\ stream'[s][i].seq = stream'[u][j].seq => s = u /\ i = j
                          /\ s = u /\ i < j => stream'[s][i].seq < stream'[u][j].seq
        BY DEF NumbersOrdered
      <4>1. CASE i \in DOMAIN stream[s] /\ j \in DOMAIN stream[u]
        <5>1. i \in 1 .. Len(stream[s]) /\ j \in 1 .. Len(stream[u])
          BY <2>0, <4>1
        <5>2. i # Len(stream[s]) + 1 /\ j # Len(stream[u]) + 1
          BY <2>0, <5>1
        <5>3. stream'[s][i] = stream[s][i] /\ stream'[u][j] = stream[u][j]
          BY <3>4, <5>2
        <5>4. QED BY <4>1, <5>3 DEF NumbersOrdered
      <4>2. CASE i \in DOMAIN stream[s] /\ j \notin DOMAIN stream[u]
        <5>1. i # Len(stream[s]) + 1  BY <2>0, <4>2
        <5>2. stream'[s][i] = stream[s][i] /\ stream'[u][j] = num[t]
          BY <3>4, <4>2, <5>1
        <5>3. QED BY <3>6, <3>7, <4>2, <5>2 DEF Precedes
      <4>3. CASE i \notin DOMAIN stream[s] /\ j \in DOMAIN stream[u]
        <5>1. j # Len(stream[u]) + 1  BY <2>0, <4>3
        <5>2. /\ stream'[s][i] = num[t] /\ stream'[u][j] = stream[u][j]
              /\ i = Len(stream[s]) + 1
          BY <3>4, <4>3, <5>1
        <5>3. s = u => ~(i < j)
          BY <2>0, <3>6, <4>3, <5>2
        <5>4. QED BY <3>6, <3>7, <4>3, <5>2, <5>3 DEF Precedes
      <4>4. CASE i \notin DOMAIN stream[s] /\ j \notin DOMAIN stream[u]
        <5>1. s = held[t] /\ u = held[t] /\ i = Len(stream[s]) + 1 /\ j = Len(stream[u]) + 1
          BY <3>4, <4>4
        <5>2. s = u /\ i = j /\ ~(i < j)  BY <2>0, <5>1
        <5>3. QED BY <5>2
      <4>5. QED BY <4>1, <4>2, <4>3, <4>4
    <3>9. QED BY <3>3, <3>5, <3>8
  <2>4. ASSUME NEW c \in Controllers, NEW f \in Filters, SetReset(c, f) PROVE NumberInv'
    <3>1. /\ UNCHANGED <<stream, num>> /\ seq' = 0 /\ epoch' = epoch + 1
          /\ \A t \in Emitters : pc'[t] = "deliver" => pc[t] = "deliver"
      BY <2>0, <2>4 DEF SetReset, emitVars, sinkVars, Goto
    <3>2. \A t \in Emitters : num[t].epoch \in Nat  BY <2>0 DEF Number
    <3>3. \A s \in SessionIds : \A i \in DOMAIN stream[s] : stream[s][i].epoch \in Nat
      BY <2>a DEF Number
    <3>4. QED BY <2>0, <3>1, <3>2, <3>3 DEF Taken, Precedes, NumbersOrdered
  <2>5. ASSUME NEW t \in Emitters, NEW e \in Events, EmitCheck(t, e) PROVE NumberInv'
    BY <2>0, <2>1, <2>5 DEF EmitCheck, Goto, sinkVars, ctlVars
  <2>6. ASSUME NEW t \in Emitters, EmitLock(t) PROVE NumberInv'
    <3>1. /\ UNCHANGED <<stream, seq, epoch>>
          /\ \A u \in Emitters : pc'[u] = "deliver" => u # t /\ pc[u] = "deliver" /\ num'[u] = num[u]
      BY <2>0, <2>6 DEF EmitLock, Return, Proceed, Goto, sinkVars, ctlVars
    <3>2. QED BY <3>1 DEF NumbersOrdered, Taken, Precedes
  <2>7. ASSUME NEW t \in Emitters, EmitPanic(t) PROVE NumberInv'
    BY <2>0, <2>1, <2>7 DEF EmitPanic, Goto, emitVars, sinkVars, ctlVars
  <2>8. ASSUME NEW c \in Controllers, ClearDisable(c) \/ ControlStep(c) PROVE NumberInv'
    <3>1. /\ UNCHANGED <<stream, seq, epoch, num>>
          /\ \A t \in Emitters : pc'[t] = pc[t]
      BY <2>0, <2>8 DEF ClearDisable, ControlStep, SetInstall, SetEnable, ClearDrop, Goto,
                        emitVars, sinkVars, ctlVars
    <3>2. QED BY <2>1, <3>1
  <2>9. ASSUME NEW t \in Threads, LockPoisoned(t) PROVE NumberInv'
    BY <2>0, <2>1, <2>9 DEF LockPoisoned, Goto, emitVars, sinkVars, ctlVars
  <2>10. CASE UNCHANGED vars
    BY <2>1, <2>10 DEF vars, emitVars, sinkVars, ctlVars
  <2>11. QED
    BY <2>2, <2>3, <2>4, <2>5, <2>6, <2>7, <2>8, <2>9, <2>10 DEF Next, EmitStep, Terminated
<1>3. NumberInv => NumbersOrdered
  BY DEF NumberInv
<1>4. QED BY <1>1, <1>2, <1>3, TypeCorrect, MutexHolds, PTL DEF Spec

----------------------------------------------------------------------------
\* Only the end of a call of emit reaches a sink.
LEMMA OnlyDeliveryReachesASink ==
  ASSUME [Next]_vars
  PROVE  UNCHANGED sinkVars \/ \E t \in Emitters : EmitDeliver(t)
<1>1. ASSUME NEW t \in Emitters, (\E e \in Events : EmitCheck(t, e)) \/ EmitStep(t), ~EmitDeliver(t)
      PROVE  UNCHANGED sinkVars
  BY <1>1 DEF EmitCheck, EmitStep, EmitLock, EmitFetch, EmitPanic
<1>2. ASSUME NEW c \in Controllers,
             (\E f \in Filters : SetReset(c, f)) \/ ClearDisable(c) \/ ControlStep(c)
      PROVE  UNCHANGED sinkVars
  BY <1>2 DEF SetReset, ClearDisable, ControlStep, SetInstall, SetEnable, ClearDrop
<1>3. ASSUME NEW t \in Threads, LockPoisoned(t) PROVE UNCHANGED sinkVars
  BY <1>3 DEF LockPoisoned
<1>4. CASE UNCHANGED vars  BY <1>4 DEF vars
<1>5. QED BY <1>1, <1>2, <1>3, <1>4 DEF Next, Terminated

----------------------------------------------------------------------------
(***************************************************************************)
(* The ring buffer.  Pushing an event onto the last RingCap events of a    *)
(* stream gives the last RingCap events of the longer stream.              *)
(***************************************************************************)
LastEvents(s) == SubSeq(s, IF Len(s) > RingCap THEN Len(s) - RingCap + 1 ELSE 1, Len(s))

LEMMA LastEventsShape ==
  ASSUME NEW S, NEW s \in Seq(S)
  PROVE  /\ LastEvents(s) \in Seq(S)
         /\ Len(s) <= RingCap => LastEvents(s) = s
         /\ Len(s) > RingCap =>
              /\ Len(LastEvents(s)) = RingCap
              /\ \A i \in 1 .. RingCap : LastEvents(s)[i] = s[Len(s) - RingCap + i]
<1> USE RingCapPositive
<1>1. CASE Len(s) <= RingCap
  <2>0. Len(s) \in Nat /\ ~(Len(s) > RingCap)  BY <1>1
  <2>1. LastEvents(s) = SubSeq(s, 1, Len(s))  BY <2>0, Zenon DEF LastEvents
  <2>2. LastEvents(s) = s  BY <2>1, SubSeqFull
  <2>3. QED BY <1>1, <2>2
<1>2. CASE Len(s) > RingCap
  <2> DEFINE m == Len(s) - RingCap + 1
  <2>1. LastEvents(s) = SubSeq(s, m, Len(s)) /\ m \in Int /\ Len(s) \in Int /\ m \in 1 .. Len(s)
    BY <1>2 DEF LastEvents
  <2>2. \A i \in m .. Len(s) : s[i] \in S  BY <2>1
  <2> HIDE DEF m
  <2>3. /\ SubSeq(s, m, Len(s)) \in Seq(S)
        /\ Len(SubSeq(s, m, Len(s))) = Len(s) - m + 1
        /\ \A i \in 1 .. Len(s) - m + 1 : SubSeq(s, m, Len(s))[i] = s[m + i - 1]
    BY <2>1, <2>2, SubSeqProperties
  <2>4. LastEvents(s) = SubSeq(s, m, Len(s)) /\ Len(s) - m + 1 = RingCap
    BY <2>1, <1>2 DEF m
  <2>5. LastEvents(s) \in Seq(S) /\ Len(LastEvents(s)) = RingCap
    BY <2>3, <2>4
  <2>6. \A i \in 1 .. RingCap : LastEvents(s)[i] = s[m + i - 1]
    BY <2>3, <2>4
  <2>7. \A i \in 1 .. RingCap : m + i - 1 = Len(s) - RingCap + i
    BY <1>2 DEF m
  <2>8. QED BY <1>2, <2>5, <2>6, <2>7
<1>3. QED BY <1>1, <1>2

LEMMA PushLastEvents ==
  ASSUME NEW S, NEW s \in Seq(S), NEW n \in S
  PROVE  Push(LastEvents(s), n) = LastEvents(Append(s, n))
<1> USE RingCapPositive
<1> DEFINE t == Append(s, n)
<1>0. /\ t \in Seq(S) /\ Len(t) = Len(s) + 1 /\ t[Len(s) + 1] = n
      /\ \A i \in 1 .. Len(s) : t[i] = s[i]
  OBVIOUS
<1> HIDE DEF t
<1>1. CASE Len(s) < RingCap
  <2>1. LastEvents(s) = s  BY <1>1, LastEventsShape
  <2>2. LastEvents(t) = t  BY <1>0, <1>1, LastEventsShape
  <2>3. Push(s, n) = t  BY <1>1 DEF Push, t
  <2>4. QED BY <2>1, <2>2, <2>3 DEF t
<1>2. CASE Len(s) >= RingCap
  <2> DEFINE b == LastEvents(s)
  <2>1. /\ b \in Seq(S) /\ Len(b) = RingCap
        /\ \A i \in 1 .. RingCap : b[i] = s[Len(s) - RingCap + i]
    <3>1. CASE Len(s) = RingCap  BY <3>1, LastEventsShape
    <3>2. CASE Len(s) > RingCap  BY <3>2, LastEventsShape
    <3>3. QED BY <1>2, <3>1, <3>2
  <2> HIDE DEF b
  <2>2. /\ Tail(b) \in Seq(S) /\ Len(Tail(b)) = RingCap - 1
        /\ \A i \in 1 .. RingCap - 1 : Tail(b)[i] = b[i + 1]
    BY <2>1
  <2> DEFINE p == Append(Tail(b), n)
  <2>3. /\ p \in Seq(S) /\ Len(p) = RingCap /\ p[RingCap] = n
        /\ \A i \in 1 .. RingCap - 1 : p[i] = b[i + 1]
    BY <2>2
  <2>4. Push(b, n) = p  BY <2>1 DEF Push
  <2> HIDE DEF p
  <2>5. /\ LastEvents(t) \in Seq(S) /\ Len(LastEvents(t)) = RingCap
        /\ \A i \in 1 .. RingCap : LastEvents(t)[i] = t[Len(t) - RingCap + i]
    <3>1. Len(t) > RingCap  BY <1>0, <1>2
    <3>2. QED BY <1>0, <3>1, LastEventsShape
  <2>6. ASSUME NEW i \in 1 .. RingCap PROVE p[i] = LastEvents(t)[i]
    <3>1. CASE i = RingCap  BY <1>0, <2>3, <2>5, <3>1
    <3>2. CASE i # RingCap
      <4>0. i \in 1 .. RingCap - 1 /\ i + 1 \in 1 .. RingCap  BY <3>2
      <4>1. p[i] = s[Len(s) - RingCap + (i + 1)]  BY <2>1, <2>3, <4>0
      <4>2. LastEvents(t)[i] = t[Len(s) + 1 - RingCap + i]  BY <1>0, <2>5
      <4>3. Len(s) + 1 - RingCap + i \in 1 .. Len(s)  BY <1>2, <3>2
      <4>4. QED BY <1>0, <4>1, <4>2, <4>3
    <3>3. QED BY <3>1, <3>2
  <2>7. p = LastEvents(t)  BY <2>3, <2>5, <2>6, SeqEqual
  <2>8. QED BY <2>4, <2>7 DEF b, t
<1>3. QED BY <1>1, <1>2

(***************************************************************************)
(* A RingBufferSink retains exactly the last RingCap events its session    *)
(* received, in order, whatever the capacity it was created with.          *)
(***************************************************************************)
THEOREM RingsExact == Spec => []RingHoldsTail
<1>0. RingHoldsTail <=> \A s \in SessionIds : buf[s] = LastEvents(stream[s])
  BY DEF RingHoldsTail, LastEvents
<1>1. Init => RingHoldsTail
  <2> SUFFICES ASSUME Init, NEW s \in SessionIds PROVE buf[s] = LastEvents(stream[s])
    BY <1>0
  <2>1. buf[s] = <<>> /\ stream[s] = <<>> /\ <<>> \in Seq(Nat)  BY DEF Init
  <2>2. Len(stream[s]) <= RingCap  BY <2>1, RingCapPositive
  <2>3. QED BY <2>1, <2>2, LastEventsShape
<1>2. TypeOK /\ RingHoldsTail /\ [Next]_vars => RingHoldsTail'
  <2> SUFFICES ASSUME TypeOK, \A s \in SessionIds : buf[s] = LastEvents(stream[s]), [Next]_vars
               PROVE  \A s \in SessionIds : buf'[s] = LastEvents(stream'[s])
    BY <1>0 DEF RingHoldsTail, LastEvents, RingCap
  <2>1. CASE UNCHANGED sinkVars
    BY <2>1 DEF sinkVars
  <2>2. ASSUME NEW t \in Emitters, EmitDeliver(t)
        PROVE  \A s \in SessionIds : buf'[s] = LastEvents(stream'[s])
    <3>0. /\ stream \in [SessionIds -> Seq(Number)] /\ buf \in [SessionIds -> Seq(Number)]
          /\ num[t] \in Number
      BY DEF TypeOK
    <3>1. ASSUME NEW s \in SessionIds, s = held[t] PROVE buf'[s] = LastEvents(stream'[s])
      <4>1. buf'[s] = Push(buf[s], num[t]) /\ stream'[s] = Append(stream[s], num[t])
        BY <2>2, <3>0, <3>1 DEF EmitDeliver
      <4>2. QED BY <3>0, <4>1, PushLastEvents
    <3>2. ASSUME NEW s \in SessionIds, s # held[t] PROVE buf'[s] = LastEvents(stream'[s])
      BY <2>2, <3>0, <3>2 DEF EmitDeliver
    <3>3. QED BY <3>1, <3>2
  <2>3. QED BY <2>1, <2>2, OnlyDeliveryReachesASink
<1>3. QED BY <1>1, <1>2, TypeCorrect, PTL DEF Spec

----------------------------------------------------------------------------
(***************************************************************************)
(* Sessions.  While an emitter is between finding a session and delivering *)
(* to it, it holds the mutex, so the session stays in the cell.  A session *)
(* is in the cell, about to be installed, or has received something only   *)
(* if set_session has created it.                                          *)
(***************************************************************************)
HeldIsInstalled ==
  \A t \in Emitters : pc[t] \in {"fetch", "deliver"} => held[t] # None /\ cell = held[t]

Created == 1 .. Len(sessions)

SessionInv ==
  /\ HeldIsInstalled
  /\ cell \in Created \cup {None}
  /\ \A c \in Controllers : pc[c] = "install" => mine[c] \in Created
  /\ \A s \in SessionIds : stream[s] # <<>> => s \in Created
  /\ quiet \subseteq Created

LEMMA SessionsSafe == Spec => []SessionInv
<1>1. Init => SessionInv
  BY DEF Init, SessionInv, HeldIsInstalled, Created, Threads
<1>2. TypeOK /\ MutexInv /\ SessionInv /\ [Next]_vars => SessionInv'
  <2> SUFFICES ASSUME TypeOK, MutexInv, SessionInv, [Next]_vars PROVE SessionInv'
    OBVIOUS
  <2>0. /\ pc \in [Threads -> Places] /\ held \in [Emitters -> SessionIds \cup {None}]
        /\ mine \in [Controllers -> SessionIds \cup {None}]
        /\ stream \in [SessionIds -> Seq(Number)] /\ num \in [Emitters -> Number]
        /\ \A t \in Emitters : t \in Threads /\ t \notin Controllers /\ t # Free
        /\ \A c \in Controllers : c \in Threads /\ c \notin Emitters
        /\ Len(sessions) \in Nat /\ None \notin SessionIds
        /\ cell \in SessionIds \cup {None}
    BY TraceAssumption DEF TypeOK, Threads, SessionIds
  <2> USE DEF SessionInv, HeldIsInstalled, Created, Goto
  <2>1. ASSUME UNCHANGED <<cell, sessions, mine, held, stream, quiet>>,
               \A t \in Emitters : pc'[t] \in {"fetch", "deliver"} => pc[t] \in {"fetch", "deliver"},
               \A c \in Controllers : pc'[c] = "install" => pc[c] = "install"
        PROVE  SessionInv'
    BY <2>1
  <2>2. ASSUME NEW t \in Emitters, NEW e \in Events, EmitCheck(t, e) PROVE SessionInv'
    BY <2>0, <2>1, <2>2 DEF EmitCheck, sinkVars, ctlVars
  <2>3. ASSUME NEW t \in Emitters, EmitLock(t) PROVE SessionInv'
    <3>1. UNCHANGED <<cell, sessions, mine, stream, quiet>> /\ \A c \in Controllers : pc'[c] = pc[c]
      BY <2>0, <2>3 DEF EmitLock, Proceed, Return, sinkVars, ctlVars
    <3>2. ASSUME NEW u \in Emitters, pc'[u] \in {"fetch", "deliver"}
          PROVE  held'[u] # None /\ cell' = held'[u]
      BY <2>0, <2>3, <3>1, <3>2 DEF EmitLock, Proceed, Return, Recorded
    <3>3. QED BY <3>1, <3>2
  <2>4. ASSUME NEW t \in Emitters, EmitFetch(t) \/ EmitPanic(t) PROVE SessionInv'
    BY <2>0, <2>1, <2>4 DEF EmitFetch, EmitPanic, sinkVars, ctlVars, emitVars
  <2>5. ASSUME NEW t \in Emitters, EmitDeliver(t) PROVE SessionInv'
    <3>1. /\ UNCHANGED <<cell, sessions, mine, quiet>> /\ \A c \in Controllers : pc'[c] = pc[c]
          /\ \A u \in Emitters : u # t => pc'[u] = pc[u] /\ held'[u] = held[u]
          /\ pc'[t] = "idle"
      BY <2>0, <2>5 DEF EmitDeliver, Return, ctlVars
    <3>2. held[t] \in Created  BY <2>0, <2>5 DEF EmitDeliver
    <3>3. \A s \in SessionIds : s # held[t] => stream'[s] = stream[s]
      BY <2>0, <2>5 DEF EmitDeliver
    <3>4. QED BY <3>1, <3>2, <3>3
  <2>6. ASSUME NEW c \in Controllers, NEW f \in Filters, SetReset(c, f) PROVE SessionInv'
    <3>1. /\ UNCHANGED <<cell, held, stream>> /\ Len(sessions') = Len(sessions) + 1
          /\ \A t \in Emitters : pc'[t] = pc[t]
          /\ \A d \in Controllers : d # c => pc'[d] = pc[d] /\ mine'[d] = mine[d]
          /\ mine'[c] = Len(sessions) + 1
          /\ quiet' \subseteq quiet \cup {Len(sessions) + 1}
      BY <2>0, <2>6 DEF SetReset, emitVars, sinkVars, TypeOK
    <3>2. Created \subseteq Created' /\ Len(sessions) + 1 \in Created'
      BY <2>0, <3>1
    <3>3. QED BY <3>1, <3>2
  <2>7. ASSUME NEW c \in Controllers, SetInstall(c) PROVE SessionInv'
    <3>1. \A t \in Emitters : pc'[t] = pc[t] /\ pc[t] \notin {"fetch", "deliver"}
      BY <2>0, <2>7 DEF SetInstall, MutexInv
    <3>2. UNCHANGED <<sessions, mine, held, stream, quiet>> /\ cell' = mine[c]
          /\ \A d \in Controllers : pc'[d] = "install" => pc[d] = "install"
      BY <2>0, <2>7 DEF SetInstall, emitVars, sinkVars, ctlVars
    <3>3. mine[c] \in Created  BY <2>7 DEF SetInstall
    <3>4. QED BY <3>1, <3>2, <3>3
  <2>8. ASSUME NEW c \in Controllers, ClearDrop(c) PROVE SessionInv'
    <3>1. \A t \in Emitters : pc'[t] = pc[t] /\ pc[t] \notin {"fetch", "deliver"}
      BY <2>0, <2>8 DEF ClearDrop, MutexInv
    <3>2. UNCHANGED <<sessions, mine, held, stream, quiet>> /\ cell' = None
          /\ \A d \in Controllers : pc'[d] = "install" => pc[d] = "install"
      BY <2>0, <2>8 DEF ClearDrop, emitVars, sinkVars, ctlVars
    <3>3. QED BY <3>1, <3>2
  <2>9. ASSUME NEW c \in Controllers, SetEnable(c) \/ ClearDisable(c) PROVE SessionInv'
    BY <2>0, <2>1, <2>9 DEF SetEnable, ClearDisable, emitVars, sinkVars, ctlVars
  <2>10. ASSUME NEW t \in Threads, LockPoisoned(t) PROVE SessionInv'
    BY <2>0, <2>1, <2>10 DEF LockPoisoned, emitVars, sinkVars, ctlVars
  <2>11. CASE UNCHANGED vars
    BY <2>1, <2>11 DEF vars, emitVars, sinkVars, ctlVars
  <2>12. QED
    BY <2>2, <2>3, <2>4, <2>5, <2>6, <2>7, <2>8, <2>9, <2>10, <2>11
       DEF Next, EmitStep, ControlStep, Terminated
<1>3. QED BY <1>1, <1>2, TypeCorrect, MutexHolds, PTL DEF Spec

(***************************************************************************)
(* Whatever the interleaving, an event reaches a session only while it is  *)
(* the installed one: after clear_session, or the set_session that         *)
(* replaces it, has taken effect, a collector receives nothing.            *)
(***************************************************************************)
THEOREM DeliveredToInstalled == Spec => OnlyInstalledReceives
<1>1. TypeOK /\ SessionInv /\ [Next]_vars
        => [\A s \in SessionIds : stream'[s] # stream[s] => cell = s /\ cell' = s]_vars
  <2> SUFFICES ASSUME TypeOK, SessionInv, [Next]_vars,
                      NEW s \in SessionIds, stream'[s] # stream[s]
               PROVE  cell = s /\ cell' = s
    OBVIOUS
  <2>1. PICK t \in Emitters : EmitDeliver(t)
    BY OnlyDeliveryReachesASink DEF sinkVars
  <2>2. stream \in [SessionIds -> Seq(Number)]  BY DEF TypeOK
  <2>3. s = held[t]  BY <2>1, <2>2 DEF EmitDeliver
  <2>4. QED BY <2>1, <2>3 DEF EmitDeliver, SessionInv, HeldIsInstalled
<1>2. QED BY <1>1, TypeCorrect, SessionsSafe, PTL DEF Spec, OnlyInstalledReceives

----------------------------------------------------------------------------
(***************************************************************************)
(* A quiet session's first event carries the number 0.  As long as it has  *)
(* received nothing, the reset of its own set_session is still in force:   *)
(* nobody can take a number while no session is installed, and from the    *)
(* moment it is installed the first number taken goes to it.               *)
(***************************************************************************)
OnlyInstaller(s) ==
  \A c \in Controllers : pc[c] = "install" /\ mine[c] = s =>
    /\ cell = None /\ seq = 0
    /\ \A d \in Controllers : pc[d] = "install" => d = c

FirstNumberFree(s) ==
  cell = s =>
    /\ \A t \in Emitters : pc[t] = "deliver" => num[t].seq = 0
    /\ (\A t \in Emitters : pc[t] # "deliver") => seq = 0

FreshInv ==
  poisoned \/ \A s \in quiet :
    /\ StartsAtZero(s)
    /\ stream[s] = <<>> => OnlyInstaller(s) /\ FirstNumberFree(s)

\* A session installed while nothing else was under way, after a clear,
\* receives its first event with the number 0 (set_session resets SEQ).
THEOREM FreshCaptures == Spec => []FreshAfterClear
<1>1. Init => FreshInv
  BY DEF Init, FreshInv
<1>2. TypeOK /\ MutexInv /\ SessionInv /\ FreshInv /\ [Next]_vars => FreshInv'
  <2> SUFFICES ASSUME TypeOK, MutexInv, SessionInv, FreshInv, [Next]_vars, ~poisoned'
               PROVE  \A s \in quiet' :
                        /\ StartsAtZero(s)'
                        /\ stream'[s] = <<>> => OnlyInstaller(s)' /\ FirstNumberFree(s)'
    BY DEF FreshInv
  <2> DEFINE Fresh(s) == StartsAtZero(s) /\ (stream[s] = <<>> => OnlyInstaller(s) /\ FirstNumberFree(s))
  <2>0. /\ pc \in [Threads -> Places] /\ held \in [Emitters -> SessionIds \cup {None}]
        /\ mine \in [Controllers -> SessionIds \cup {None}]
        /\ stream \in [SessionIds -> Seq(Number)] /\ num \in [Emitters -> Number]
        /\ \A t \in Emitters : t \in Threads /\ t \notin Controllers /\ t # Free
        /\ \A c \in Controllers : c \in Threads /\ c \notin Emitters
        /\ Len(sessions) \in Nat /\ None \notin SessionIds /\ quiet \subseteq SessionIds
    BY TraceAssumption DEF TypeOK, Threads, SessionIds
  <2> USE DEF Goto
  <2>1. ASSUME ~poisoned, UNCHANGED <<cell, seq, mine, stream, quiet>>,
               \A t \in Emitters : pc'[t] = "deliver" <=> pc[t] = "deliver",
               \A t \in Emitters : pc'[t] = "deliver" => num'[t] = num[t],
               \A c \in Controllers : pc'[c] = "install" => pc[c] = "install"
        PROVE  \A s \in quiet' : Fresh(s)'
    BY <2>1 DEF FreshInv, StartsAtZero, OnlyInstaller, FirstNumberFree
  <2>2. ASSUME NEW t \in Emitters, NEW e \in Events, EmitCheck(t, e)
        PROVE  \A s \in quiet' : Fresh(s)'
    <3>1. ~poisoned /\ UNCHANGED <<cell, seq, mine, stream, quiet, num>>
      BY <2>2 DEF EmitCheck, sinkVars, ctlVars
    <3>2. /\ \A u \in Emitters : pc'[u] = "deliver" <=> pc[u] = "deliver"
          /\ \A c \in Controllers : pc'[c] = pc[c]
      BY <2>0, <2>2 DEF EmitCheck
    <3>3. QED BY <2>1, <3>1, <3>2
  <2>3. ASSUME NEW t \in Emitters, EmitLock(t) PROVE \A s \in quiet' : Fresh(s)'
    <3>1. ~poisoned /\ UNCHANGED <<cell, seq, mine, stream, quiet>>
      BY <2>3 DEF EmitLock, sinkVars, ctlVars
    <3>2. /\ \A u \in Emitters : pc'[u] = "deliver" <=> pc[u] = "deliver"
          /\ \A u \in Emitters : pc'[u] = "deliver" => num'[u] = num[u]
          /\ \A c \in Controllers : pc'[c] = pc[c]
      BY <2>0, <2>3 DEF EmitLock, Proceed, Return
    <3>3. QED BY <2>1, <3>1, <3>2
  <2>4. ASSUME NEW t \in Emitters, EmitFetch(t) PROVE \A s \in quiet' : Fresh(s)'
    <3>1. /\ ~poisoned /\ UNCHANGED <<cell, mine, stream, quiet>>
          /\ \A c \in Controllers : pc'[c] = pc[c]
      BY <2>0, <2>4 DEF EmitFetch, sinkVars, ctlVars
    <3>2. cell # None  BY <2>4 DEF EmitFetch, SessionInv, HeldIsInstalled
    <3>3. ASSUME NEW u \in Emitters, u # t PROVE pc[u] # "deliver" /\ pc'[u] # "deliver"
      BY <2>0, <2>4, <3>3 DEF EmitFetch, MutexInv
    <3>4. pc[t] # "deliver" /\ pc'[t] = "deliver" /\ num'[t].seq = seq
      BY <2>0, <2>4 DEF EmitFetch
    <3>5. QED BY <3>1, <3>2, <3>3, <3>4 DEF FreshInv, StartsAtZero, OnlyInstaller, FirstNumberFree
  <2>5. ASSUME NEW t \in Emitters, EmitDeliver(t) PROVE \A s \in quiet' : Fresh(s)'
    <3>1. /\ ~poisoned /\ UNCHANGED <<cell, seq, mine, quiet>>
          /\ \A c \in Controllers : pc'[c] = pc[c]
      BY <2>0, <2>5 DEF EmitDeliver, Return, ctlVars
    <3>2. cell = held[t] /\ held[t] \in SessionIds /\ pc[t] = "deliver"
      BY <2>0, <2>5 DEF EmitDeliver, SessionInv, HeldIsInstalled
    <3>3. ASSUME NEW s \in quiet, s # held[t] PROVE Fresh(s)'
      <4>1. stream'[s] = stream[s]  BY <2>0, <2>5, <3>3 DEF EmitDeliver
      <4>2. Fresh(s)  BY <3>1 DEF FreshInv
      <4>3. QED BY <3>1, <3>2, <3>3, <4>1, <4>2 DEF StartsAtZero, OnlyInstaller, FirstNumberFree
    <3>4. ASSUME NEW s \in quiet, s = held[t] PROVE Fresh(s)'
      <4>1. stream'[s] = Append(stream[s], num[t]) /\ stream[s] \in Seq(Number)
            /\ num[t] \in Number
        BY <2>0, <2>5, <3>2, <3>4 DEF EmitDeliver
      <4>2. stream'[s] # <<>>  BY <4>1
      <4>3. CASE stream[s] = <<>>
        <5>1. num[t].seq = 0
          BY <3>1, <3>2, <3>4, <4>3 DEF FreshInv, FirstNumberFree
        <5>2. Head(stream'[s]) = num[t]  BY <4>1, <4>3
        <5>3. QED BY <4>2, <5>1, <5>2 DEF StartsAtZero
      <4>4. CASE stream[s] # <<>>
        <5>1. Head(stream'[s]) = Head(stream[s])  BY <4>1, <4>4
        <5>2. StartsAtZero(s)  BY <3>1 DEF FreshInv
        <5>3. QED BY <4>2, <4>4, <5>1, <5>2 DEF StartsAtZero
      <4>5. QED BY <4>3, <4>4
    <3>5. QED BY <3>1, <3>3, <3>4
  <2>6. ASSUME NEW c \in Controllers, NEW f \in Filters, SetReset(c, f)
        PROVE  \A s \in quiet' : Fresh(s)'
    <3> DEFINE new == Len(sessions) + 1
               installing == {d \in Controllers : pc[d] = "install"}
    <3>1. /\ ~poisoned /\ UNCHANGED <<cell, stream, num>> /\ seq' = 0
          /\ \A t \in Emitters : pc'[t] = pc[t]
          /\ \A d \in Controllers : d # c => pc'[d] = pc[d] /\ mine'[d] = mine[d]
          /\ mine'[c] = new
      BY <2>0, <2>6 DEF SetReset, emitVars, sinkVars
    <3>2. quiet' = IF cell = None /\ installing = {}
                   THEN (quiet \ {mine[d] : d \in installing}) \cup {new}
                   ELSE quiet \ {mine[d] : d \in installing}
      BY <2>6 DEF SetReset
    <3>3. ASSUME NEW s \in quiet', s # new PROVE Fresh(s)'
      <4>1. s \in quiet /\ \A d \in Controllers : pc[d] = "install" => mine[d] # s
        BY <3>2, <3>3
      <4>2. OnlyInstaller(s)'  BY <3>1, <3>3, <4>1 DEF OnlyInstaller
      <4>3. Fresh(s)  BY <3>1, <4>1 DEF FreshInv
      <4>4. QED BY <3>1, <4>2, <4>3 DEF StartsAtZero, FirstNumberFree
    <3>4. ASSUME NEW s \in quiet', s = new PROVE Fresh(s)'
      <4>1. s \notin Created  BY <2>0, <3>4 DEF Created
      <4>2. cell = None /\ installing = {}  BY <3>2, <3>4, <4>1 DEF SessionInv
      <4>3. s \in SessionIds
        BY <2>0, <2>6, <3>4, TraceAssumption DEF SetReset, SessionIds
      <4>4. stream'[s] = <<>>  BY <3>1, <4>1, <4>3 DEF SessionInv
      <4>5. cell' # s  BY <2>0, <3>1, <4>2, <4>3
      <4>6. OnlyInstaller(s)'  BY <3>1, <4>2 DEF OnlyInstaller
      <4>7. QED BY <4>4, <4>5, <4>6 DEF StartsAtZero, FirstNumberFree
    <3>5. QED BY <3>3, <3>4
  <2>7. ASSUME NEW c \in Controllers, SetInstall(c) PROVE \A s \in quiet' : Fresh(s)'
    <3>1. /\ ~poisoned /\ UNCHANGED <<seq, mine, stream, quiet, num>> /\ cell' = mine[c]
          /\ pc[c] = "install" /\ pc'[c] = "enable"
          /\ \A d \in Controllers : d # c => pc'[d] = pc[d]
      BY <2>0, <2>7 DEF SetInstall, emitVars, sinkVars, ctlVars
    <3>2. \A t \in Emitters : pc'[t] = pc[t] /\ pc[t] # "deliver"
      BY <2>0, <2>7 DEF SetInstall, MutexInv
    <3>3. QED BY <3>1, <3>2 DEF FreshInv, StartsAtZero, OnlyInstaller, FirstNumberFree
  <2>8. ASSUME NEW c \in Controllers, ClearDrop(c) PROVE \A s \in quiet' : Fresh(s)'
    <3>1. /\ ~poisoned /\ UNCHANGED <<seq, mine, stream, quiet>> /\ cell' = None
          /\ \A d \in Controllers : pc'[d] = "install" => pc[d] = "install"
      BY <2>0, <2>8 DEF ClearDrop, emitVars, sinkVars, ctlVars
    <3>2. \A s \in quiet : s # None  BY <2>0
    <3>3. QED BY <3>1, <3>2 DEF FreshInv, StartsAtZero, OnlyInstaller, FirstNumberFree
  <2>9. ASSUME NEW c \in Controllers, SetEnable(c) \/ ClearDisable(c)
        PROVE  \A s \in quiet' : Fresh(s)'
    <3>1. ~poisoned /\ UNCHANGED <<cell, seq, mine, stream, quiet, num>>
      BY <2>9 DEF SetEnable, ClearDisable, emitVars, sinkVars, ctlVars
    <3>2. /\ \A t \in Emitters : pc'[t] = pc[t]
          /\ \A d \in Controllers : pc'[d] = "install" => pc[d] = "install"
      BY <2>0, <2>9 DEF SetEnable, ClearDisable
    <3>3. QED BY <2>1, <3>1, <3>2
  <2>10. ASSUME NEW t \in Emitters, EmitPanic(t) PROVE FALSE
    BY <2>10 DEF EmitPanic
  <2>11. ASSUME NEW t \in Threads, LockPoisoned(t) PROVE FALSE
    BY <2>11 DEF LockPoisoned
  <2>12. CASE UNCHANGED vars
    BY <2>1, <2>12 DEF vars, emitVars, sinkVars, ctlVars
  <2>13. QED
    BY <2>2, <2>3, <2>4, <2>5, <2>6, <2>7, <2>8, <2>9, <2>10, <2>11, <2>12
       DEF Next, EmitStep, ControlStep, Terminated
<1>3. FreshInv => FreshAfterClear
  BY DEF FreshInv, FreshAfterClear
<1>4. QED BY <1>1, <1>2, <1>3, TypeCorrect, MutexHolds, SessionsSafe, PTL DEF Spec

=============================================================================
