------------------------------- MODULE Trace -------------------------------
(***************************************************************************)
(* The process-global trace facility of trace/mod.rs: an ENABLED flag, a   *)
(* SEQ counter, and one mutex-protected cell that holds the installed      *)
(* session.  Analysis threads (Emitters) call emit(); other threads        *)
(* (Controllers) call set_session() and clear_session().  None of the      *)
(* three functions is atomic: the flag and the counter are written outside *)
(* the lock, so their steps interleave with a call that is under way.      *)
(*                                                                         *)
(* Every atomic access is sequentially consistent here.  The code uses     *)
(* Relaxed, but each object is a single word whose accesses are totally    *)
(* ordered, and the cell is ordered by the mutex.                          *)
(***************************************************************************)
EXTENDS Naturals, Sequences, FiniteSets

CONSTANTS
  Emitters,      \* threads that emit events
  Controllers,   \* threads that install and clear sessions
  Events,        \* the events they may emit: [kind, va, func, detail]
  Filters,       \* the filters a session may carry: [kinds, func_va, va]
  Cap,           \* the capacity given to RingBufferSink::new
  MaxSessions,   \* bound: sessions created in a behaviour
  MaxEmits,      \* bound: calls of emit() in a behaviour
  None,          \* Option::None
  Free           \* the mutex is not held

ASSUME TraceAssumption ==
  /\ Cap \in Nat
  /\ MaxSessions \in Nat
  /\ MaxEmits \in Nat
  /\ Emitters \cap Controllers = {}
  /\ Free \notin Emitters \cup Controllers
  /\ None \notin 1 .. MaxSessions

VARIABLES
  enabled,   \* ENABLED
  seq,       \* SEQ
  cell,      \* the session in session_cell(), or None
  lock,      \* which thread holds session_cell()'s mutex, or Free
  poisoned,  \* a thread panicked while it held the mutex
  pc,        \* where each thread is inside its call
  ev,        \* the event an emitter's call is about
  held,      \* the session an emitter found in the cell
  num,       \* the number fetch_add gave it, with the epoch it was taken in
  calls,     \* calls of emit() begun so far
  mine,      \* the session a controller's set_session() call installs
  sessions,  \* the filter of every session created so far
  buf,       \* what each session's RingBufferSink retains
  stream,    \* history: every event each session's sink received
  epoch,     \* history: number of resets of SEQ
  quiet      \* history: sessions whose installation nothing else overlapped

emitVars == <<ev, held, num, calls>>
sinkVars == <<buf, stream>>
ctlVars == <<mine, sessions, epoch, quiet>>
vars == <<enabled, seq, cell, lock, poisoned, pc, emitVars, sinkVars, ctlVars>>

Threads == Emitters \cup Controllers
SessionIds == 1 .. MaxSessions
Number == [seq : Nat, epoch : Nat]
NoNumber == [seq |-> 0, epoch |-> 0]
Places == {"idle", "lock", "fetch", "deliver", "install", "enable", "drop", "panicked"}

\* The capacity RingBufferSink::new settles on.
RingCap == IF Cap = 0 THEN 1 ELSE Cap

TypeOK ==
  /\ enabled \in BOOLEAN
  /\ seq \in Nat
  /\ cell \in SessionIds \cup {None}
  /\ lock \in Threads \cup {Free}
  /\ poisoned \in BOOLEAN
  /\ pc \in [Threads -> Places]
  /\ ev \in [Emitters -> Events \cup {None}]
  /\ held \in [Emitters -> SessionIds \cup {None}]
  /\ num \in [Emitters -> Number]
  /\ calls \in 0 .. MaxEmits
  /\ mine \in [Controllers -> SessionIds \cup {None}]
  /\ sessions \in Seq(Filters) /\ Len(sessions) <= MaxSessions
  /\ buf \in [SessionIds -> Seq(Number)]
  /\ \A s \in SessionIds : Len(buf[s]) <= RingCap
  /\ stream \in [SessionIds -> Seq(Number)]
  /\ epoch \in Nat
  /\ quiet \in SUBSET SessionIds

Init ==
  /\ enabled = FALSE /\ seq = 0 /\ cell = None
  /\ lock = Free /\ poisoned = FALSE
  /\ pc = [t \in Threads |-> "idle"]
  /\ ev = [t \in Emitters |-> None]
  /\ held = [t \in Emitters |-> None]
  /\ num = [t \in Emitters |-> NoNumber]
  /\ calls = 0
  /\ mine = [c \in Controllers |-> None]
  /\ sessions = <<>>
  /\ buf = [s \in SessionIds |-> <<>>]
  /\ stream = [s \in SessionIds |-> <<>>]
  /\ epoch = 0 /\ quiet = {}

(***************************************************************************)
(* TraceFilter::accepts: every field that is set must match.               *)
(***************************************************************************)
Accepts(f, e) ==
  /\ f.kinds # None => e.kind \in f.kinds
  /\ f.func_va # None => e.func_va = f.func_va
  /\ f.va # None => e.va = f.va

(***************************************************************************)
(* RingBufferSink::emit: at capacity the oldest event goes first.          *)
(***************************************************************************)
\* Mutant: the pop comes one event late.
PushOverfull(b, n) == IF Len(b) > RingCap THEN Append(Tail(b), n) ELSE Append(b, n)

Push(b, n) == IF Len(b) = RingCap THEN Append(Tail(b), n) ELSE Append(b, n)

Goto(t, place) == pc' = [pc EXCEPT ![t] = place]

\* A call of emit ends, and its locals with it.
Return(t) ==
  /\ Goto(t, "idle")
  /\ ev' = [ev EXCEPT ![t] = None]
  /\ held' = [held EXCEPT ![t] = None]
  /\ num' = [num EXCEPT ![t] = NoNumber]

----------------------------------------------------------------------------
(***************************************************************************)
(* emit(): the is_enabled() fast path, the lock and the filter, the        *)
(* fetch_add, then the detail closure and the sink.  The guard lives until *)
(* emit returns.                                                           *)
(***************************************************************************)
EmitCheck(t, e) ==
  /\ pc[t] = "idle" /\ calls < MaxEmits
  /\ calls' = calls + 1
  /\ IF enabled
       THEN Goto(t, "lock") /\ ev' = [ev EXCEPT ![t] = e]
       ELSE UNCHANGED <<pc, ev>>
  /\ UNCHANGED <<enabled, seq, cell, lock, poisoned, held, num, sinkVars, ctlVars>>

\* A session is installed and its filter lets the event through.
Recorded(t) == cell # None /\ Accepts(sessions[cell], ev[t])

Proceed(t) ==
  /\ Goto(t, "fetch")
  /\ held' = [held EXCEPT ![t] = cell]
  /\ UNCHANGED <<ev, num>>

\* Mutant: emit clones the Arc out of the cell and lets go of the guard.
EmitLockDropsGuard(t) ==
  /\ pc[t] = "lock" /\ lock = Free /\ ~poisoned
  /\ IF Recorded(t) THEN Proceed(t) ELSE Return(t)
  /\ UNCHANGED <<enabled, seq, cell, lock, poisoned, calls, sinkVars, ctlVars>>

\* Mutant: the early return on a rejected event leaks the guard.
EmitLockLeaks(t) ==
  /\ pc[t] = "lock" /\ lock = Free /\ ~poisoned
  /\ lock' = t
  /\ IF Recorded(t) THEN Proceed(t) ELSE Return(t)
  /\ UNCHANGED <<enabled, seq, cell, poisoned, calls, sinkVars, ctlVars>>

EmitLock(t) ==
  /\ pc[t] = "lock" /\ lock = Free /\ ~poisoned
  /\ IF Recorded(t)
       THEN Proceed(t) /\ lock' = t
       ELSE Return(t) /\ UNCHANGED lock
  /\ UNCHANGED <<enabled, seq, cell, poisoned, calls, sinkVars, ctlVars>>

EmitFetch(t) ==
  /\ pc[t] = "fetch"
  /\ num' = [num EXCEPT ![t] = [seq |-> seq, epoch |-> epoch]]
  /\ seq' = seq + 1
  /\ Goto(t, "deliver")
  /\ UNCHANGED <<enabled, cell, lock, poisoned, ev, held, calls, sinkVars, ctlVars>>

\* truncate_detail cuts at byte MAX_DETAIL_LEN, and String::truncate panics
\* unless a character starts there: a "wide" detail is a longer one with a
\* multi-byte character across that byte (a path in a save or load event).
CutsACharacter(e) == e.detail = "wide"

EmitDeliver(t) ==
  /\ pc[t] = "deliver" /\ ~CutsACharacter(ev[t])
  /\ stream' = [stream EXCEPT ![held[t]] = Append(@, num[t])]
  /\ buf' = [buf EXCEPT ![held[t]] = Push(@, num[t])]
  /\ lock' = Free
  /\ Return(t)
  /\ UNCHANGED <<enabled, seq, cell, poisoned, calls, ctlVars>>

\* The panic unwinds out of emit and drops the guard, which poisons the mutex.
EmitPanic(t) ==
  /\ pc[t] = "deliver" /\ CutsACharacter(ev[t])
  /\ lock' = Free
  /\ poisoned' = TRUE
  /\ Goto(t, "panicked")
  /\ UNCHANGED <<enabled, seq, cell, emitVars, sinkVars, ctlVars>>

----------------------------------------------------------------------------
(***************************************************************************)
(* set_session(): reset the counter, lock and install, then enable.        *)
(***************************************************************************)
\* Mutant: the counter goes on from the session before.
SetResetForgets(c, f) ==
  /\ pc[c] = "idle" /\ Len(sessions) < MaxSessions
  /\ sessions' = Append(sessions, f)
  /\ mine' = [mine EXCEPT ![c] = Len(sessions) + 1]
  /\ epoch' = epoch + 1
  /\ quiet' = IF cell = None THEN quiet \cup {Len(sessions) + 1} ELSE quiet
  /\ Goto(c, "install")
  /\ UNCHANGED <<enabled, seq, cell, lock, poisoned, emitVars, sinkVars>>

SetReset(c, f) ==
  /\ pc[c] = "idle" /\ Len(sessions) < MaxSessions
  /\ sessions' = Append(sessions, f)
  /\ mine' = [mine EXCEPT ![c] = Len(sessions) + 1]
  /\ seq' = 0
  /\ epoch' = epoch + 1
  /\ LET installing == {d \in Controllers : pc[d] = "install"}
         calm == quiet \ {mine[d] : d \in installing}
     IN  quiet' = IF cell = None /\ installing = {}
                  THEN calm \cup {Len(sessions) + 1} ELSE calm
  /\ Goto(c, "install")
  /\ UNCHANGED <<enabled, cell, lock, poisoned, emitVars, sinkVars>>

SetInstall(c) ==
  /\ pc[c] = "install" /\ lock = Free /\ ~poisoned
  /\ cell' = mine[c]
  /\ Goto(c, "enable")
  /\ UNCHANGED <<enabled, seq, lock, poisoned, emitVars, sinkVars, ctlVars>>

SetEnable(c) ==
  /\ pc[c] = "enable"
  /\ enabled' = TRUE
  /\ Goto(c, "idle")
  /\ UNCHANGED <<seq, cell, lock, poisoned, emitVars, sinkVars, ctlVars>>

(***************************************************************************)
(* clear_session(): disable, then lock and empty the cell.                 *)
(***************************************************************************)
ClearDisable(c) ==
  /\ pc[c] = "idle"
  /\ enabled' = FALSE
  /\ Goto(c, "drop")
  /\ UNCHANGED <<seq, cell, lock, poisoned, emitVars, sinkVars, ctlVars>>

\* Mutant: the flag alone is thought to be enough.
ClearDropKeeps(c) ==
  /\ pc[c] = "drop" /\ lock = Free /\ ~poisoned
  /\ Goto(c, "idle")
  /\ UNCHANGED <<enabled, seq, cell, lock, poisoned, emitVars, sinkVars, ctlVars>>

ClearDrop(c) ==
  /\ pc[c] = "drop" /\ lock = Free /\ ~poisoned
  /\ cell' = None
  /\ Goto(c, "idle")
  /\ UNCHANGED <<enabled, seq, lock, poisoned, emitVars, sinkVars, ctlVars>>

\* lock().unwrap() on the poisoned mutex panics, whichever call it is in.
LockPoisoned(t) ==
  /\ pc[t] \in {"lock", "install", "drop"} /\ lock = Free /\ poisoned
  /\ Goto(t, "panicked")
  /\ UNCHANGED <<enabled, seq, cell, lock, poisoned, emitVars, sinkVars, ctlVars>>

----------------------------------------------------------------------------
EmitStep(t) == EmitLock(t) \/ EmitFetch(t) \/ EmitDeliver(t) \/ EmitPanic(t)
ControlStep(c) == SetInstall(c) \/ SetEnable(c) \/ ClearDrop(c)

\* Every call has returned, none will be made, and no thread waits.
Terminated ==
  /\ \A t \in Threads : pc[t] \in {"idle", "panicked"}
  /\ UNCHANGED vars

Next ==
  \/ \E t \in Emitters : (\E e \in Events : EmitCheck(t, e)) \/ EmitStep(t)
  \/ \E c \in Controllers :
       (\E f \in Filters : SetReset(c, f)) \/ ClearDisable(c) \/ ControlStep(c)
  \/ \E t \in Threads : LockPoisoned(t)
  \/ Terminated

\* The scheduler runs every thread that can run.  Nothing is asked of the
\* mutex: it is held only inside emit, and the calls of emit are bounded.  No
\* caller is obliged to begin another call.
Fairness ==
  /\ \A t \in Emitters : WF_vars(EmitStep(t))
  /\ \A c \in Controllers : WF_vars(ControlStep(c))
  /\ \A t \in Threads : WF_vars(LockPoisoned(t))

Spec == Init /\ [][Next]_vars
FairSpec == Spec /\ Fairness

----------------------------------------------------------------------------
(***************************************************************************)
(* A ring buffer retains the most recent events of its session and no      *)
(* other, in the order they were delivered (RingBufferSink, trace/mod.rs). *)
(***************************************************************************)
RingHoldsTail ==
  \A s \in SessionIds :
    LET n == Len(stream[s]) IN
    buf[s] = SubSeq(stream[s], IF n > RingCap THEN n - RingCap + 1 ELSE 1, n)

(***************************************************************************)
(* Between two resets of SEQ no number is delivered twice, whichever       *)
(* session receives it, and a session receives its numbers in increasing   *)
(* order (TraceEvent.seq: "Monotonic sequence number").                    *)
(***************************************************************************)
NumbersOrdered ==
  \A s, u \in SessionIds : \A i \in DOMAIN stream[s], j \in DOMAIN stream[u] :
    stream[s][i].epoch = stream[u][j].epoch =>
      /\ stream[s][i].seq = stream[u][j].seq => s = u /\ i = j
      /\ s = u /\ i < j => stream[s][i].seq < stream[u][j].seq

(***************************************************************************)
(* No interleaving of set_session and clear_session leaves a session       *)
(* installed but switched off: once every controller has returned, an      *)
(* installed session is enabled.  It is why set_session enables last and   *)
(* clear_session disables first.                                           *)
(***************************************************************************)
InstalledIsEnabled ==
  (cell # None /\ ~enabled /\ ~poisoned) =>
    \E c \in Controllers : pc[c] \in {"enable", "drop"}

(***************************************************************************)
(* A session receives events only while it is the installed one: nothing   *)
(* reaches a collector after clear_session, or the set_session that        *)
(* replaced it, took effect.                                               *)
(***************************************************************************)
OnlyInstalledReceives ==
  [][\A s \in SessionIds : stream'[s] # stream[s] => cell = s /\ cell' = s]_vars

(***************************************************************************)
(* A session installed while no other was, by a set_session no other       *)
(* set_session overlapped, starts at 0 (set_session's doc: "a fresh        *)
(* capture starts at 0").                                                  *)
(***************************************************************************)
StartsAtZero(s) == stream[s] # <<>> => Head(stream[s]).seq = 0
FreshAfterClear == \A s \in quiet : poisoned \/ StartsAtZero(s)

(***************************************************************************)
(* "emitting is a pure side effect": no call of emit panics.               *)
(***************************************************************************)
EmitIsPure == \A t \in Emitters : pc[t] # "panicked"

(***************************************************************************)
(* Every call returns (or its thread panics): no thread waits for the      *)
(* session mutex for ever.                                                 *)
(***************************************************************************)
CallsReturn ==
  \A t \in Threads : pc[t] # "idle" ~> pc[t] \in {"idle", "panicked"}

=============================================================================
