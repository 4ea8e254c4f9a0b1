----------------------------- MODULE TimerService -----------------------------
(***************************************************************************)
(* What the MiniSip library is promised of SipStartTimer, SipStopTimer and *)
(* SipTxnTimeoutHandler: the handler is called for a timer that was        *)
(* started, after its time, once, and not after Fini.  A timer stopped may *)
(* still fire, once: the stop is only queued, and may be refused.          *)
(***************************************************************************)
EXTENDS Naturals

CONSTANT Timer

VARIABLES timer,      \* what the library knows of each timer
          elapsed,    \* timers whose time has come
          calls,      \* calls of the handler, per timer
          open        \* Fini has not returned

vars == <<timer, elapsed, calls, open>>

Init ==
  /\ timer = [t \in Timer |-> "new"]
  /\ elapsed = {}
  /\ calls = [t \in Timer |-> 0]
  /\ open = TRUE

Becomes(t, from, to) == timer[t] = from /\ timer' = [timer EXCEPT ![t] = to]

Start(t) ==
  /\ open
  /\ Becomes(t, "new", "running") \/ Becomes(t, "new", "refused")
  /\ UNCHANGED <<elapsed, calls, open>>

Stop(t) ==
  /\ open
  /\ Becomes(t, "running", "stopped")
  /\ UNCHANGED <<elapsed, calls, open>>

Elapse(t) ==
  /\ elapsed' = elapsed \cup {t}
  /\ UNCHANGED <<timer, calls, open>>

Fire(t) ==
  /\ open
  /\ t \in elapsed
  /\ calls[t] = 0
  /\ calls' = [calls EXCEPT ![t] = 1]
  /\ \/ Becomes(t, "running", "expired")
     \/ timer[t] = "stopped" /\ UNCHANGED timer
  /\ UNCHANGED <<elapsed, open>>

Close ==
  /\ open
  /\ open' = FALSE
  /\ UNCHANGED <<timer, elapsed, calls>>

Next == (\E t \in Timer : Start(t) \/ Stop(t) \/ Elapse(t) \/ Fire(t)) \/ Close

Spec == Init /\ [][Next]_vars
=============================================================================
