-------------------------- MODULE MCLeaseAndSequence --------------------------
(* Two services of the HMI backend, each explored on its own: the session  *)
(* lock, and the supervisor with one sequence of commands.                 *)
EXTENDS SessionLockService, CommandSequence

VARIABLE service    \* the service that this behaviour is about

BackendInit == service \in {"lock", "sequence"} /\ Init /\ SequenceInit

Lock(A) == service = "lock" /\ A /\ UNCHANGED <<service, sequence>>
Sequences(A) == service = "sequence" /\ A /\ UNCHANGED <<service, vars>>

BackendNext == Lock(Next) \/ Sequences(SequenceNext)

backend == <<service, vars, sequence>>

\* As in CommandSequence!Fairness: request threads run, the stream polls, the
\* confirmation window closes on the wall clock.
BackendSpec ==
    /\ BackendInit /\ [][BackendNext]_backend
    /\ \A t \in Thread :
          /\ WF_backend(Sequences(ThreadStep(t)))
          /\ WF_backend(Sequences(Request(t, "poll")))
    /\ WF_backend(Sequences(WindowElapses))
===============================================================================
