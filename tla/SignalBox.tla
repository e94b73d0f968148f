------------------------------ MODULE SignalBox ------------------------------
(***************************************************************************)
(* What kern/signal.c promises, without a scheduler: each process has a    *)
(* set of pending signals; sig_wait(sigs) returns when one of sigs is      *)
(* pending, never before, sig_check(sigs) returns in any case, and both    *)
(* take all of sigs that are pending and no other signal.  Nothing else    *)
(* removes a signal while the process lives, and a new process has none.   *)
(***************************************************************************)
CONSTANTS Procs, Sigs

VARIABLES
  pending,  \* the signals sent to a process and not taken
  asked,    \* the argument of the call that a process is in, or {}
  polls,    \* the processes whose call is sig_check()
  alive     \* the processes that were created and have not exited

boxVars == <<pending, asked, polls, alive>>

BoxInit ==
  /\ pending = [p \in Procs |-> {}]
  /\ asked = [p \in Procs |-> {}]
  /\ polls = {}
  /\ alive \in SUBSET Procs

\* sig_send() and sig_post(); the timer interrupt posts to several processes.
Put(to, sigs) ==
  /\ to \subseteq alive
  /\ pending' = [p \in Procs |-> IF p \in to THEN pending[p] \cup sigs ELSE pending[p]]
  /\ UNCHANGED <<asked, polls, alive>>

\* sig_wait(sigs) or sig_check(sigs) is called.
Ask(p, sigs) ==
  /\ p \in alive
  /\ asked[p] = {}
  /\ asked' = [asked EXCEPT ![p] = sigs]
  /\ polls' \in {polls, polls \cup {p}}
  /\ UNCHANGED <<pending, alive>>

\* It returns what it asked for and found.
Take(p) ==
  /\ pending[p] \cap asked[p] # {}
  /\ pending' = [pending EXCEPT ![p] = @ \ asked[p]]
  /\ asked' = [asked EXCEPT ![p] = {}]
  /\ polls' = polls \ {p}
  /\ UNCHANGED alive

\* sig_check() finds nothing.
Decline(p) ==
  /\ p \in polls
  /\ pending[p] \cap asked[p] = {}
  /\ asked' = [asked EXCEPT ![p] = {}]
  /\ polls' = polls \ {p}
  /\ UNCHANGED <<pending, alive>>

\* A process ends, not in a call; what it was sent may go with it, and is gone
\* when a new process uses its control block.
End(p) ==
  /\ p \in alive
  /\ asked[p] = {}
  /\ alive' = alive \ {p}
  /\ UNCHANGED <<pending, asked, polls>>

Reset(p) ==
  /\ p \notin alive
  /\ pending' = [pending EXCEPT ![p] = {}]
  /\ UNCHANGED <<asked, polls, alive>>

Begin(p) ==
  /\ p \notin alive
  /\ pending[p] = {} /\ asked[p] = {}
  /\ alive' = alive \cup {p}
  /\ UNCHANGED <<pending, asked, polls>>

BoxNext ==
  \/ \E p \in Procs : Take(p) \/ Decline(p) \/ End(p) \/ Reset(p) \/ Begin(p)
  \/ \E sigs \in (SUBSET Sigs) \ {{}} :
       \/ \E p \in Procs : Ask(p, sigs)
       \/ \E to \in SUBSET Procs : Put(to, sigs)

BoxSpec == BoxInit /\ [][BoxNext]_boxVars
=============================================================================
