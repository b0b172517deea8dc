------------------------------- MODULE Ledger -------------------------------
(***************************************************************************)
(* What the pool promises its clients, without sessions, stores, crashes   *)
(* or goroutines: jobs are announced under increasing ids, one nonce each, *)
(* and a list of accepted submissions grows such that no connection gets   *)
(* the same client nonce accepted twice for a job, and a user's accepted   *)
(* submissions are a second apart.                                         *)
(***************************************************************************)
EXTENDS Integers, Sequences

CONSTANTS Job,      \* [job, nonce] pairs that may be announced
          Event,    \* records with fields user, ch, job, cn, at
          Second    \* the submission rate limit

VARIABLES jobs,     \* the jobs announced so far
          ledger    \* the accepted submissions, in order of publication

Init == jobs = {} /\ ledger = <<>>

Announce(m) ==
  /\ jobs' = jobs \cup {m} /\ UNCHANGED ledger
  /\ \A k \in jobs : k.job < m.job

Fresh(e) ==
  \A i \in DOMAIN ledger :
    <<ledger[i].ch, ledger[i].job, ledger[i].cn>> # <<e.ch, e.job, e.cn>>

Spaced(e) ==
  \A i \in DOMAIN ledger :
    ledger[i].user = e.user => e.at - ledger[i].at >= Second

Accept(e) ==
  /\ ledger' = Append(ledger, e) /\ UNCHANGED jobs
  /\ Fresh(e) /\ Spaced(e)

Next ==
  \/ jobs' # jobs /\ \E m \in Job : Announce(m)
  \/ ledger' # ledger /\ \E e \in Event : Accept(e)

Spec == Init /\ [][Next]_<<jobs, ledger>>
=============================================================================
