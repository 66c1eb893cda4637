------------------------------- MODULE Lease -------------------------------
(***************************************************************************)
(* What a lock backend promises its callers, independent of any database.  *)
(*                                                                         *)
(* A lock is a lease: acquire() grants it until an expiry time, and from   *)
(* then on anybody may take it over.  LockBackendInterface calls this an   *)
(* advisory lock that is broken "automatically" once its duration has      *)
(* exceeded the timeout.  The promise is that a name is granted to a       *)
(* process only when every other process's lease on it has run out, up to  *)
(* the tolerance Slack the implementation adds when it compares stored     *)
(* expiry times.                                                           *)
(***************************************************************************)
EXTENDS Integers

CONSTANTS
    Proc,    \* requests, each with a lock id of its own
    Name,    \* lock names
    Slack    \* tolerance in the comparison of stored expiry times

VARIABLES
    now,     \* the clock all processes read
    lease    \* lease[p][n]: when p's lease on n expires, 0 if p has none

leaseVars == <<now, lease>>

\* p can still rely on its lease on n.
Live(p, n) == lease[p][n] >= now + Slack

LeaseInit ==
    /\ now \in Nat \ {0}
    /\ lease = [p \in Proc |-> [n \in Name |-> 0]]

\* A grant or a renewal: nobody else has a live lease.
Grant(p, n) ==
    /\ \A q \in Proc \ {p} : ~Live(q, n)
    /\ lease'[p][n] \in Nat
    /\ lease' = [lease EXCEPT ![p][n] = lease'[p][n]]
    /\ UNCHANGED now

\* A process gives up leases of its own: it releases them, learns that they
\* were broken, or dies.
Forgo(p) ==
    /\ \E kept \in SUBSET Name :
           lease' = [lease EXCEPT ![p] =
                         [n \in Name |-> IF n \in kept THEN lease[p][n] ELSE 0]]
    /\ UNCHANGED now

Tick ==
    /\ now' \in Nat
    /\ now' > now
    /\ UNCHANGED lease

LeaseNext ==
    \/ \E p \in Proc, n \in Name : Grant(p, n)
    \/ \E p \in Proc : Forgo(p)
    \/ Tick

LeaseSpec == LeaseInit /\ [][LeaseNext]_leaseVars

=============================================================================
