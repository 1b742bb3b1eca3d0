-------------------------- MODULE ConnectionLease ---------------------------
(***************************************************************************)
(* What a connection pool promises its users, without queue, mutex and     *)
(* condition variable: a connection is free or leased to one thread, a     *)
(* lease ends by giving the connection back, and once the pool is shut     *)
(* there are no new leases.  ConnectionPool implements this.               *)
(***************************************************************************)
CONSTANTS Threads, Connections, NoConnection

VARIABLES
  free,    \* connections a thread may get
  lessee,  \* the connection of each thread
  shut     \* Close() was called

leaseVars == <<free, lessee, shut>>

LeaseInit ==
  /\ free = Connections
  /\ lessee = [t \in Threads |-> NoConnection]
  /\ shut = FALSE

Lease(t) ==
  /\ ~ shut
  /\ lessee[t] = NoConnection
  /\ \E c \in free :
       /\ lessee' = [lessee EXCEPT ![t] = c]
       /\ free' = free \ {c}
  /\ UNCHANGED shut

EndLease(t) ==
  /\ lessee[t] # NoConnection
  /\ lessee' = [lessee EXCEPT ![t] = NoConnection]

\* A return may overlap with the call of Close().
GiveBack(t) ==
  /\ EndLease(t)
  /\ free' = free \cup {lessee[t]}
  /\ UNCHANGED shut

\* The connection is destroyed with its last user.
Drop(t) ==
  /\ EndLease(t)
  /\ shut
  /\ UNCHANGED <<free, shut>>

Shut ==
  /\ ~ shut
  /\ shut' = TRUE
  /\ UNCHANGED <<free, lessee>>

\* The pool is destroyed when nobody uses it.
Discard ==
  /\ shut
  /\ \A t \in Threads : lessee[t] = NoConnection
  /\ free' = {}
  /\ UNCHANGED <<lessee, shut>>

LeaseNext ==
  \/ \E t \in Threads : Lease(t) \/ GiveBack(t) \/ Drop(t)
  \/ Shut
  \/ Discard

LeaseSpec == LeaseInit /\ [][LeaseNext]_leaseVars
=============================================================================
