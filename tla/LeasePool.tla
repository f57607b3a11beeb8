----------------------------- MODULE LeasePool -----------------------------
(***************************************************************************)
(* What ConnectionManager promises its callers, with no mutex, condition   *)
(* variable or deadline in it: a set of free connections, and for each     *)
(* client at most one connection on lease.  A lease is exclusive, starts   *)
(* with a connection that was free and has no transaction open, and ends   *)
(* with the connection either free again or discarded.                     *)
(***************************************************************************)
EXTENDS Naturals

CONSTANTS Clients,      \* threads that ask for connections
          Resources,    \* connection objects
          None          \* a client with no lease

VARIABLES free,         \* connections nobody holds
          lease         \* client -> connection or None

lpVars == <<free, lease>>

Leased == {lease[c] : c \in Clients} \ {None}

LPTypeOK == /\ free \subseteq Resources
            /\ lease \in [Clients -> Resources \cup {None}]

LPInit == /\ free = {}
          /\ lease = [c \in Clients |-> None]

(* New connections come into being: none of them is free or leased.        *)
Supply == \E new \in SUBSET (Resources \ (free \cup Leased)) :
             /\ free' = free \cup new
             /\ UNCHANGED lease

(* The pool forgets every free connection; leases are not revoked.         *)
Discard == free' = {} /\ UNCHANGED lease

Acquire(c) == /\ lease[c] = None
              /\ \E r \in free :
                   /\ lease' = [lease EXCEPT ![c] = r]
                   /\ free' = free \ {r}

Return(c) == /\ lease[c] # None
             /\ free' = free \cup {lease[c]}
             /\ lease' = [lease EXCEPT ![c] = None]

LPNext == Supply \/ Discard \/ \E c \in Clients : Acquire(c) \/ Return(c)

LPSpec == LPInit /\ [][LPNext]_lpVars
=============================================================================
