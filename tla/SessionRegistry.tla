-------------------------- MODULE SessionRegistry --------------------------
(***************************************************************************)
(* What the daemon's session manager promises about its session map,       *)
(* without the mutex, the watchers or the requests: a name is bound to at  *)
(* most one session, a session enters the map only when it is new, a name  *)
(* is bound only when it is free, and a session that has ended leaves the  *)
(* map for good.                                                           *)
(***************************************************************************)
CONSTANTS Names,        \* entry names, the keys of SessionManager.sessions
          SessionIds,   \* every session that may ever be made
          NoSession     \* a name that is not in the map

VARIABLES reg,          \* the session each name is bound to
          life          \* "new", then "up", then "down"

vars == <<reg, life>>

Init == /\ reg = [n \in Names |-> NoSession]
        /\ life = [s \in SessionIds |-> "new"]

(* A new session is bound to a free name: Mount stored what the mounter    *)
(* made.                                                                   *)
Open(n, s) == /\ reg[n] = NoSession
              /\ life[s] = "new"
              /\ reg' = [reg EXCEPT ![n] = s]
              /\ life' = [life EXCEPT ![s] = "up"]

(* A session ends: it was unmounted, here or from outside.                 *)
Fall(s) == /\ life[s] = "up"
           /\ life' = [life EXCEPT ![s] = "down"]
           /\ UNCHANGED reg

(* A name is freed: Unmount, the sweep of UnmountAll, or a watcher.        *)
Close(n) == /\ reg[n] # NoSession
            /\ reg' = [reg EXCEPT ![n] = NoSession]
            /\ UNCHANGED life

(* Unmount does both in one critical section.                              *)
FallAndClose(n, s) == /\ reg[n] # NoSession
                      /\ life[s] = "up"
                      /\ reg' = [reg EXCEPT ![n] = NoSession]
                      /\ life' = [life EXCEPT ![s] = "down"]

(* The daemon exits and every mount it still serves ends with it.          *)
Stop == /\ life' = [s \in SessionIds |->
                      IF life[s] = "up" THEN "down" ELSE life[s]]
        /\ UNCHANGED reg

Next == \/ \E n \in Names, s \in SessionIds : Open(n, s) \/ FallAndClose(n, s)
        \/ \E s \in SessionIds : Fall(s)
        \/ \E n \in Names : Close(n)
        \/ Stop

Spec == Init /\ [][Next]_vars
=============================================================================
