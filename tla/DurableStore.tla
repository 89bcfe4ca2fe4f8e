---------------------------- MODULE DurableStore ----------------------------
(***************************************************************************)
(* What a database promises about the writes it is given, whatever files,  *)
(* logs and tables it keeps them in: nothing appears that was not written, *)
(* nothing that is there goes away while the database is open or is being  *)
(* opened, and what was acknowledged is there for ever.                    *)
(***************************************************************************)
EXTENDS Naturals

VARIABLES
  open,     \* may the database be used?
  store,    \* the writes in it, by their sequence numbers
  acked     \* those of them acknowledged with sync

vars == <<open, store, acked>>

Init ==
  /\ open = FALSE
  /\ store = {}
  /\ acked = {}

(* A write is added after all others, acknowledged or not.                 *)
Write ==
  /\ open
  /\ \E s \in store' \ store :
       /\ \A t \in store : t < s
       /\ store' = store \cup {s}
       /\ acked' \in {acked, acked \cup {s}}
  /\ UNCHANGED open

(* The database is opened as it is.                                        *)
Open ==
  /\ ~open
  /\ open'
  /\ UNCHANGED <<store, acked>>

(* It is closed, or it or the machine crashes: writes that were not        *)
(* acknowledged may be gone.                                               *)
Stop ==
  /\ ~open'
  /\ acked \subseteq store' /\ store' \subseteq store
  /\ UNCHANGED acked

Next == Write \/ Open \/ Stop

Spec == Init /\ [][Next]_vars
=============================================================================
