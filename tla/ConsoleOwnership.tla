--------------------------- MODULE ConsoleOwnership ----------------------------
(***************************************************************************)
(* What the console binding table promises, whatever it stores: every      *)
(* console identity has at most one owner, and it changes owner only by    *)
(* being released first ("refused with 409 rather than silently moved",    *)
(* src/nintendo_bindings.go).  ConsoleBindings implements this.            *)
(*                                                                         *)
(* A process may stop at any moment and come back with the ownership it    *)
(* had saved last, which a failed write may have left behind.              *)
(***************************************************************************)
CONSTANTS Pids, Ids, Nobody

VARIABLES owner, saved

avars == <<owner, saved>>

AInit ==
  /\ owner = [i \in Ids |-> Nobody]
  /\ saved = owner

ASave == saved' = saved \/ saved' = owner'

Owners == [Ids -> Pids \cup {Nobody}]

(* One account at a time: p takes identities nobody holds, and lets go of  *)
(* some of its own.                                                        *)
Change(p) ==
  /\ owner' \in {o \in Owners : \A i \in Ids :
                   o[i] # owner[i] => {owner[i], o[i]} = {Nobody, p}}
  /\ ASave

Reload == owner' = saved /\ UNCHANGED saved

ANext == Reload \/ \E p \in Pids : Change(p)

ASpec == AInit /\ [][ANext]_avars

=============================================================================
