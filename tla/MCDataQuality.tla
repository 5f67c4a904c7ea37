--------------------------- MODULE MCDataQuality ---------------------------
(* Instances of DataQuality for TLC. *)
EXTENDS DataQuality

MCOne == {1}
MCTwo == {1, 2}
MCOkOnly == {"OK"}
MCBoth == {"OK", "STALE"}

(* Settings that drop old updates and do not wait after a takeover, with each *)
(* use of the cache; the default one; and one that waits.                    *)
MCMost == {s \in SettingType :
             \/ s.ignoreDups /\ ~s.waitFt /\ (s.initial \/ (s.onInitial /\ s.preRecap))
             \/ ~s.ignoreDups /\ s.initial /\ ~s.onInitial /\ ~s.preRecap}

MCDefaults == {s \in SettingType :
                 s.initial /\ ~s.ignoreDups /\ ~s.onInitial /\ ~s.preRecap /\ ~s.waitFt}
MCOnInitial == {s \in SettingType :
                 s.initial /\ s.ignoreDups /\ s.onInitial /\ ~s.preRecap /\ ~s.waitFt}
MCWaitFt == {s \in SettingType :
                 s.initial /\ ~s.ignoreDups /\ ~s.onInitial /\ ~s.preRecap /\ s.waitFt}
=============================================================================
