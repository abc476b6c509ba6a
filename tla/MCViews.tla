------------------------------- MODULE MCViews ------------------------------
(* Instances of Views for TLC.                                             *)
EXTENDS Views

Setting(follow, returns, policy) == [follow |-> follow, returns |-> returns, policy |-> policy]

(* Every policy but ring_global, to which ring_project falls back; no      *)
(* ringing under "follow".                                                 *)
MCSettings == {Setting(TRUE, TRUE, "navigate"), Setting(FALSE, TRUE, "respawn"),
               Setting(FALSE, FALSE, "ring_project")}

MCLayouts == {<<Trunk, Trunk, Trunk>>, <<Home, Trunk, Feature>>, <<Feature, Feature>>}

(* The ones that ring under "follow".                                      *)
RingSettings == {Setting(TRUE, FALSE, "ring_global")}
=============================================================================
