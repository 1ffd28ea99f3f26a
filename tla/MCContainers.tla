----------------------------- MODULE MCContainers -----------------------------
(* An instance of Containers for TLC: the directories root, root/sub,        *)
(* root/sub/deep, root/shut (which cannot be read) and alone, with files at  *)
(* each level.                                                             *)
EXTENDS Containers

CONSTANTS root, sub, deep, shut, alone, f1, f2, f3, f4, f5

MCHome == [f \in Files |-> CASE f = f1 -> root [] f \in {f2, f3} -> sub
                              [] f = f4 -> deep [] OTHER -> shut]

MCParent == [d \in Dirs |-> CASE d \in {sub, shut} -> root [] d = deep -> sub [] OTHER -> None]

MCStartLists == {<<root>>, <<sub, root>>, <<root, sub>>, <<deep, root>>, <<root, root>>, <<alone>>}
=============================================================================
