--------------------------- MODULE MCSystemUpdate ---------------------------
(* A small device: two operations of three sources, one layout delivered   *)
(* and one to install, and the manifests that matter.                      *)
EXTENDS SystemUpdate, TLC

CONSTANTS
  t0, t1, b0, b1, a0, a1, r0, r1, d1, junk

Comp(id, kind, at, size, img) ==
  [id |-> id, kind |-> kind, at |-> at, size |-> size, img |-> img]

NewTable == Comp(1, "partition_table", "ptable", 1, t1)

\* Everything at once: table, application, data, bootloader.
FullBundle ==
  [form |-> "sound", layout |-> t1, plan |->
     <<NewTable, Comp(2, "application", "ota_0", 2, a1), Comp(3, "data", "nvs", 1, d1),
       Comp(4, "bootloader", "bootloader", 1, b1)>>]
\* A recovery self-update under the layout in place.
RecoveryBundle ==
  [form |-> "sound", layout |-> t0, plan |-> <<Comp(1, "recovery", "factory", 1, r1)>>]
\* Data for an immutable partition, an application and a bootloader that are
\* no images.
StrayBundle ==
  [form |-> "sound", layout |-> t1, plan |-> <<NewTable, Comp(2, "data", "sysmeta", 1, d1)>>]
JunkBundle ==
  [form |-> "sound", layout |-> t1, plan |-> <<NewTable, Comp(2, "application", "ota_0", 1, junk)>>]
JunkBootBundle ==
  [form |-> "sound", layout |-> t1, plan |-> <<NewTable, Comp(2, "bootloader", "bootloader", 1, junk)>>]
UnparsableBundle == [form |-> "unparsable", layout |-> t1, plan |-> << >>]

\* HTTP and NAND play the same part, and so do the operation ids.
Symmetry == Permutations(LocalSources) \cup Permutations(Ops)

MCBundles == {FullBundle, RecoveryBundle, StrayBundle, JunkBundle, JunkBootBundle,
              UnparsableBundle}
MCLiveBundles == {FullBundle, RecoveryBundle, JunkBundle, UnparsableBundle}
MCRegions == {"bootloader", "ptable", "sysmeta", "factory", "nvs", "ota_0"}
MCImages == {t0, t1, b0, b1, a0, a1, r0, r1, d1, junk}
MCBootImages == {b0, b1, a0, a1, r0, r1}
MCTableImages == {t0, t1}
MCFixedRegions == {"sysmeta", "factory"}
MCTable ==
  LET layout(otaSize) == [r \in MCRegions |->
        CASE r \in {"sysmeta", "factory"} -> [kind |-> "fixed", size |-> 2]
          [] r = "nvs"                    -> [kind |-> "data", size |-> 1]
          [] r = "ota_0"                  -> [kind |-> "ota_0", size |-> otaSize]
          [] OTHER                        -> [kind |-> "none", size |-> 0]]
  IN [t \in {t0, t1} |-> IF t = t0 THEN layout(1) ELSE layout(2)]
MCFlash ==
  [r \in MCRegions |-> CASE r = "bootloader" -> b0 [] r = "ptable" -> t0
                         [] r = "factory" -> r0 [] r = "ota_0" -> a0 [] OTHER -> Blank]
=============================================================================
