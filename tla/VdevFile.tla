------------------------------ MODULE VdevFile ------------------------------
(***************************************************************************)
(* What a disk's LBAs are for (vdev_file.rs, label.rs): two labels, two    *)
(* spacemaps, and zones, the first of which holds all that.  VdevBlock     *)
(* checks the bounds of what it passes on.                                 *)
(***************************************************************************)
EXTENDS Integers

CONSTANTS
    DiskSize, LbasPerZone,  \* in LBAs
    LabelLbas,              \* LABEL_LBAS
    SpacemapZonesPerLba,    \* SPACEMAP_ZONES_PER_LBA
    CanDelete               \* does the device know TRIM?

ASSUME DiskAssumption ==
    /\ DiskSize \in Nat \ {0} /\ LbasPerZone \in Nat \ {0} /\ LabelLbas \in Nat \ {0}
    /\ SpacemapZonesPerLba \in Nat \ {0} /\ CanDelete \in BOOLEAN

LabelCount == 2
DivRoundup(a, b) == (a + b - 1) \div b

NZones == DivRoundup(DiskSize, LbasPerZone)
SpacemapSpace == DivRoundup(NZones, SpacemapZonesPerLba)
ReservedSpace == LabelCount * (LabelLbas + SpacemapSpace)

\* zone_limits and lba2zone.  Zones are numbered from zero; -1 is no zone.
DiskZoneLimits(z) ==
    <<IF z = 0 THEN ReservedSpace ELSE z * LbasPerZone, (z + 1) * LbasPerZone>>
DiskLba2Zone(lba) == IF lba >= ReservedSpace THEN lba \div LbasPerZone ELSE -1

\* erase_zone: the LBAs that the device is told to forget.
Trimmed(lba) == IF CanDelete THEN lba .. lba + LbasPerZone - 1 ELSE {}

\* Where the labels are, and the blocks of the spacemaps.
LabelAt(label) == label * LabelLbas .. (label + 1) * LabelLbas - 1
SpacemapAt(idx) ==
    LET lba == idx * SpacemapSpace + LabelCount * LabelLbas
    IN lba .. lba + SpacemapSpace - 1

\* VdevBlock::check_iovec_bounds and check_sglist_bounds.
InBounds(lba, n) == lba + n < DiskSize
=============================================================================
