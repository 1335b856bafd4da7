------------------------------ MODULE DevManager ------------------------------
(***************************************************************************)
(* How a pool is found and put together from its disks (device_manager.rs, *)
(* label.rs, VdevFile::open, raid::open and Pool::open).                   *)
(*                                                                         *)
(* Every disk has two labels.  Whatever a label says of the pool's parts   *)
(* never changes; the rest of it is the commit it was written by, and that *)
(* number stands for the label here.                                       *)
(***************************************************************************)
EXTENDS Integers, Sequences, Functions

CONSTANTS
    Children,       \* pool::Label::children, the pool's clusters in order
    Leaves          \* the children of each cluster's label, its disks in order

Clusters == Range(Children)
Disks == UNION {Range(Leaves[c]) : c \in Clusters}

ASSUME ChildrenAssumption ==
    /\ Children \in Seq(Clusters) /\ Children # <<>>
    /\ \A c \in Clusters : Leaves[c] \in Seq(Disks) /\ Leaves[c] # <<>>

VARIABLES
    labels,         \* the two labels of each disk
    leaves,         \* Inner::leaves: the disks that were tasted and not imported
    raids,          \* Inner::raids, in the same way
    pools,          \* Inner::pools: is the pool there to be imported?
    poisoned,       \* did a call panic that held Inner's lock?
    opening         \* for each cluster None, Asked, Failed or the label it read

dmvars == <<leaves, raids, pools, poisoned, opening>>

Torn == -1          \* a label that LabelReader::from_dbs finds no good
Asked == -2
Failed == -3
NotAsked == -4

\* LabelReader::from_dbs checks the magic and the checksum.
Good(label) == label # Torn
\* VdevFile::open tries the first label and then the second.
LabelOf(d) == IF Good(labels[d][1]) THEN labels[d][1] ELSE labels[d][2]

Fresh ==
    /\ leaves = {} /\ raids = {} /\ pools = FALSE /\ poisoned = FALSE
    /\ opening = [c \in Clusters |-> NotAsked]

\* The program starts, or starts again after it has panicked.
Restart ==
    /\ leaves' = {} /\ raids' = {} /\ pools' = FALSE /\ poisoned' = FALSE
    /\ opening' = [c \in Clusters |-> NotAsked]
    /\ UNCHANGED labels

\* DevManager::taste notes the disk, and the cluster and pool that its label names.
ClusterOf(d) == CHOOSE c \in Clusters : d \in Range(Leaves[c])
Taste(d) ==
    /\ ~poisoned /\ d \notin leaves
    /\ \A c \in Clusters : opening[c] = NotAsked
    /\ Good(LabelOf(d))
    /\ leaves' = leaves \cup {d}
    /\ raids' = raids \cup {ClusterOf(d)}
    /\ pools' = TRUE
    /\ UNCHANGED <<labels, poisoned, opening>>

\* DevManager::open_labels takes the pool's parts out of the maps, one by one, and
\* panics with the lock held when it misses one.
OpenLabels ==
    /\ pools' = FALSE
    /\ raids' = raids \ Clusters /\ leaves' = leaves \ Disks
    /\ poisoned' = ~(Clusters \subseteq raids /\ Disks \subseteq leaves)
\* DevManager::import: then every cluster is opened by a task of its own.
Import ==
    /\ ~poisoned /\ pools
    /\ OpenLabels
    /\ opening' = [c \in Clusters |-> IF poisoned' THEN NotAsked ELSE Asked]
    /\ UNCHANGED labels

\* DevManager::open_vdev_blocks opens the disks once more, one after the other.
OpenVdevBlocks(ds) == [i \in DOMAIN ds |-> LabelOf(ds[i])]
\* raid::open keeps the LabelReader of the first disk.
RaidOpen(readers) == readers[1]
\* DevManager::open_cluster.
OpenCluster(c) ==
    /\ opening[c] = Asked
    /\ LET readers == OpenVdevBlocks(Leaves[c])
       IN  opening' = [opening EXCEPT ![c] =
                          IF \A r \in Range(readers) : Good(r) THEN RaidOpen(readers) ELSE Failed]
    /\ UNCHANGED <<labels, leaves, raids, pools, poisoned>>

\* A mutant of PoolReader: the reader of the cluster that was opened first.
PoolReaderAny == Range(opening)
\* Pool::open keeps the LabelReader of the first cluster; it is the one that the
\* IDML and the Database are opened from.
PoolReader == {opening[Children[1]]}
AllOpen == \A c \in Clusters : opening[c] >= 0

DmNext == Restart \/ Import \/ (\E d \in Disks : Taste(d)) \/ \E c \in Clusters : OpenCluster(c)

-----------------------------------------------------------------------------
\* importable_pools: "List every pool that hasn't been imported, but can be".
ListedCanBeImported == pools => Clusters \subseteq raids /\ Disks \subseteq leaves
=============================================================================
