------------------------------ MODULE Hierarchy ------------------------------
(***************************************************************************)
(* The binary overlay tree of virtual nodes that the runtime puts on top   *)
(* of its localities (allscale/hierarchy.hpp, src/hierarchy.cpp).          *)
(*                                                                         *)
(* A virtual node is addressed by <<rank, layer>>: the locality hosting it *)
(* and its height.  Layer 0 is the locality itself; rank r hosts one       *)
(* virtual node for every trailing zero bit of r, rank 0 hosts the root.   *)
(* Every operator here is a pure function of an address and of the number  *)
(* of localities.                                                          *)
(***************************************************************************)
EXTENDS Integers

getRank(a)  == a[1]
getLayer(a) == a[2]

isLeaf(a) == getLayer(a) = 0

\* rank & (1 << layer)
isRightChild(a) == (getRank(a) \div 2^getLayer(a)) % 2 = 1

\* Clears bit `layer' of the rank and moves one layer up.
getParent(a) ==
  <<getRank(a) - (IF isRightChild(a) THEN 2^getLayer(a) ELSE 0), getLayer(a) + 1>>

getLeftChild(a)  == <<getRank(a), getLayer(a) - 1>>
getRightChild(a) == <<getRank(a) + 2^(getLayer(a) - 1), getLayer(a) - 1>>

\* HierarchyAddress::check: the low `layer' bits of the rank are zero.
check(a) == getRank(a) % 2^getLayer(a) = 0

\* The least h with 2^h >= size: the loop of getLayersOn for rank 0.
CeilLog2(size) == CHOOSE h \in 0 .. size : 2^h >= size /\ (h = 0 \/ 2^(h - 1) < size)

TrailingZeros(rank) ==
  CHOOSE z \in 0 .. rank : rank % 2^z = 0 /\ rank % 2^(z + 1) # 0

getLayersOn(rank, size) ==
  1 + (IF rank = 0 THEN CeilLog2(size) ELSE TrailingZeros(rank))

getRootOfNetworkSize(size) == <<0, getLayersOn(0, size) - 1>>

(***************************************************************************)
(* The virtual nodes for which a HierarchyService is installed, and the    *)
(* neighbours a service stores.  A right child hosted beyond the last      *)
(* locality is replaced by the left child.                                 *)
(***************************************************************************)
Addresses(size) ==
  UNION { {<<r, l>> : l \in 0 .. getLayersOn(r, size) - 1} : r \in 0 .. size - 1 }

ServiceRight(a, size) ==
  IF getRank(getRightChild(a)) >= size THEN getLeftChild(a) ELSE getRightChild(a)

\* The virtual nodes of the subtree of `a': those whose rank agrees with
\* that of `a' above bit `layer(a)' and which are not higher than `a'.
Subtree(a, size) ==
  { b \in Addresses(size) :
      /\ getLayer(b) <= getLayer(a)
      /\ getRank(b) \div 2^getLayer(a) = getRank(a) \div 2^getLayer(a) }
=============================================================================
