----------------------------- MODULE MCMemoryCache -----------------------------
(* Instances of MemoryCache for TLC.                                        *)
EXTENDS MemoryCache, TLC

CONSTANTS c1, c2, c3, t1, t2, p1, p2, sig1, sig2, g1, g2

Key(t, p, g) == [tenant |-> t, principal |-> p, config_signature |-> g]

(* Subjects and configurations: two principals of one tenant, two of        *)
(* another, and one subject under a second engine configuration.            *)
FiveKeys == {Key(t1, p1, sig1), Key(t1, p2, sig1), Key(t2, p1, sig1), Key(t1, p1, sig2),
             Key(t2, p2, sig1)}
(* Of two shards, shard 0 is home to three keys, one more than its share of *)
(* a capacity of 3, and shard 1 to two keys, also one more than its share.  *)
FiveHash == (Key(t1, p1, sig1) :> 0) @@ (Key(t1, p2, sig1) :> 1)
            @@ (Key(t2, p1, sig1) :> 2) @@ (Key(t1, p1, sig2) :> 3)
            @@ (Key(t2, p2, sig1) :> 4)

(* Three of them: shard 0 has room for both its keys, so that nothing but   *)
(* an invalidation or its age may remove an entry there.                    *)
ThreeKeys == {Key(t1, p1, sig1), Key(t1, p2, sig1), Key(t2, p1, sig1)}
ThreeHash == [k \in ThreeKeys |-> FiveHash[k]]

NoTtlForAll == [c \in Clients |-> NoTtl]
(* Handles of one cache with different ttls: with_ttl is per handle.  With  *)
(* a ttl of 0 an entry is live at the instant it was made and at no later.  *)
MixedTtl == [c \in Clients |-> IF c = c1 THEN 0 ELSE NoTtl]

ClientSymmetry == Permutations(Clients)
GrantSymmetry == Permutations(Grants)
===============================================================================
