------------------------------- MODULE MCCid --------------------------------
(* Cid with bytes of six values and a hash of two. *)
EXTENDS Cid

\* Every byte string that is too short for a CID, and CIDs of every type, known
\* or not, with no size, sizes of up to SizeLen bytes, and one byte too many.
MCForeign ==
  UNION {[1 .. n -> Byte] : n \in 0 .. 2}
    \cup {<<t, f>> \o rest : t \in Byte, f \in {Bridge, HashTypeEd25519},
                            rest \in UNION {[1 .. n -> {0, 5}] : n \in 1 .. 4}}

MCDigests == {<<0>>, <<5>>}

\* Zero, one byte, a leading zero byte, and the largest size.
MCSizes == {0, 5, 6, 35}
=============================================================================
